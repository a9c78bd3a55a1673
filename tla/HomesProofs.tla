----------------------------- MODULE HomesProofs -----------------------------
(***************************************************************************)
(* Proofs about Homes, for any finite set of pilots, flats and houses, any  *)
(* rent, prices and caps, and any hours the server is up, down or closed:   *)
(*   - who is on a home's lists knows its codes or holds it;                *)
(*   - a bed has one sleeper, of the crew, who has no other;                *)
(*   - a lease unpaid is not ended before its days of grace are over;       *)
(*   - credits, goods and pieces are only moved (MoneyInv).                 *)
(***************************************************************************)
EXTENDS Homes, Sums

(* Who is on the lists of a home, d, has entered its codes, or holds it. *)
ListsOK(d, codes) ==
    /\ d.holder \in d.crew
    /\ d.crew \subseteq codes.crew \cup {d.holder}
    /\ d.guests \subseteq codes.guests

(* A bed is one piece, and has one sleeper, of the crew, who has no other. *)
BedsOK(d) ==
    /\ \A q \in d.pieces : q.id < d.next
    /\ \A q, r \in d.pieces : q.id = r.id => q = r
    /\ \A a \in d.asleep : /\ a.who \in d.crew
                           /\ \E q \in d.pieces : q.kind = "bed" /\ q.id = a.piece
    /\ \A a, b \in d.asleep : a.piece = b.piece \/ a.who = b.who => a = b

(* The lists and the keypad are within their caps. *)
CapsOK(d) ==
    /\ d.misses <= LockoutTries /\ (~d.shut => d.misses < LockoutTries)
    /\ Cardinality(d.crew) <= CrewCap /\ Cardinality(d.guests) <= GuestCap

(* A lease is charged to the hour t, and paid to no later; and it is unpaid since then, if
   its clock was never late or stopped.  A house has no panel. *)
RentOK(h, d, paid, late, t) ==
    /\ d.at <= t /\ d.unpaid <= t
    /\ h \in Flats => /\ d.at = t /\ paid <= d.at
                      /\ d.unpaid = Never \/ h \in late \/ paid <= d.unpaid
    /\ h \in Houses => d.bank = 0

HomeOK(h, d, codes, paid, late, t) ==
    /\ d \in Holdings /\ IsFiniteSet(d.pieces)
    /\ ListsOK(d, codes) /\ BedsOK(d) /\ CapsOK(d) /\ RentOK(h, d, paid, late, t)

(* Who has entered a home's codes. *)
Entries == [crew : SUBSET Pilots, guests : SUBSET Pilots]

Shapes ==
    /\ held \in [Homes -> Holdings \cup {NotHeld}]
    /\ entered \in [Homes -> Entries]
    /\ paid_to \in [Homes -> Nat] /\ excused \subseteq Flats
    /\ now \in 0..MaxHours /\ open \in BOOLEAN

(* Nobody sleeps in two homes. *)
AsleepOnce ==
    \A g, h \in HeldHomes : \A a \in held[g].asleep, b \in held[h].asleep :
        a.who = b.who => g = h

HomesInv ==
    /\ Shapes /\ AsleepOnce
    /\ \A h \in HeldHomes : HomeOK(h, held[h], entered[h], paid_to[h], excused, now)

-----------------------------------------------------------------------------
Fields == {"holder", "bank", "at", "unpaid", "code", "guest_code", "crew", "guests", "misses",
           "shut", "pieces", "next", "asleep"}

LEMMA HoldingIs ==
    ASSUME NEW d \in Holdings
    PROVE  /\ DOMAIN d = Fields /\ d # NotHeld
           /\ d.holder \in Pilots /\ d.bank \in Nat /\ d.at \in Nat
           /\ d.unpaid \in {Never} \cup Nat
           /\ d.code \in Codes \cup {NoCode} /\ d.guest_code \in Codes \cup {NoCode}
           /\ d.crew \subseteq Pilots /\ d.guests \subseteq Pilots
           /\ d.misses \in Nat /\ d.shut \in BOOLEAN
           /\ d.pieces \subseteq [id : Nat, kind : Furniture, holds : Nat]
           /\ d.next \in Nat /\ d.asleep \subseteq [piece : Nat, who : Pilots]
BY HomesAssumption DEF Holdings, Fields

LEMMA HeldIs ==
    ASSUME HomesInv, NEW h \in Homes, IsHeld(h)
    PROVE  /\ held[h] \in Holdings
           /\ HomeOK(h, held[h], entered[h], paid_to[h], excused, now)
BY DEF HomesInv, HeldHomes, Shapes, IsHeld

LEMMA TimeIs ==
    ASSUME HomesInv
    PROVE  /\ now \in Nat /\ open \in BOOLEAN /\ paid_to \in [Homes -> Nat]
           /\ Homes = Flats \cup Houses /\ Flats \cap Houses = {}
           /\ \A h \in Homes : entered[h].crew \subseteq Pilots /\ entered[h].guests \subseteq Pilots
BY HomesAssumption DEF HomesInv, Shapes, Homes, Entries

(* A step that changes one home. *)
LEMMA OneHome ==
    ASSUME HomesInv, NEW h \in Homes, NEW e, Becomes(h, e), UNCHANGED <<now, open>>,
           HomeOK(h, e, entered'[h], paid_to'[h], excused', now),
           \A a \in e.asleep : IsHeld(h) /\ \E b \in held[h].asleep : b.who = a.who,
           entered' \in [Homes -> Entries],
           paid_to' \in [Homes -> Nat], excused' \subseteq Flats,
           \A g \in Homes : g # h => /\ entered'[g] = entered[g] /\ paid_to'[g] = paid_to[g]
                                     /\ g \in excused' <=> g \in excused
    PROVE  HomesInv'
<1>1. Shapes /\ AsleepOnce BY DEF HomesInv
<1>2. e \in Holdings BY DEF HomeOK
<1>3. held' = [held EXCEPT ![h] = e] /\ held \in [Homes -> Holdings \cup {NotHeld}]
    BY <1>1 DEF Becomes, Shapes
<1>4. held'[h] = e /\ \A g \in Homes : g # h => held'[g] = held[g] BY <1>3
<1>5. Shapes' BY <1>1, <1>2, <1>3 DEF Shapes
<1>6. ASSUME NEW f \in HeldHomes', NEW g \in HeldHomes', NEW a \in held'[f].asleep,
             NEW b \in held'[g].asleep, a.who = b.who
      PROVE  f = g
    <2>0. f \in Homes /\ g \in Homes BY DEF HeldHomes
    <2>1. PICK c \in held[f].asleep : c.who = a.who /\ IsHeld(f)
        BY <1>4, <1>6, <2>0 DEF HeldHomes, IsHeld
    <2>2. PICK d \in held[g].asleep : d.who = b.who /\ IsHeld(g)
        BY <1>4, <1>6, <2>0 DEF HeldHomes, IsHeld
    <2> QED BY <1>1, <1>6, <2>0, <2>1, <2>2 DEF AsleepOnce, HeldHomes
<1>7. AsleepOnce' BY <1>6 DEF AsleepOnce
<1>8. ASSUME NEW g \in HeldHomes'
      PROVE  HomeOK(g, held'[g], entered'[g], paid_to'[g], excused', now')
    <2>0. g \in Homes BY DEF HeldHomes
    <2>1. CASE g = h BY <2>1, <1>4
    <2>2. CASE g # h
        <3>1. HomeOK(g, held[g], entered[g], paid_to[g], excused, now)
            BY <2>0, <2>2, <1>4, HeldIs DEF HeldHomes, IsHeld
        <3>2. /\ held'[g] = held[g] /\ entered'[g] = entered[g] /\ paid_to'[g] = paid_to[g]
              /\ g \in excused' <=> g \in excused
            BY <2>0, <2>2, <1>4
        <3> QED BY <3>1, <3>2 DEF HomeOK, RentOK
    <2> QED BY <2>1, <2>2
<1> QED BY <1>5, <1>7, <1>8 DEF HomesInv

LEMMA OneHomeOnly ==
    ASSUME HomesInv, NEW h \in Homes, NEW e, Becomes(h, e), UNCHANGED <<now, open>>,
           HomeOK(h, e, entered[h], paid_to[h], excused, now),
           \A a \in e.asleep : IsHeld(h) /\ \E b \in held[h].asleep : b.who = a.who,
           UNCHANGED history
    PROVE  HomesInv'
BY OneHome DEF history, HomesInv, Shapes

LEMMA FeedStep ==
    ASSUME HomesInv, NEW p \in Pilots, NEW h \in Homes,
           Feed(p, h, 1) \/ Withdraw(p, h, 1) \/ Visited(p, h)
    PROVE  HomesInv'
<1> DEFINE d == held[h]
<1>1. IsHeld(h) BY DEF Feed, Withdraw, Visited, IsCrew, HeldBy
<1>2. d \in Holdings /\ HomeOK(h, d, entered[h], paid_to[h], excused, now) BY <1>1, HeldIs
<1>3. PICK e : Becomes(h, e) /\ \/ e = [d EXCEPT !.bank = @ + 1] /\ h \in Flats
                                \/ e = [d EXCEPT !.bank = @ - 1] /\ h \in Flats /\ 1 <= d.bank
                                \/ e = [d EXCEPT !.at = now] /\ h \in Houses
    BY DEF Feed, Withdraw, Visited, Covers
<1>4. UNCHANGED <<now, open, history>> BY DEF Feed, Withdraw, Visited, clock
<1>5. /\ e \in Holdings /\ e.holder = d.holder /\ e.crew = d.crew /\ e.guests = d.guests
      /\ e.pieces = d.pieces /\ e.next = d.next /\ e.asleep = d.asleep /\ e.misses = d.misses
      /\ e.shut = d.shut /\ e.unpaid = d.unpaid
      /\ h \in Flats => e.at = d.at
      /\ h \in Houses => e.bank = d.bank /\ e.at = now
    BY <1>2, <1>3, TimeIs, HoldingIs DEF Holdings, Fields
<1> HIDE DEF d
<1>6. RentOK(h, e, paid_to[h], excused, now) BY <1>2, <1>5, TimeIs DEF HomeOK, RentOK
<1>7. HomeOK(h, e, entered[h], paid_to[h], excused, now)
    BY <1>2, <1>5, <1>6 DEF HomeOK, ListsOK, BedsOK, CapsOK
<1> QED BY <1>1, <1>3, <1>4, <1>5, <1>7, OneHomeOnly DEF d

(* A list that is not full, or has the newcomer. *)
LEMMA ListGrows ==
    ASSUME NEW list \in SUBSET Pilots, NEW p \in Pilots, NEW cap \in Nat,
           Cardinality(list) <= cap, Remembers(list, p, cap)
    PROVE  Cardinality(list \cup {p}) <= cap
<1>1. IsFiniteSet(list) BY HomesAssumption, FS_Subset
<1>2. CASE p \in list
    <2>1. list \cup {p} = list BY <1>2
    <2> QED BY <2>1
<1>3. CASE p \notin list
    <2>1. Cardinality(list \cup {p}) = Cardinality(list) + 1 BY <1>1, <1>3, FS_AddElement
    <2>2. Cardinality(list) < cap BY <1>3 DEF Remembers
    <2>3. Cardinality(list) \in Nat BY <1>1, FS_CardinalityType
    <2> QED BY <2>1, <2>2, <2>3
<1> QED BY <1>2, <1>3

LEMMA ListShrinks ==
    ASSUME NEW list \in SUBSET Pilots, NEW fewer \in SUBSET list, NEW cap \in Nat,
           Cardinality(list) <= cap
    PROVE  Cardinality(fewer) <= cap
<1>1. IsFiniteSet(list) BY HomesAssumption, FS_Subset
<1>2. /\ Cardinality(fewer) <= Cardinality(list) /\ IsFiniteSet(fewer)
      /\ Cardinality(list) \in Nat
    BY <1>1, FS_Subset, FS_CardinalityType
<1>3. Cardinality(fewer) \in Nat BY <1>2, FS_CardinalityType
<1> QED BY <1>2, <1>3

LEMMA ListEmpty ==
    ASSUME NEW cap \in Nat
    PROVE  Cardinality({}) <= cap
BY FS_EmptySet

LEMMA Caps ==
    /\ CrewCap \in Nat \ {0} /\ GuestCap \in Nat /\ LockoutTries \in Nat \ {0}
    /\ Grace \in Nat \ {0} /\ MaxHours \in Nat
BY HomesAssumption

(* What the lock's requests leave alone of a home. *)
SameButLock(d, e) ==
    /\ e.holder = d.holder /\ e.bank = d.bank /\ e.at = d.at /\ e.unpaid = d.unpaid
    /\ e.pieces = d.pieces /\ e.next = d.next

(* What every home has is what it had. *)
HomesKeep ==
    \A g \in Homes : /\ held'[g] = NotHeld <=> held[g] = NotHeld
                     /\ IsHeld(g) => held'[g].bank = held[g].bank /\ held'[g].pieces = held[g].pieces

LEMMA LockChanges ==
    ASSUME HomesInv, NEW h \in Homes, IsHeld(h), NEW e \in Holdings, Becomes(h, e),
           SameButLock(held[h], e), e.asleep \subseteq held[h].asleep,
           \A a \in e.asleep : a.who \in e.crew,
           CapsOK(e), ListsOK(e, entered'[h]),
           UNCHANGED <<now, open, paid_to, excused>>,
           entered' \in [Homes -> Entries],
           \A g \in Homes : g # h => entered'[g] = entered[g]
    PROVE  HomesInv' /\ HomesKeep
<1>1. HomeOK(h, held[h], entered[h], paid_to[h], excused, now) BY HeldIs
<1>2. BedsOK(e) BY <1>1 DEF HomeOK, BedsOK, SameButLock
<1>3. RentOK(h, e, paid_to[h], excused, now) BY <1>1 DEF HomeOK, RentOK, SameButLock
<1>4. HomeOK(h, e, entered'[h], paid_to'[h], excused', now)
    BY <1>1, <1>2, <1>3 DEF HomeOK, SameButLock
<1>5. paid_to' \in [Homes -> Nat] /\ excused' \subseteq Flats BY DEF HomesInv, Shapes
<1>6. \A a \in e.asleep : IsHeld(h) /\ \E b \in held[h].asleep : b.who = a.who OBVIOUS
<1>7. HomesKeep
    <2>1. held' = [held EXCEPT ![h] = e] /\ held \in [Homes -> Holdings \cup {NotHeld}]
        BY DEF Becomes, HomesInv, Shapes
    <2>2. \A g \in Homes : held'[g] = IF g = h THEN e ELSE held[g] BY <2>1
    <2>3. e # NotHeld BY HoldingIs
    <2> QED BY <2>2, <2>3 DEF HomesKeep, IsHeld, SameButLock
<1> QED BY <1>4, <1>5, <1>6, <1>7, OneHome

LEMMA EnteredIs ==
    ASSUME HomesInv, NEW h \in Homes
    PROVE  /\ entered[h] \in Entries /\ DOMAIN entered[h] = {"crew", "guests"}
           /\ entered[h].crew \in SUBSET Pilots /\ entered[h].guests \in SUBSET Pilots
BY DEF HomesInv, Shapes, Entries

LEMMA EnteredType ==
    ASSUME HomesInv, NEW h \in Homes, NEW x, x \in Entries,
           entered' = [entered EXCEPT ![h] = x]
    PROVE  /\ entered' \in [Homes -> Entries] /\ entered'[h] = x
           /\ \A f \in Homes : f # h => entered'[f] = entered[f]
BY DEF HomesInv, Shapes, Entries

LEMMA SetCodeStep ==
    ASSUME HomesInv, NEW p \in Pilots, NEW h \in Homes, NEW c \in Codes, SetCode(p, h, c)
    PROVE  HomesInv' /\ HomesKeep
<1> DEFINE d == held[h]
           list == Lists(d, p)
           e == [d EXCEPT !.code = c, !.guest_code = NoCode, !.guests = {}, !.crew = list,
                          !.misses = 0, !.shut = FALSE, !.asleep = StillCrew(d, list)]
<1>1. IsHeld(h) /\ p \in d.crew /\ Becomes(h, e) /\ UNCHANGED <<now, open, paid_to, excused>>
    BY DEF SetCode, IsCrew, clock
<1>2. d \in Holdings /\ HomeOK(h, d, entered[h], paid_to[h], excused, now) BY <1>1, HeldIs
<1>3. /\ list \in SUBSET Pilots /\ d.holder \in list /\ list \subseteq {p, d.holder}
      /\ StillCrew(d, list) \in SUBSET d.asleep
      /\ \A a \in StillCrew(d, list) : a.who \in list
    BY <1>2, HoldingIs DEF Lists, StillCrew
<1>4. Cardinality(list) <= CrewCap
    <2>1. Cardinality({d.holder}) <= CrewCap
        <3>1. Cardinality({d.holder}) = 1 BY FS_Singleton
        <3> QED BY <3>1, Caps
    <2>2. d.holder \in Pilots BY <1>2, HoldingIs
    <2>3. CASE Remembers({d.holder}, p, CrewCap)
        <3>1. Cardinality({d.holder} \cup {p}) <= CrewCap BY <2>1, <2>2, <2>3, ListGrows, Caps
        <3>2. list = {d.holder} \cup {p} BY <2>3 DEF Lists
        <3> QED BY <3>1, <3>2
    <2>4. CASE ~Remembers({d.holder}, p, CrewCap)
        <3>2. list = {d.holder} BY <2>4 DEF Lists
        <3> QED BY <2>1, <3>2
    <2> QED BY <2>3, <2>4
<1>5. entered' = [entered EXCEPT ![h] = [crew |-> {p}, guests |-> {}]] BY DEF SetCode
<1>6. /\ entered' \in [Homes -> Entries]
      /\ entered'[h].crew = {p} /\ entered'[h].guests = {}
      /\ \A f \in Homes : f # h => entered'[f] = entered[f]
    <2>1. [crew |-> {p}, guests |-> {}] \in Entries BY DEF Entries
    <2> QED BY <1>5, <2>1, EnteredType
<1> HIDE DEF list
<1>7. /\ e \in Holdings /\ SameButLock(d, e) /\ e.asleep = StillCrew(d, list)
      /\ e.crew = list /\ e.guests = {} /\ e.misses = 0 /\ e.shut = FALSE
    BY <1>2, <1>3, HoldingIs DEF Holdings, Fields, SameButLock
<1> HIDE DEF e
<1>8. CapsOK(e) BY <1>4, <1>7, Caps, ListEmpty DEF CapsOK
<1>9. ListsOK(e, entered'[h])
    BY <1>3, <1>6, <1>7 DEF ListsOK, SameButLock
<1> QED BY <1>1, <1>3, <1>6, <1>7, <1>8, <1>9, LockChanges

LEMMA SetGuestCodeStep ==
    ASSUME HomesInv, NEW p \in Pilots, NEW h \in Homes, NEW c \in Codes \cup {NoCode},
           SetGuestCode(p, h, c)
    PROVE  HomesInv' /\ HomesKeep
<1> DEFINE d == held[h]
           e == [d EXCEPT !.guest_code = c, !.guests = {}]
<1>1. IsHeld(h) /\ Becomes(h, e) /\ UNCHANGED <<now, open, paid_to, excused>>
    BY DEF SetGuestCode, IsCrew, clock
<1>2. d \in Holdings /\ HomeOK(h, d, entered[h], paid_to[h], excused, now) BY <1>1, HeldIs
<1>5. /\ entered' \in [Homes -> Entries]
      /\ entered'[h].crew = entered[h].crew /\ entered'[h].guests = {}
      /\ \A f \in Homes : f # h => entered'[f] = entered[f]
    <2> DEFINE x == [entered[h] EXCEPT !.guests = {}]
    <2>1. x \in Entries /\ x.crew = entered[h].crew /\ x.guests = {}
        BY EnteredIs DEF Entries
    <2>2. entered' = [entered EXCEPT ![h] = x] BY DEF SetGuestCode
    <2> HIDE DEF x
    <2>3. entered' \in [Homes -> Entries] /\ entered'[h] = x
          /\ \A f \in Homes : f # h => entered'[f] = entered[f]
        BY <2>1, <2>2, EnteredType
    <2> QED BY <2>1, <2>3
<1>6. /\ e \in Holdings /\ SameButLock(d, e) /\ e.asleep = d.asleep
      /\ e.crew = d.crew /\ e.guests = {} /\ e.misses = d.misses /\ e.shut = d.shut
    BY <1>2, HoldingIs DEF Holdings, Fields, SameButLock
<1> HIDE DEF d, e
<1>7. CapsOK(e) BY <1>2, <1>6, Caps, ListEmpty DEF CapsOK, HomeOK
<1>8. ListsOK(e, entered'[h]) BY <1>2, <1>5, <1>6 DEF ListsOK, SameButLock, HomeOK
<1>9. \A a \in e.asleep : a.who \in e.crew BY <1>2, <1>6 DEF HomeOK, BedsOK
<1> QED BY <1>1, <1>5, <1>6, <1>7, <1>8, <1>9, LockChanges DEF d

LEMMA LeaveCrewStep ==
    ASSUME HomesInv, NEW p \in Pilots, NEW h \in Homes, LeaveCrew(p, h)
    PROVE  HomesInv' /\ HomesKeep
<1> DEFINE d == held[h]
           e == Off(d, p)
           x == [crew |-> entered[h].crew \ {p}, guests |-> entered[h].guests \ {p}]
<1>1. /\ IsHeld(h) /\ Becomes(h, e) /\ UNCHANGED <<now, open, paid_to, excused>>
      /\ d.holder # p /\ entered' = [entered EXCEPT ![h] = x]
    BY DEF LeaveCrew, clock
<1>2. d \in Holdings /\ HomeOK(h, d, entered[h], paid_to[h], excused, now) BY <1>1, HeldIs
<1>3. /\ e \in Holdings /\ SameButLock(d, e) /\ e.asleep = {a \in d.asleep : a.who # p}
      /\ e.crew = d.crew \ {p} /\ e.guests = d.guests \ {p}
      /\ e.misses = d.misses /\ e.shut = d.shut
    BY <1>2, HoldingIs DEF Holdings, Fields, SameButLock, Off
<1>4. x \in Entries /\ x.crew = entered[h].crew \ {p} /\ x.guests = entered[h].guests \ {p}
    BY EnteredIs DEF Entries
<1> HIDE DEF e, x
<1>5. /\ entered' \in [Homes -> Entries] /\ entered'[h] = x
      /\ \A f \in Homes : f # h => entered'[f] = entered[f]
    BY <1>1, <1>4, EnteredType
<1>6. CapsOK(e)
    <2>1. d.crew \in SUBSET Pilots /\ d.guests \in SUBSET Pilots BY <1>2, HoldingIs
    <2>2. CapsOK(d) BY <1>2 DEF HomeOK
    <2>3. Cardinality(d.crew \ {p}) <= CrewCap /\ Cardinality(d.guests \ {p}) <= GuestCap
        BY <2>1, <2>2, ListShrinks, Caps DEF CapsOK
    <2> QED BY <2>2, <2>3, <1>3 DEF CapsOK
<1>7. ListsOK(e, entered'[h])
    BY <1>1, <1>2, <1>3, <1>4, <1>5 DEF ListsOK, SameButLock, HomeOK
<1>8. e.asleep \subseteq d.asleep /\ \A a \in e.asleep : a.who \in e.crew
    BY <1>2, <1>3 DEF HomeOK, BedsOK
<1> QED BY <1>1, <1>3, <1>5, <1>6, <1>7, <1>8, LockChanges

LEMMA ClearCrewStep ==
    ASSUME HomesInv, NEW p \in Pilots, NEW h \in Homes, ClearCrew(p, h)
    PROVE  HomesInv' /\ HomesKeep
<1> DEFINE d == held[h]
           kept == {p, d.holder}
           e == [d EXCEPT !.crew = kept, !.guests = {}, !.asleep = StillCrew(d, kept)]
           x == [crew |-> entered[h].crew \cap kept, guests |-> {}]
<1>1. /\ IsHeld(h) /\ Becomes(h, e) /\ UNCHANGED <<now, open, paid_to, excused>>
      /\ p \in d.crew /\ entered' = [entered EXCEPT ![h] = x]
    BY DEF ClearCrew, IsCrew, clock
<1>2. d \in Holdings /\ HomeOK(h, d, entered[h], paid_to[h], excused, now) BY <1>1, HeldIs
<1>3. /\ kept \subseteq d.crew /\ d.crew \in SUBSET Pilots
      /\ StillCrew(d, kept) \subseteq d.asleep
      /\ \A a \in StillCrew(d, kept) : a.who \in kept
    BY <1>1, <1>2, HoldingIs DEF HomeOK, ListsOK, StillCrew
<1>4. x \in Entries /\ x.crew = entered[h].crew \cap kept /\ x.guests = {}
    BY EnteredIs DEF Entries
<1>5. d.holder \in kept /\ kept \in SUBSET Pilots BY <1>3
<1> HIDE DEF kept
<1>6. /\ e \in Holdings /\ SameButLock(d, e) /\ e.asleep = StillCrew(d, kept)
      /\ e.crew = kept /\ e.guests = {}
      /\ e.misses = d.misses /\ e.shut = d.shut
    <2>1. StillCrew(d, kept) \in SUBSET [piece : Nat, who : Pilots] BY <1>2, <1>3, HoldingIs
    <2> QED BY <1>2, <1>5, <2>1, HoldingIs DEF Holdings, Fields, SameButLock
<1> HIDE DEF e, x
<1>7. /\ entered' \in [Homes -> Entries] /\ entered'[h] = x
      /\ \A f \in Homes : f # h => entered'[f] = entered[f]
    BY <1>1, <1>4, EnteredType
<1>8. CapsOK(e)
    <2>2. CapsOK(d) BY <1>2 DEF HomeOK
    <2>3. Cardinality(kept) <= CrewCap BY <1>3, <2>2, ListShrinks, Caps DEF CapsOK
    <2> QED BY <2>2, <2>3, <1>6, Caps, ListEmpty DEF CapsOK
<1>9. ListsOK(e, entered'[h])
    <2>1. kept \subseteq x.crew \cup {d.holder}
        BY <1>2, <1>3, <1>4 DEF ListsOK, HomeOK
    <2> QED BY <2>1, <1>4, <1>5, <1>6, <1>7 DEF ListsOK, SameButLock
<1> QED BY <1>1, <1>3, <1>6, <1>7, <1>8, <1>9, LockChanges

LEMMA EnterCodeStep ==
    ASSUME HomesInv, NEW p \in Pilots, NEW h \in Homes, NEW c \in Codes, NEW over \in BOOLEAN,
           EnterCode(p, h, c, over)
    PROVE  HomesInv' /\ HomesKeep
<1> DEFINE d == held[h]
           fresh == [d EXCEPT !.misses = IF d.shut THEN 0 ELSE @, !.shut = FALSE]
<1>1. IsHeld(h) /\ UNCHANGED <<now, open, paid_to, excused>> BY DEF EnterCode, clock
<1>2. d \in Holdings /\ HomeOK(h, d, entered[h], paid_to[h], excused, now) BY <1>1, HeldIs
<1>3. /\ fresh \in Holdings /\ SameButLock(d, fresh) /\ fresh.asleep = d.asleep
      /\ fresh.crew = d.crew /\ fresh.guests = d.guests /\ fresh.shut = FALSE
      /\ fresh.misses = IF d.shut THEN 0 ELSE d.misses
    BY <1>2, HoldingIs, ZenonT(60) DEF Holdings, Fields, SameButLock
<1> HIDE DEF fresh
<1>4. /\ CapsOK(fresh) /\ fresh.misses < LockoutTries /\ fresh.misses \in Nat
    BY <1>2, <1>3, HoldingIs, Caps DEF CapsOK, HomeOK
<1>5. PICK e : Becomes(h, e) /\
             \/ /\ e = [fresh EXCEPT !.crew = @ \cup {p}, !.misses = 0]
                /\ Remembers(d.crew, p, CrewCap)
                /\ entered' = [entered EXCEPT ![h].crew = @ \cup {p}]
             \/ /\ e = [fresh EXCEPT !.guests = @ \cup {p}, !.misses = 0]
                /\ Remembers(d.guests, p, GuestCap)
                /\ entered' = [entered EXCEPT ![h].guests = @ \cup {p}]
             \/ /\ \/ e = fresh
                   \/ e = [fresh EXCEPT !.misses = 0]
                   \/ e = [fresh EXCEPT !.misses = @ + 1, !.shut = fresh.misses + 1 >= LockoutTries]
                /\ entered' = entered
    <2>1. \/ /\ c = d.code
             /\ IF Remembers(d.crew, p, CrewCap)
                THEN /\ Becomes(h, [fresh EXCEPT !.crew = @ \cup {p}, !.misses = 0])
                     /\ entered' = [entered EXCEPT ![h].crew = @ \cup {p}]
                ELSE Becomes(h, fresh) /\ UNCHANGED entered
          \/ /\ c # d.code /\ c = d.guest_code
             /\ CASE p \in d.crew -> Becomes(h, [fresh EXCEPT !.misses = 0]) /\ UNCHANGED entered
                  [] p \notin d.crew /\ Remembers(d.guests, p, GuestCap) ->
                       /\ Becomes(h, [fresh EXCEPT !.guests = @ \cup {p}, !.misses = 0])
                       /\ entered' = [entered EXCEPT ![h].guests = @ \cup {p}]
                  [] OTHER -> Becomes(h, fresh) /\ UNCHANGED entered
          \/ /\ c \notin {d.code, d.guest_code}
             /\ Becomes(h, [fresh EXCEPT !.misses = @ + 1,
                                          !.shut = fresh.misses + 1 >= LockoutTries])
             /\ UNCHANGED entered
        BY DEF EnterCode, fresh
    <2> QED BY <2>1, Zenon
<1>6. ListsOK(fresh, entered[h]) /\ \A a \in fresh.asleep : a.who \in fresh.crew
    BY <1>2, <1>3 DEF HomeOK, ListsOK, BedsOK, SameButLock
<1>7. /\ entered \in [Homes -> Entries] /\ entered[h] \in Entries
      /\ DOMAIN entered[h] = {"crew", "guests"}
    BY EnteredIs DEF HomesInv, Shapes
<1>8. ASSUME e \in Holdings, SameButLock(fresh, e), e.asleep = fresh.asleep,
             fresh.crew \subseteq e.crew, CapsOK(e), ListsOK(e, entered'[h]),
             entered' \in [Homes -> Entries],
             \A g \in Homes : g # h => entered'[g] = entered[g]
      PROVE  HomesInv' /\ HomesKeep
    <2>1. SameButLock(d, e) /\ e.asleep \subseteq d.asleep /\ \A a \in e.asleep : a.who \in e.crew
        BY <1>3, <1>6, <1>8 DEF SameButLock
    <2> QED BY <1>1, <1>5, <1>8, <2>1, LockChanges
<1>9. CASE /\ e = [fresh EXCEPT !.crew = @ \cup {p}, !.misses = 0]
           /\ Remembers(d.crew, p, CrewCap)
           /\ entered' = [entered EXCEPT ![h].crew = @ \cup {p}]
    <2> DEFINE x == [entered[h] EXCEPT !.crew = @ \cup {p}]
    <2>1. x \in Entries /\ x.crew = entered[h].crew \cup {p} /\ x.guests = entered[h].guests
        BY <1>7, EnteredIs DEF Entries
    <2>2. entered' = [entered EXCEPT ![h] = x] BY <1>9
    <2> HIDE DEF x
    <2>3. /\ entered' \in [Homes -> Entries] /\ entered'[h] = x
          /\ \A f \in Homes : f # h => entered'[f] = entered[f]
        BY <2>1, <2>2, EnteredType
    <2>4. /\ e \in Holdings /\ SameButLock(fresh, e) /\ e.asleep = fresh.asleep
          /\ e.crew = fresh.crew \cup {p} /\ e.guests = fresh.guests
          /\ e.misses = 0 /\ e.shut = fresh.shut
        BY <1>3, <1>9, HoldingIs DEF Holdings, Fields, SameButLock
    <2>5. Cardinality(fresh.crew \cup {p}) <= CrewCap
        BY <1>3, <1>4, <1>9, HoldingIs, ListGrows, Caps DEF CapsOK
    <2>6. CapsOK(e) BY <1>4, <2>4, <2>5, Caps DEF CapsOK
    <2>7. ListsOK(e, entered'[h]) BY <1>6, <2>1, <2>3, <2>4 DEF ListsOK, SameButLock
    <2>8. fresh.crew \subseteq e.crew BY <2>4
    <2> QED BY <1>8, <2>3, <2>4, <2>6, <2>7, <2>8
<1>10. CASE /\ e = [fresh EXCEPT !.guests = @ \cup {p}, !.misses = 0]
            /\ Remembers(d.guests, p, GuestCap)
            /\ entered' = [entered EXCEPT ![h].guests = @ \cup {p}]
    <2> DEFINE x == [entered[h] EXCEPT !.guests = @ \cup {p}]
    <2>1. x \in Entries /\ x.guests = entered[h].guests \cup {p} /\ x.crew = entered[h].crew
        BY <1>7, EnteredIs DEF Entries
    <2>2. entered' = [entered EXCEPT ![h] = x] BY <1>10
    <2> HIDE DEF x
    <2>3. /\ entered' \in [Homes -> Entries] /\ entered'[h] = x
          /\ \A f \in Homes : f # h => entered'[f] = entered[f]
        BY <2>1, <2>2, EnteredType
    <2>4. /\ e \in Holdings /\ SameButLock(fresh, e) /\ e.asleep = fresh.asleep
          /\ e.guests = fresh.guests \cup {p} /\ e.crew = fresh.crew
          /\ e.misses = 0 /\ e.shut = fresh.shut
        BY <1>3, <1>10, HoldingIs DEF Holdings, Fields, SameButLock
    <2>5. Cardinality(fresh.guests \cup {p}) <= GuestCap
        BY <1>3, <1>4, <1>10, HoldingIs, ListGrows, Caps DEF CapsOK
    <2>6. CapsOK(e) BY <1>4, <2>4, <2>5, Caps DEF CapsOK
    <2>7. ListsOK(e, entered'[h]) BY <1>6, <2>1, <2>3, <2>4 DEF ListsOK, SameButLock
    <2>8. fresh.crew \subseteq e.crew BY <2>4
    <2> QED BY <1>8, <2>3, <2>4, <2>6, <2>7, <2>8
<1>11. CASE /\ \/ e = fresh
               \/ e = [fresh EXCEPT !.misses = 0]
               \/ e = [fresh EXCEPT !.misses = @ + 1, !.shut = fresh.misses + 1 >= LockoutTries]
            /\ entered' = entered
    <2>1. PICK n \in Nat, b \in BOOLEAN :
             /\ e = [fresh EXCEPT !.misses = n, !.shut = b]
             /\ n <= LockoutTries /\ (~b => n < LockoutTries)
        <3>1. CASE e = fresh
            <4>1. fresh = [fresh EXCEPT !.misses = fresh.misses, !.shut = FALSE]
                BY <1>3, HoldingIs DEF Holdings
            <4>2. fresh.misses \in Nat /\ fresh.misses <= LockoutTries /\ fresh.misses < LockoutTries
                BY <1>4, Caps
            <4> QED BY <3>1, <4>1, <4>2, Zenon
        <3>2. CASE e = [fresh EXCEPT !.misses = 0]
            <4>1. [fresh EXCEPT !.misses = 0] = [fresh EXCEPT !.misses = 0, !.shut = FALSE]
                BY <1>3, HoldingIs DEF Holdings
            <4>2. 0 \in Nat /\ 0 <= LockoutTries /\ 0 < LockoutTries BY Caps
            <4> QED BY <3>2, <4>1, <4>2, Zenon
        <3>3. CASE e = [fresh EXCEPT !.misses = @ + 1, !.shut = fresh.misses + 1 >= LockoutTries]
            <4>1. fresh.misses + 1 \in Nat /\ (fresh.misses + 1 >= LockoutTries) \in BOOLEAN
                  /\ fresh.misses + 1 <= LockoutTries
                BY <1>4, Caps
            <4>2. (~(fresh.misses + 1 >= LockoutTries)) => fresh.misses + 1 < LockoutTries
                BY <1>4, Caps
            <4> QED BY <3>3, <4>1, <4>2
        <3> QED BY <1>11, <3>1, <3>2, <3>3
    <2>4. /\ e \in Holdings /\ SameButLock(fresh, e) /\ e.asleep = fresh.asleep
          /\ e.guests = fresh.guests /\ e.crew = fresh.crew
          /\ e.misses = n /\ e.shut = b
        BY <1>3, <2>1, HoldingIs DEF Holdings, Fields, SameButLock
    <2>6. CapsOK(e) BY <1>4, <2>1, <2>4 DEF CapsOK
    <2>7. ListsOK(e, entered'[h]) BY <1>6, <1>11, <2>4 DEF ListsOK, SameButLock
    <2> QED BY <1>7, <1>8, <1>11, <2>4, <2>6, <2>7
<1> QED BY <1>5, <1>9, <1>10, <1>11

-----------------------------------------------------------------------------
(* Leases and deeds. *)

LEMMA TakeStep ==
    ASSUME HomesInv, NEW p \in Pilots, NEW h \in Homes, Take(p, h)
    PROVE  HomesInv'
<1>0. now \in Nat /\ paid_to \in [Homes -> Nat] /\ excused \subseteq Flats
      /\ entered \in [Homes -> Entries]
    BY TimeIs DEF HomesInv, Shapes
<1>1. PICK b \in Nat : Becomes(h, Held(p, b)) /\ (h \in Houses => b = 0)
    <2>1. Week \in Nat BY HomesAssumption
    <2> QED BY <2>1, TimeIs DEF Take
<1>2. /\ UNCHANGED <<now, open, entered>>
      /\ paid_to' = [paid_to EXCEPT ![h] = now] /\ excused' = excused \ {h}
    BY DEF Take, clock
<1> DEFINE e == Held(p, b)
<1>3. /\ e \in Holdings /\ e.holder = p /\ e.crew = {p} /\ e.guests = {} /\ e.bank = b
      /\ e.at = now /\ e.unpaid = Never /\ e.misses = 0 /\ e.shut = FALSE
      /\ e.pieces = {} /\ e.next = 0 /\ e.asleep = {}
    BY <1>0 DEF Held, Holdings, Never
<1> HIDE DEF e
<1>4. CapsOK(e)
    <2>1. Cardinality({p}) = 1 BY FS_Singleton
    <2> QED BY <1>3, <2>1, ListEmpty, Caps DEF CapsOK
<1>5. ListsOK(e, entered'[h]) /\ BedsOK(e) BY <1>3 DEF ListsOK, BedsOK
<1>6. paid_to'[h] = now BY <1>0, <1>2
<1>7. RentOK(h, e, paid_to'[h], excused', now) BY <1>0, <1>1, <1>3, <1>6 DEF RentOK, Never
<1>8. IsFiniteSet(e.pieces) BY <1>3, FS_EmptySet
<1>9. HomeOK(h, e, entered'[h], paid_to'[h], excused', now)
    BY <1>3, <1>4, <1>5, <1>7, <1>8 DEF HomeOK
<1>10. /\ entered' \in [Homes -> Entries] /\ paid_to' \in [Homes -> Nat] /\ excused' \subseteq Flats
       /\ \A g \in Homes : g # h => /\ entered'[g] = entered[g] /\ paid_to'[g] = paid_to[g]
                                    /\ g \in excused' <=> g \in excused
    BY <1>0, <1>2
<1>11. Becomes(h, e) BY <1>1 DEF e
<1>12. \A a \in e.asleep : IsHeld(h) /\ \E c \in held[h].asleep : c.who = a.who BY <1>3
<1> QED BY <1>2, <1>9, <1>10, <1>11, <1>12, OneHome

LEMMA GiveUpStep ==
    ASSUME HomesInv, NEW p \in Pilots, NEW h \in Homes, GiveUp(p, h)
    PROVE  HomesInv'
<1>1. /\ held' = [held EXCEPT ![h] = NotHeld] /\ UNCHANGED <<now, open>>
      /\ entered' = [entered EXCEPT ![h] = Nobody]
      /\ paid_to' = [paid_to EXCEPT ![h] = 0] /\ excused' = excused \ {h}
    BY DEF GiveUp, Becomes, Forgotten, clock
<1>2. Shapes /\ AsleepOnce BY DEF HomesInv
<1>3. Nobody \in Entries BY DEF Nobody, Entries
<1>4. Shapes' BY <1>1, <1>2, <1>3 DEF Shapes
<1>5. \A g \in HeldHomes' : /\ g \in HeldHomes /\ held'[g] = held[g] /\ entered'[g] = entered[g]
                            /\ paid_to'[g] = paid_to[g]
                            /\ g \in excused' <=> g \in excused
    BY <1>1, <1>2 DEF HeldHomes, IsHeld, Shapes
<1>6. AsleepOnce' BY <1>2, <1>5 DEF AsleepOnce
<1>7. ASSUME NEW g \in HeldHomes'
      PROVE  HomeOK(g, held'[g], entered'[g], paid_to'[g], excused', now')
    <2>1. HomeOK(g, held[g], entered[g], paid_to[g], excused, now) BY <1>5 DEF HomesInv
    <2>2. RentOK(g, held[g], paid_to[g], excused', now)
        BY <1>5, <2>1 DEF HomeOK, RentOK
    <2>3. /\ held'[g] = held[g] /\ entered'[g] = entered[g] /\ paid_to'[g] = paid_to[g]
          /\ now' = now
        BY <1>1, <1>5, Zenon
    <2>4. HomeOK(g, held[g], entered[g], paid_to[g], excused', now) BY <2>1, <2>2 DEF HomeOK
    <2> QED BY <2>3, <2>4
<1> QED BY <1>4, <1>6, <1>7 DEF HomesInv

-----------------------------------------------------------------------------
(* What is in a home. *)

Pieces == [id : Nat, kind : Furniture, holds : Nat]

LEMMA PiecesChange ==
    ASSUME HomesInv, NEW h \in Homes, IsHeld(h), NEW new, NEW next \in Nat,
           new \in SUBSET Pieces, IsFiniteSet(new),
           \A q \in new : q.id < next, \A q, r \in new : q.id = r.id => q = r,
           \A a \in held[h].asleep : \E q \in new : q.kind = "bed" /\ q.id = a.piece,
           Becomes(h, [held[h] EXCEPT !.pieces = new, !.next = next]),
           UNCHANGED <<now, open, history>>
    PROVE  HomesInv'
<1> DEFINE d == held[h]
           e == [d EXCEPT !.pieces = new, !.next = next]
<1>1. d \in Holdings /\ HomeOK(h, d, entered[h], paid_to[h], excused, now) BY HeldIs
<1>2. /\ e \in Holdings /\ SameButLock([d EXCEPT !.pieces = e.pieces, !.next = e.next], e)
      /\ e.holder = d.holder /\ e.crew = d.crew /\ e.guests = d.guests /\ e.pieces = new
      /\ e.next = next /\ e.asleep = d.asleep /\ e.misses = d.misses
      /\ e.shut = d.shut /\ e.unpaid = d.unpaid /\ e.at = d.at /\ e.bank = d.bank
    BY <1>1, HoldingIs DEF Holdings, Fields, Pieces, SameButLock
<1>3. Becomes(h, e) OBVIOUS
<1> HIDE DEF e
<1>4. BedsOK(e) BY <1>1, <1>2 DEF HomeOK, BedsOK
<1>5. ListsOK(e, entered[h]) /\ CapsOK(e) /\ RentOK(h, e, paid_to[h], excused, now)
    BY <1>1, <1>2 DEF HomeOK, ListsOK, CapsOK, RentOK
<1>6. HomeOK(h, e, entered[h], paid_to[h], excused, now) BY <1>2, <1>4, <1>5 DEF HomeOK
<1>7. \A a \in e.asleep : IsHeld(h) /\ \E b \in held[h].asleep : b.who = a.who BY <1>2
<1> QED BY <1>3, <1>6, <1>7, OneHomeOnly

LEMMA FurnishStep ==
    ASSUME HomesInv, NEW p \in Pilots, NEW h \in Homes, NEW kind \in Furniture,
           Furnish(p, h, kind)
    PROVE  HomesInv'
<1> DEFINE d == held[h]
           q == [id |-> d.next, kind |-> kind, holds |-> 0]
           new == d.pieces \cup {q}
<1>1. /\ IsHeld(h) /\ UNCHANGED <<now, open, history>>
      /\ Becomes(h, [d EXCEPT !.pieces = new, !.next = d.next + 1])
    BY DEF Furnish, IsCrew, clock
<1>2. d \in Holdings /\ HomeOK(h, d, entered[h], paid_to[h], excused, now) BY <1>1, HeldIs
<1>3. /\ d.next \in Nat /\ d.pieces \in SUBSET Pieces /\ IsFiniteSet(d.pieces) /\ BedsOK(d)
      /\ \A r \in d.pieces : r.id \in Nat
    BY <1>2, HoldingIs DEF HomeOK, Pieces
<1>4. q \in Pieces /\ q.id = d.next BY <1>3 DEF Pieces
<1> HIDE DEF q
<1>5. IsFiniteSet(new) BY <1>3, FS_AddElement
<1>6. /\ \A r \in new : r.id < d.next + 1
      /\ \A r, s \in new : r.id = s.id => r = s
      /\ \A a \in d.asleep : \E r \in new : r.kind = "bed" /\ r.id = a.piece
    BY <1>3, <1>4 DEF BedsOK
<1>7. new \in SUBSET Pieces /\ d.next + 1 \in Nat BY <1>3, <1>4
<1> HIDE DEF new
<1> QED BY <1>1, <1>5, <1>6, <1>7, PiecesChange

(* A piece that is sold, or holds more or less than it did. *)
LEMMA PieceStep ==
    ASSUME HomesInv, NEW p \in Pilots, NEW h \in Homes, IsHeld(h), NEW q \in held[h].pieces,
           SellPiece(p, h, q) \/ Stash(p, h, q) \/ Unstash(p, h, q)
    PROVE  HomesInv'
<1> DEFINE d == held[h]
<1>1. d \in Holdings /\ HomeOK(h, d, entered[h], paid_to[h], excused, now) BY HeldIs
<1>2. /\ d.next \in Nat /\ d.pieces \in SUBSET Pieces /\ IsFiniteSet(d.pieces) /\ BedsOK(d)
      /\ q \in Pieces /\ DOMAIN q = {"id", "kind", "holds"} /\ q.holds \in Nat
    BY <1>1, HoldingIs DEF HomeOK, Pieces
<1>3. UNCHANGED <<now, open, history>> BY DEF SellPiece, Stash, Unstash, clock
<1>4. IsFiniteSet(d.pieces \ {q}) BY <1>2, FS_RemoveElement
<1>5. ASSUME NEW new, Becomes(h, [d EXCEPT !.pieces = new]), new \in SUBSET Pieces, IsFiniteSet(new),
             \A r \in new : r.id < d.next, \A r, s \in new : r.id = s.id => r = s,
             \A a \in d.asleep : \E r \in new : r.kind = "bed" /\ r.id = a.piece
      PROVE  HomesInv'
    <2>1. [d EXCEPT !.pieces = new] = [d EXCEPT !.pieces = new, !.next = d.next]
        BY <1>1, HoldingIs DEF Holdings
    <2> QED BY <1>2, <1>3, <1>5, <2>1, PiecesChange
<1>6. CASE SellPiece(p, h, q)
    <2> DEFINE new == d.pieces \ {q}
    <2>1. Becomes(h, [d EXCEPT !.pieces = new]) /\ Sellable(d, q) BY <1>6 DEF SellPiece
    <2>2. \A a \in d.asleep : \E r \in new : r.kind = "bed" /\ r.id = a.piece
        BY <1>2, <2>1 DEF BedsOK, Sellable
    <2>3. /\ \A r \in new : r.id < d.next /\ \A s \in new : r.id = s.id => r = s
          /\ new \in SUBSET Pieces
        BY <1>2 DEF BedsOK
    <2> HIDE DEF new
    <2> QED BY <1>4, <1>5, <2>1, <2>2, <2>3 DEF new
<1>7. ASSUME NEW n \in Nat,
             Becomes(h, [d EXCEPT !.pieces = (d.pieces \ {q}) \cup {[q EXCEPT !.holds = n]}])
      PROVE  HomesInv'
    <2> DEFINE r == [q EXCEPT !.holds = n]
               new == (d.pieces \ {q}) \cup {r}
    <2>1. r \in Pieces /\ r.id = q.id /\ r.kind = q.kind BY <1>2 DEF Pieces
    <2>2. Becomes(h, [d EXCEPT !.pieces = new]) BY <1>7
    <2> HIDE DEF r
    <2>3. IsFiniteSet(new) BY <1>4, FS_AddElement
    <2>4. /\ \A s \in new : s.id < d.next
          /\ \A s, t \in new : s.id = t.id => s = t
          /\ \A a \in d.asleep : \E s \in new : s.kind = "bed" /\ s.id = a.piece
        BY <1>2, <2>1 DEF BedsOK
    <2>5. new \in SUBSET Pieces BY <1>2, <2>1
    <2> HIDE DEF new
    <2> QED BY <1>5, <2>2, <2>3, <2>4, <2>5
<1>8. CASE Stash(p, h, q)
    <2>1. q.holds + 1 \in Nat BY <1>2
    <2>2. Becomes(h, [d EXCEPT !.pieces = (d.pieces \ {q}) \cup {[q EXCEPT !.holds = q.holds + 1]}])
        BY <1>8 DEF Stash
    <2> QED BY <1>7, <2>1, <2>2, Zenon
<1>9. CASE Unstash(p, h, q)
    <2>1. q.holds - 1 \in Nat BY <1>2, <1>9 DEF Unstash
    <2>2. Becomes(h, [d EXCEPT !.pieces = (d.pieces \ {q}) \cup {[q EXCEPT !.holds = q.holds - 1]}])
        BY <1>9 DEF Unstash
    <2> QED BY <1>7, <2>1, <2>2, Zenon
<1> QED BY <1>6, <1>8, <1>9

(* Who is out of whatever bed they were in. *)
LEMMA WokenIs ==
    ASSUME HomesInv, NEW p \in Pilots, NEW g \in Homes
    PROVE  /\ Woken(p)[g] = NotHeld <=> ~IsHeld(g)
           /\ IsHeld(g) =>
                /\ HomeOK(g, Woken(p)[g], entered[g], paid_to[g], excused, now)
                /\ Woken(p)[g].asleep = {a \in held[g].asleep : a.who # p}
                /\ Woken(p)[g].pieces = held[g].pieces /\ Woken(p)[g].crew = held[g].crew
                /\ Woken(p)[g].bank = held[g].bank
<1> DEFINE d == held[g]
           e == [d EXCEPT !.asleep = {a \in @ : a.who # p}]
<1>1. CASE ~IsHeld(g) BY <1>1 DEF Woken
<1>2. CASE IsHeld(g)
    <2>1. Woken(p)[g] = e BY <1>2 DEF Woken
    <2>2. d \in Holdings /\ HomeOK(g, d, entered[g], paid_to[g], excused, now) BY <1>2, HeldIs
    <2>3. /\ e \in Holdings /\ SameButLock(d, e) /\ e.crew = d.crew /\ e.guests = d.guests
          /\ e.misses = d.misses /\ e.shut = d.shut /\ e.asleep = {a \in d.asleep : a.who # p}
        BY <2>2, HoldingIs DEF Holdings, Fields, SameButLock
    <2> HIDE DEF e
    <2>4. BedsOK(e) BY <2>2, <2>3 DEF HomeOK, BedsOK, SameButLock
    <2>5. ListsOK(e, entered[g]) /\ CapsOK(e) /\ RentOK(g, e, paid_to[g], excused, now)
        BY <2>2, <2>3 DEF HomeOK, ListsOK, CapsOK, RentOK, SameButLock
    <2>6. HomeOK(g, e, entered[g], paid_to[g], excused, now)
        BY <2>2, <2>3, <2>4, <2>5 DEF HomeOK, SameButLock
    <2>7. e # NotHeld BY <2>3, HoldingIs
    <2> QED BY <1>2, <2>1, <2>3, <2>6, <2>7 DEF SameButLock
<1> QED BY <1>1, <1>2

(* The beds slept in after p has been woken, and perhaps lain down in q, of h. *)
LEMMA SleepStep ==
    ASSUME HomesInv, NEW p \in Pilots, NEW h \in Homes, Wake(p) \/ Sleep(p, h)
    PROVE  HomesInv' /\ HomesKeep
<1>1. /\ UNCHANGED <<now, open, entered, paid_to, excused>> BY DEF Wake, Sleep, clock, history
<1>2. Shapes /\ AsleepOnce BY DEF HomesInv
<1> DEFINE woken == Woken(p)
<1>3. /\ DOMAIN woken = Homes BY DEF Woken
<1>4. \A g \in Homes : /\ woken[g] = NotHeld <=> ~IsHeld(g)
                       /\ IsHeld(g) =>
                            /\ HomeOK(g, woken[g], entered[g], paid_to[g], excused, now)
                            /\ woken[g].asleep = {a \in held[g].asleep : a.who # p}
                            /\ woken[g].pieces = held[g].pieces /\ woken[g].crew = held[g].crew
                            /\ woken[g].bank = held[g].bank
    BY WokenIs
<1>5. \A g \in Homes : woken[g] \in Holdings \cup {NotHeld} BY <1>4 DEF HomeOK
<1>6. woken \in [Homes -> Holdings \cup {NotHeld}] BY <1>5 DEF Woken
<1> HIDE DEF woken
<1>7. CASE held' = woken
    <2>1. Shapes' BY <1>1, <1>2, <1>6, <1>7 DEF Shapes
    <2>2. \A g \in HeldHomes' : g \in HeldHomes /\ held'[g].asleep \subseteq held[g].asleep
        BY <1>4, <1>7 DEF HeldHomes, IsHeld
    <2>3. AsleepOnce' BY <1>2, <2>2 DEF AsleepOnce
    <2>4. \A g \in HeldHomes' : HomeOK(g, held'[g], entered'[g], paid_to'[g], excused', now')
        BY <1>1, <1>4, <1>7 DEF HeldHomes, IsHeld
    <2>5. HomesKeep BY <1>4, <1>7 DEF HomesKeep, IsHeld
    <2> QED BY <2>1, <2>3, <2>4, <2>5 DEF HomesInv
<1>8. ASSUME IsHeld(h), p \in held[h].crew, NEW q \in FreeBeds(woken[h]),
             held' = [woken EXCEPT ![h].asleep = @ \cup {[piece |-> q.id, who |-> p]}]
      PROVE  HomesInv' /\ HomesKeep
    <2> DEFINE d == woken[h]
               s == [piece |-> q.id, who |-> p]
               e == [d EXCEPT !.asleep = @ \cup {s}]
    <2>1. d \in Holdings /\ HomeOK(h, d, entered[h], paid_to[h], excused, now)
        BY <1>4, <1>8 DEF HomeOK
    <2>2. /\ q \in d.pieces /\ q.kind = "bed" /\ \A a \in d.asleep : a.piece # q.id
        BY <1>8 DEF FreeBeds
    <2>3. q.id \in Nat BY <2>1, <2>2, HoldingIs
    <2>4. s \in [piece : Nat, who : Pilots] /\ s.piece = q.id /\ s.who = p BY <2>3
    <2>5. /\ held' = [woken EXCEPT ![h] = e] BY <1>8
    <2>6. held'[h] = e /\ \A g \in Homes : g # h => held'[g] = woken[g] BY <1>6, <2>5
    <2> HIDE DEF s
    <2>7. /\ e \in Holdings /\ SameButLock(d, e) /\ e.crew = d.crew /\ e.guests = d.guests
          /\ e.misses = d.misses /\ e.shut = d.shut /\ e.asleep = d.asleep \cup {s}
        BY <2>1, <2>4, HoldingIs DEF Holdings, Fields, SameButLock
    <2>8. Shapes'
        <3>1. held' \in [Homes -> Holdings \cup {NotHeld}] BY <1>6, <2>5, <2>7
        <3> QED BY <3>1, <1>1, <1>2 DEF Shapes
    <2> HIDE DEF e, d
    <2>9. d.asleep = {a \in held[h].asleep : a.who # p} /\ d.crew = held[h].crew
        BY <1>4, <1>8 DEF d
    <2>10. BedsOK(e)
        <3>1. BedsOK(d) BY <2>1 DEF HomeOK
        <3>2. \A a \in d.asleep : a.who # s.who /\ a.piece # s.piece BY <2>2, <2>4, <2>9
        <3>3. s.who \in e.crew BY <1>8, <2>4, <2>7, <2>9
        <3>4. e.pieces = d.pieces /\ e.next = d.next BY <2>7 DEF SameButLock
        <3>5. ASSUME NEW a \in e.asleep
              PROVE  a.who \in e.crew /\ \E r \in e.pieces : r.kind = "bed" /\ r.id = a.piece
            <4>1. CASE a = s BY <4>1, <2>2, <2>4, <3>3, <3>4
            <4>2. CASE a \in d.asleep BY <4>2, <3>1, <3>4, <2>7 DEF BedsOK
            <4> QED BY <4>1, <4>2, <2>7
        <3>6. ASSUME NEW a \in e.asleep, NEW b \in e.asleep, a.piece = b.piece \/ a.who = b.who
              PROVE  a = b
            BY <2>7, <3>1, <3>2, <3>6 DEF BedsOK
        <3> QED BY <3>1, <3>4, <3>5, <3>6 DEF BedsOK
    <2>11. ListsOK(e, entered[h]) /\ CapsOK(e) /\ RentOK(h, e, paid_to[h], excused, now)
        BY <2>1, <2>7 DEF HomeOK, ListsOK, CapsOK, RentOK, SameButLock
    <2>12. HomeOK(h, e, entered[h], paid_to[h], excused, now)
        BY <2>1, <2>7, <2>10, <2>11 DEF HomeOK, SameButLock
    <2>13. \A g \in HeldHomes' : HomeOK(g, held'[g], entered[g], paid_to[g], excused, now)
        BY <1>4, <2>6, <2>12 DEF HeldHomes, IsHeld
    <2>14. ASSUME NEW f \in HeldHomes', NEW g \in HeldHomes', NEW a \in held'[f].asleep,
                  NEW b \in held'[g].asleep, a.who = b.who
           PROVE  f = g
        <3>1. \A k \in HeldHomes' : /\ k \in HeldHomes
                                    /\ \A c \in held'[k].asleep :
                                          \/ c.who = p /\ k = h
                                          \/ c.who # p /\ c \in held[k].asleep
            <4> SUFFICES ASSUME NEW k \in HeldHomes'
                         PROVE  /\ k \in HeldHomes
                                /\ \A c \in held'[k].asleep :
                                      \/ c.who = p /\ k = h
                                      \/ c.who # p /\ c \in held[k].asleep
                OBVIOUS
            <4>0. k \in Homes BY DEF HeldHomes
            <4>1. CASE k = h BY <4>1, <1>8, <2>4, <2>6, <2>7, <2>9 DEF HeldHomes
            <4>2. CASE k # h
                <5>1. held'[k] = woken[k] BY <4>0, <4>2, <2>6
                <5>2. woken[k] # NotHeld BY <5>1 DEF HeldHomes, IsHeld
                <5>3. IsHeld(k) /\ woken[k].asleep = {c \in held[k].asleep : c.who # p}
                    BY <4>0, <5>2, <1>4
                <5> QED BY <4>0, <5>1, <5>3 DEF HeldHomes
            <4> QED BY <4>1, <4>2
        <3> QED BY <1>2, <2>14, <3>1 DEF AsleepOnce
    <2>15. AsleepOnce' BY <2>14 DEF AsleepOnce
    <2>16. HomesKeep
        <3>1. e # NotHeld /\ e.bank = d.bank /\ e.pieces = d.pieces
            BY <2>7, HoldingIs DEF SameButLock
        <3>2. d.bank = held[h].bank /\ d.pieces = held[h].pieces BY <1>4, <1>8 DEF d
        <3>3. \A g \in Homes : g # h => held'[g] = woken[g] BY <2>6
        <3>4. held'[h] = e BY <2>6
        <3> QED BY <1>4, <1>8, <3>1, <3>2, <3>3, <3>4 DEF HomesKeep, IsHeld
    <2> QED BY <1>1, <2>8, <2>13, <2>15, <2>16 DEF HomesInv
<1>9. CASE Wake(p) BY <1>7, <1>9 DEF Wake, woken
<1>10. CASE Sleep(p, h)
    <2>1. CASE IsCrew(h, p) /\ FreeBeds(woken[h]) # {}
        BY <2>1, <1>8, <1>10 DEF Sleep, IsCrew, woken
    <2>2. CASE ~(IsCrew(h, p) /\ FreeBeds(woken[h]) # {})
        BY <2>2, <1>7, <1>10 DEF Sleep, woken
    <2> QED BY <2>1, <2>2
<1> QED BY <1>9, <1>10

-----------------------------------------------------------------------------
(* The clock. *)

LEMMA WholeHours ==
    ASSUME NEW x \in Nat, NEW r \in Nat \ {0}, NEW k \in Nat, x <= r * k
    PROVE  /\ x \div r \in 0..k
           /\ x < r => x \div r = 0
<1> DEFINE q == x \div r
           m == x % r
<1>1. q \in Nat /\ m \in Nat /\ m < r /\ x = r * q + m OBVIOUS
<1> HIDE DEF q, m
<1>2. q <= k
    <2> SUFFICES ASSUME q > k PROVE FALSE BY <1>1
    <2>1. r * (q - k) >= r
        <3>1. q - k \in Nat \ {0} BY <1>1
        <3> QED BY <3>1
    <2>2. r * q = r * k + r * (q - k) BY <1>1
    <2>3. r * k \in Nat /\ r * q \in Nat BY <1>1
    <2> QED BY <1>1, <2>1, <2>2, <2>3
<1>3. ASSUME x < r PROVE q = 0
    <2> SUFFICES ASSUME q # 0 PROVE FALSE OBVIOUS
    <2>1. r * q >= r BY <1>1
    <2> QED BY <1>1, <1>3, <2>1
<1> QED BY <1>1, <1>2, <1>3 DEF q

(* An hour's rent, and what a lease pays by the hour t. *)
LEMMA RentIs ==
    ASSUME HomesInv, NEW h \in Flats, IsHeld(h), NEW n \in Nat \ {0}
    PROVE  LET d == held[h]
               t == now + n
           IN  /\ Paid(d, t) \in Nat /\ Paid(d, t) <= d.bank
               /\ RanDry(d, t) \in d.at..t
               /\ Paid(d, t) # Due(d, t) /\ n = 1 => RanDry(d, t) = d.at
               /\ Unpaid(d, t) \in {Never} \cup 0..t
<1> DEFINE d == held[h]
           t == now + n
           r == Hourly(Cardinality(d.crew))
<1>1. h \in Homes BY DEF Homes
<1>2. d \in Holdings /\ HomeOK(h, d, entered[h], paid_to[h], excused, now) BY <1>1, HeldIs
<1>3. d.at = now /\ d.bank \in Nat /\ now \in Nat /\ d.unpaid \in {Never} \cup 0..now
    BY <1>2, HoldingIs, TimeIs DEF HomeOK, RentOK, Never
<1>4. r \in Nat \ {0}
    <2>1. d.crew \in SUBSET Pilots /\ d.crew # {} BY <1>2, HoldingIs DEF HomeOK, ListsOK
    <2>2. IsFiniteSet(Pilots) BY HomesAssumption
    <2>3. IsFiniteSet(d.crew) /\ Cardinality(d.crew) <= Cardinality(Pilots)
          /\ Cardinality(Pilots) \in Nat
        BY <2>1, <2>2, FS_Subset, FS_CardinalityType
    <2>4. Cardinality(d.crew) \in Nat /\ Cardinality(d.crew) # 0
        BY <2>1, <2>3, FS_CardinalityType, FS_EmptySet
    <2>5. Cardinality(d.crew) \in 1..Cardinality(Pilots) BY <2>3, <2>4
    <2> QED BY <2>5, HomesAssumption
<1>5. Due(d, t) = r * n
    <2>1. t - d.at = n BY <1>3
    <2> QED BY <2>1 DEF Due
<1> HIDE DEF r
<1>6. r * n \in Nat BY <1>4
<1>7. /\ Paid(d, t) \in Nat /\ Paid(d, t) <= d.bank /\ Paid(d, t) <= r * n
      /\ Due(d, t) = r * n
    BY <1>3, <1>5, <1>6 DEF Paid
<1> DEFINE x == Paid(d, t)
<1>8. RanDry(d, t) = d.at + x \div r BY DEF RanDry, r
<1> HIDE DEF x
<1>9. x \in Nat /\ x <= r * n BY <1>7 DEF x
<1>10. x \div r \in 0..n /\ (x < r => x \div r = 0) BY <1>4, <1>9, WholeHours
<1>11. RanDry(d, t) \in d.at..t BY <1>3, <1>8, <1>10
<1>12. ASSUME Paid(d, t) # Due(d, t), n = 1 PROVE RanDry(d, t) = d.at
    <2>1. x < r BY <1>4, <1>7, <1>9, <1>12 DEF x
    <2> QED BY <1>3, <1>8, <1>10, <2>1
<1>13. Unpaid(d, t) \in {Never} \cup 0..t BY <1>3, <1>11 DEF Unpaid
<1> QED BY <1>7, <1>11, <1>12, <1>13

(* A home at the hour t, its rent charged; and the ones that end. *)
AtTick(h, t) == IF h \in Flats /\ IsHeld(h) THEN Charged(held[h], t) ELSE held[h]
Ended(t) == {h \in Homes : IsHeld(h) /\ Ends(h, t)}

LEMMA TickIs ==
    ASSUME HomesInv, NEW n \in 1..MaxDown, Tick(n)
    PROVE  LET t == now + n
           IN  /\ n \in Nat \ {0} /\ now \in Nat /\ now' = t /\ t <= MaxHours /\ open' = TRUE
               /\ \A h \in Homes :
                     /\ held'[h] = IF h \in Ended(t) THEN NotHeld ELSE AtTick(h, t)
                     /\ paid_to'[h] = IF h \in Flats /\ IsHeld(h) /\ RanDry(held[h], t) > held[h].at
                                      THEN RanDry(held[h], t) ELSE paid_to[h]
                     /\ entered'[h] = IF h \in Ended(t) THEN Nobody ELSE entered[h]
               /\ DOMAIN held' = Homes /\ held' = [h \in Homes |-> held'[h]]
               /\ paid_to' = [h \in Homes |-> paid_to'[h]]
               /\ entered' = [h \in Homes |-> entered'[h]]
               /\ excused' = {h \in Flats :
                     IsHeld(h) /\ held[h].unpaid # Never /\ Charged(held[h], t).unpaid # Never
                     /\ (h \in excused \/ (n > 1 /\ RanDry(held[h], t) > held[h].at))}
<1> DEFINE t == now + n
<1>1. n \in Nat \ {0} /\ now \in Nat BY TimeIs, HomesAssumption
<1>2. now' = t /\ t <= MaxHours /\ open' = TRUE BY DEF Tick
<1>3. held' = [h \in Homes |-> IF h \in Ended(t) THEN NotHeld ELSE AtTick(h, t)]
    <2>1. held' = [h \in Homes |->
             IF h \in {k \in Homes : IsHeld(k) /\ Ends(k, t)} THEN NotHeld
             ELSE [k \in Homes |-> IF k \in {f \in Flats : IsHeld(f)} THEN Charged(held[k], t)
                                   ELSE held[k]][h]]
        BY DEF Tick
    <2> QED BY <2>1 DEF Ended, AtTick
<1>4. paid_to' = [h \in Homes |-> IF h \in Flats /\ IsHeld(h) /\ RanDry(held[h], t) > held[h].at
                                  THEN RanDry(held[h], t) ELSE paid_to[h]]
    <2>1. paid_to' = [h \in Homes |-> IF h \in {f \in Flats : IsHeld(f)}
                                           /\ RanDry(held[h], t) > held[h].at
                                      THEN RanDry(held[h], t) ELSE paid_to[h]]
        BY DEF Tick
    <2> QED BY <2>1
<1>5. entered' = [h \in Homes |-> IF h \in Ended(t) THEN Nobody ELSE entered[h]]
    BY DEF Tick, Ended
<1>6. excused' = {h \in Flats :
                     IsHeld(h) /\ held[h].unpaid # Never /\ Charged(held[h], t).unpaid # Never
                     /\ (h \in excused \/ (n > 1 /\ RanDry(held[h], t) > held[h].at))}
    <2> DEFINE charged == [k \in Homes |-> IF k \in {f \in Flats : IsHeld(f)} THEN Charged(held[k], t)
                                           ELSE held[k]]
    <2>1. excused' = {h \in {f \in Flats : IsHeld(f)} :
                        /\ held[h].unpaid # Never /\ charged[h].unpaid # Never
                        /\ h \in excused \/ (n > 1 /\ RanDry(held[h], t) > held[h].at)}
        BY DEF Tick
    <2>2. \A h \in Flats : h \in Homes BY DEF Homes
    <2>3. \A h \in Flats : IsHeld(h) => charged[h] = Charged(held[h], t) BY <2>2
    <2> HIDE DEF charged
    <2> QED BY <2>1, <2>3
<1> QED BY <1>1, <1>2, <1>3, <1>4, <1>5, <1>6

(* A home the clock has charged, and not ended. *)
LEMMA TickHome ==
    ASSUME HomesInv, NEW n \in 1..MaxDown, Tick(n), NEW h \in Homes, IsHeld(h)
    PROVE  LET e == AtTick(h, now + n)
           IN  /\ HomeOK(h, e, entered[h], paid_to'[h], excused', now + n)
               /\ e.asleep = held[h].asleep /\ e.pieces = held[h].pieces
               /\ e.holder = held[h].holder
<1> DEFINE t == now + n
           d == held[h]
           e == AtTick(h, t)
<1>1. d \in Holdings /\ HomeOK(h, d, entered[h], paid_to[h], excused, now) BY HeldIs
<1>2. /\ n \in Nat \ {0} /\ now \in Nat
      /\ paid_to'[h] = IF h \in Flats /\ RanDry(d, t) > d.at THEN RanDry(d, t) ELSE paid_to[h]
      /\ h \in excused' <=> /\ h \in Flats /\ d.unpaid # Never /\ Charged(d, t).unpaid # Never
                            /\ h \in excused \/ (n > 1 /\ RanDry(d, t) > d.at)
    <2>1. n \in Nat \ {0} /\ now \in Nat BY TickIs
    <2>2. paid_to'[h] = IF h \in Flats /\ IsHeld(h) /\ RanDry(held[h], t) > held[h].at
                        THEN RanDry(held[h], t) ELSE paid_to[h]
        BY TickIs
    <2>3. excused' = {f \in Flats :
                     IsHeld(f) /\ held[f].unpaid # Never /\ Charged(held[f], t).unpaid # Never
                     /\ (f \in excused \/ (n > 1 /\ RanDry(held[f], t) > held[f].at))}
        BY TickIs
    <2> QED BY <2>1, <2>2, <2>3
<1>3. /\ d.at \in Nat /\ d.at <= now /\ d.unpaid <= now /\ d.unpaid \in {Never} \cup Nat
      /\ RentOK(h, d, paid_to[h], excused, now) /\ paid_to[h] \in Nat
    BY <1>1, HoldingIs, TimeIs DEF HomeOK, RentOK
<1>4. CASE h \in Flats
    <2>1. /\ Paid(d, t) \in Nat /\ Paid(d, t) <= d.bank
          /\ RanDry(d, t) \in d.at..t
          /\ Paid(d, t) # Due(d, t) /\ n = 1 => RanDry(d, t) = d.at
          /\ Unpaid(d, t) \in {Never} \cup 0..t
        BY <1>2, <1>4, RentIs
    <2>2. e = [d EXCEPT !.bank = @ - Paid(d, t), !.at = t, !.unpaid = Unpaid(d, t)]
          /\ e = Charged(d, t)
        BY <1>4 DEF AtTick, Charged
    <2>3. /\ d.bank - Paid(d, t) \in Nat /\ t \in Nat /\ Unpaid(d, t) \in {Never} \cup Nat
          /\ Unpaid(d, t) <= t /\ d.bank \in Nat
        BY <1>1, <1>2, <2>1, HoldingIs DEF Never
    <2>4. /\ e \in Holdings /\ e.holder = d.holder /\ e.crew = d.crew /\ e.guests = d.guests
          /\ e.pieces = d.pieces /\ e.next = d.next /\ e.asleep = d.asleep
          /\ e.misses = d.misses /\ e.shut = d.shut /\ e.at = t /\ e.unpaid = Unpaid(d, t)
        BY <1>1, <2>2, <2>3, HoldingIs, ZenonT(60) DEF Holdings, Fields
    <2> HIDE DEF e
    <2>5. paid_to'[h] <= t
        <3>1. paid_to[h] <= d.at BY <1>3, <1>4 DEF RentOK
        <3> QED BY <1>2, <1>3, <2>1, <3>1
    <2>6. e.unpaid = Never \/ h \in excused' \/ paid_to'[h] <= e.unpaid
        <3> SUFFICES ASSUME e.unpaid # Never, h \notin excused' PROVE paid_to'[h] <= e.unpaid
            OBVIOUS
        <3>1. Paid(d, t) # Due(d, t) BY <2>4 DEF Unpaid
        <3>2. CASE d.unpaid = Never
            <4>1. e.unpaid = RanDry(d, t) BY <2>4, <3>1, <3>2 DEF Unpaid
            <4>2. paid_to[h] <= d.at BY <1>3, <1>4 DEF RentOK
            <4> QED BY <1>2, <1>3, <2>1, <4>1, <4>2
        <3>3. CASE d.unpaid # Never
            <4>1. e.unpaid = d.unpaid BY <2>4, <3>1, <3>3 DEF Unpaid
            <4>2. h \notin excused /\ ~(n > 1 /\ RanDry(d, t) > d.at)
                BY <1>2, <1>4, <2>2, <3>3
            <4>3. RanDry(d, t) = d.at BY <1>2, <1>3, <2>1, <3>1, <4>2
            <4>4. paid_to'[h] = paid_to[h] BY <1>2, <1>3, <4>3
            <4> QED BY <1>3, <1>4, <3>3, <4>1, <4>2, <4>4 DEF RentOK
        <3> QED BY <3>2, <3>3
    <2>7. RentOK(h, e, paid_to'[h], excused', t)
        <3>1. h \notin Houses BY <1>4, TimeIs
        <3>2. e.at <= t /\ e.unpaid <= t /\ paid_to'[h] <= e.at BY <1>2, <2>3, <2>4, <2>5
        <3> QED BY <1>4, <2>4, <2>6, <3>1, <3>2 DEF RentOK
    <2>8. ListsOK(e, entered[h]) /\ BedsOK(e) /\ CapsOK(e) /\ IsFiniteSet(e.pieces)
        BY <1>1, <2>4 DEF HomeOK, ListsOK, BedsOK, CapsOK
    <2> QED BY <2>4, <2>7, <2>8 DEF HomeOK, e
<1>5. CASE h \notin Flats
    <2>1. e = d BY <1>5 DEF AtTick
    <2>2. RentOK(h, d, paid_to'[h], excused', t)
        <3>1. d.at <= t /\ d.unpaid <= t BY <1>2, <1>3 DEF Never
        <3> QED BY <1>3, <1>5, <3>1 DEF RentOK
    <2> QED BY <1>1, <2>1, <2>2 DEF HomeOK
<1> QED BY <1>4, <1>5

LEMMA TickStep ==
    ASSUME HomesInv, NEW n \in 1..MaxDown, Tick(n)
    PROVE  HomesInv'
<1> DEFINE t == now + n
<1>1. /\ n \in Nat \ {0} /\ now \in Nat /\ now' = t /\ t <= MaxHours /\ open' = TRUE
      /\ \A h \in Homes :
            /\ held'[h] = IF h \in Ended(t) THEN NotHeld ELSE AtTick(h, t)
            /\ entered'[h] = IF h \in Ended(t) THEN Nobody ELSE entered[h]
            /\ paid_to'[h] = IF h \in Flats /\ IsHeld(h) /\ RanDry(held[h], t) > held[h].at
                             THEN RanDry(held[h], t) ELSE paid_to[h]
      /\ held' = [h \in Homes |-> held'[h]] /\ entered' = [h \in Homes |-> entered'[h]]
      /\ paid_to' = [h \in Homes |-> paid_to'[h]] /\ excused' \subseteq Flats
    BY TickIs
<1>2. Shapes /\ AsleepOnce BY DEF HomesInv
<1>3. ASSUME NEW h \in HeldHomes'
      PROVE  /\ h \in HeldHomes /\ held'[h] = AtTick(h, t) /\ entered'[h] = entered[h]
             /\ HomeOK(h, held'[h], entered'[h], paid_to'[h], excused', now')
             /\ held'[h].asleep = held[h].asleep
    <2>0. h \in Homes /\ held'[h] # NotHeld BY DEF HeldHomes, IsHeld
    <2>1. h \notin Ended(t) /\ held'[h] = AtTick(h, t) /\ entered'[h] = entered[h]
        BY <1>1, <2>0
    <2>2. IsHeld(h) BY <2>0, <2>1 DEF AtTick, IsHeld
    <2>3. /\ HomeOK(h, AtTick(h, t), entered[h], paid_to'[h], excused', t)
          /\ AtTick(h, t).asleep = held[h].asleep
        BY <2>0, <2>2, TickHome
    <2> QED BY <1>1, <2>0, <2>1, <2>2, <2>3 DEF HeldHomes
<1>4. AsleepOnce' BY <1>2, <1>3 DEF AsleepOnce
<1>5. Shapes'
    <2>1. \A h \in Homes : held'[h] \in Holdings \cup {NotHeld}
        BY <1>3 DEF HeldHomes, IsHeld, HomeOK
    <2>2. Nobody \in Entries BY DEF Nobody, Entries
    <2>3. \A h \in Homes : entered'[h] \in Entries BY <1>1, <1>2, <2>2 DEF Shapes
    <2>4. \A h \in Homes : paid_to'[h] \in Nat
        <3> SUFFICES ASSUME NEW h \in Homes PROVE paid_to'[h] \in Nat OBVIOUS
        <3>1. paid_to[h] \in Nat BY <1>2 DEF Shapes
        <3>2. CASE h \in Flats /\ IsHeld(h)
            <4>1. RanDry(held[h], t) \in held[h].at..t BY <1>1, <3>2, RentIs
            <4>2. held[h].at \in Nat BY <3>2, HeldIs, HoldingIs
            <4> QED BY <1>1, <3>1, <4>1, <4>2
        <3>3. CASE ~(h \in Flats /\ IsHeld(h)) BY <1>1, <3>1, <3>3
        <3> QED BY <3>2, <3>3
    <2>5. now' \in 0..MaxHours /\ open' \in BOOLEAN BY <1>1, Caps
    <2>6. held' \in [Homes -> Holdings \cup {NotHeld}] BY <1>1, <2>1
    <2>7. entered' \in [Homes -> Entries] /\ paid_to' \in [Homes -> Nat] BY <1>1, <2>3, <2>4
    <2> QED BY <1>1, <2>5, <2>6, <2>7 DEF Shapes
<1> QED BY <1>3, <1>4, <1>5 DEF HomesInv

LEMMA HoldStep ==
    ASSUME HomesInv, NEW n \in 1..MaxDown, Hold(n)
    PROVE  HomesInv' /\ HomesKeep
<1> DEFINE t == now + n
<1>1. /\ n \in Nat \ {0} /\ now \in Nat /\ t \in Nat /\ now <= t
    BY TimeIs, HomesAssumption
<1>2. /\ now' = t /\ t <= MaxHours /\ open' = FALSE /\ entered' = entered
      /\ held' = [h \in Homes |-> IF IsHeld(h) THEN [held[h] EXCEPT !.at = t] ELSE NotHeld]
      /\ paid_to' = [h \in Homes |-> IF IsHeld(h) /\ held[h].unpaid = Never THEN t ELSE paid_to[h]]
      /\ excused' = {h \in Flats : IsHeld(h) /\ held[h].unpaid # Never}
    BY DEF Hold
<1>3. Shapes /\ AsleepOnce BY DEF HomesInv
<1> HIDE DEF t
<1>4. ASSUME NEW h \in HeldHomes'
      PROVE  /\ h \in HeldHomes
             /\ HomeOK(h, held'[h], entered'[h], paid_to'[h], excused', now')
             /\ held'[h].asleep = held[h].asleep
    <2> DEFINE d == held[h]
               e == [d EXCEPT !.at = t]
    <2>0. h \in Homes /\ held'[h] # NotHeld BY DEF HeldHomes, IsHeld
    <2>1. IsHeld(h) /\ held'[h] = e BY <1>2, <2>0
    <2>2. d \in Holdings /\ HomeOK(h, d, entered[h], paid_to[h], excused, now)
        BY <2>0, <2>1, HeldIs
    <2>3. /\ e \in Holdings /\ e.holder = d.holder /\ e.crew = d.crew /\ e.guests = d.guests
          /\ e.pieces = d.pieces /\ e.next = d.next /\ e.asleep = d.asleep /\ e.bank = d.bank
          /\ e.misses = d.misses /\ e.shut = d.shut /\ e.at = t /\ e.unpaid = d.unpaid
        BY <1>1, <2>2, HoldingIs DEF Holdings, Fields
    <2> HIDE DEF e
    <2>4. /\ paid_to'[h] = (IF d.unpaid = Never THEN t ELSE paid_to[h])
          /\ h \in excused' <=> h \in Flats /\ d.unpaid # Never
        BY <1>2, <2>0, <2>1
    <2>5. d.unpaid \in {Never} \cup Nat /\ d.unpaid <= now /\ paid_to[h] \in Nat
          /\ (h \in Flats => paid_to[h] <= now) /\ (h \in Houses => d.bank = 0)
        BY <1>3, <2>0, <2>2, HoldingIs DEF HomeOK, RentOK, Shapes
    <2>6. RentOK(h, e, paid_to'[h], excused', t)
        BY <1>1, <2>3, <2>4, <2>5 DEF RentOK, Never
    <2>7. ListsOK(e, entered[h]) /\ BedsOK(e) /\ CapsOK(e) /\ IsFiniteSet(e.pieces)
        BY <2>2, <2>3 DEF HomeOK, ListsOK, BedsOK, CapsOK
    <2>8. HomeOK(h, e, entered[h], paid_to'[h], excused', t) BY <2>3, <2>6, <2>7 DEF HomeOK
    <2>9. now' = t /\ entered' = entered BY <1>2
    <2> QED BY <2>0, <2>1, <2>3, <2>8, <2>9 DEF HeldHomes
<1>5. AsleepOnce' BY <1>3, <1>4 DEF AsleepOnce
<1>6. Shapes'
    <2>1. \A h \in Homes : held'[h] \in Holdings \cup {NotHeld}
        BY <1>4 DEF HeldHomes, IsHeld, HomeOK
    <2>2. held' = [h \in Homes |-> held'[h]] BY <1>2
    <2>3. held' \in [Homes -> Holdings \cup {NotHeld}] BY <2>1, <2>2
    <2>4. now' \in 0..MaxHours /\ open' \in BOOLEAN
        <3>1. now' = t /\ t <= MaxHours /\ open' = FALSE BY <1>2
        <3>2. now' \in 0..MaxHours BY <1>1, <3>1, Caps
        <3>3. open' \in BOOLEAN BY <3>1, Zenon
        <3> QED BY <3>2, <3>3
    <2>5. paid_to' \in [Homes -> Nat] BY <1>1, <1>2, <1>3 DEF Shapes
    <2> QED BY <1>2, <1>3, <2>3, <2>4, <2>5 DEF Shapes
<1>7. HomesKeep
    <2> SUFFICES ASSUME NEW g \in Homes
                 PROVE  /\ held'[g] = NotHeld <=> held[g] = NotHeld
                        /\ IsHeld(g) => held'[g].bank = held[g].bank /\ held'[g].pieces = held[g].pieces
        BY DEF HomesKeep
    <2>1. held'[g] = IF IsHeld(g) THEN [held[g] EXCEPT !.at = t] ELSE NotHeld BY <1>2
    <2>2. CASE IsHeld(g)
        <3>1. held[g] \in Holdings BY <2>2, HeldIs
        <3>2. LET e == [held[g] EXCEPT !.at = t]
              IN  e \in Holdings /\ e.bank = held[g].bank /\ e.pieces = held[g].pieces
            BY <1>1, <3>1, HoldingIs DEF Holdings, Fields
        <3> QED BY <2>1, <2>2, <3>2, HoldingIs DEF IsHeld
    <2>3. CASE ~IsHeld(g) BY <2>1, <2>3 DEF IsHeld
    <2> QED BY <2>2, <2>3
<1> QED BY <1>4, <1>5, <1>6, <1>7 DEF HomesInv

-----------------------------------------------------------------------------
LEMMA HomesInvInit == Init => HomesInv
<1> SUFFICES ASSUME Init PROVE HomesInv OBVIOUS
<1>1. \A h \in Homes : held[h] = NotHeld BY DEF Init
<1>2. HeldHomes = {} BY <1>1 DEF HeldHomes, IsHeld
<1>3. Nobody \in Entries BY DEF Nobody, Entries
<1>4. Shapes BY <1>3, Caps DEF Init, Shapes
<1> QED BY <1>2, <1>4 DEF HomesInv, AsleepOnce

LEMMA HomesInvStep ==
    ASSUME HomesInv, [Next]_vars
    PROVE  HomesInv'
<1>1. ASSUME UNCHANGED <<held, clock, history>> PROVE HomesInv'
    <2>1. UNCHANGED <<held, now, open, entered, paid_to, excused>> BY <1>1 DEF clock, history
    <2>2. HeldHomes' = HeldHomes BY <2>1 DEF HeldHomes, IsHeld
    <2>3. Shapes' /\ AsleepOnce' BY <2>1, <2>2 DEF HomesInv, Shapes, AsleepOnce
    <2>4. \A h \in HeldHomes : HomeOK(h, held'[h], entered'[h], paid_to'[h], excused', now')
        BY <2>1 DEF HomesInv
    <2> QED BY <2>2, <2>3, <2>4 DEF HomesInv
<1>2. CASE UNCHANGED vars BY <1>1, <1>2 DEF vars
<1>3. CASE \E n \in 1..MaxDown : Tick(n) \/ Hold(n) BY <1>3, TickStep, HoldStep
<1>4. ASSUME NEW p \in Pilots, Collect(p) \/ Wake(p) \/ \E h \in Homes : Asks(p, h)
      PROVE  HomesInv'
    <2>1. CASE Collect(p) BY <1>1, <2>1 DEF Collect
    <2>2. CASE Wake(p)
        <3>1. PICK h \in Homes : IsHeld(h) BY <2>2 DEF Wake
        <3> QED BY <2>2, SleepStep
    <2>3. ASSUME NEW h \in Homes, Asks(p, h) PROVE HomesInv'
        <3>1. CASE Take(p, h) \/ GiveUp(p, h) BY <3>1, TakeStep, GiveUpStep
        <3>2. CASE Visited(p, h) \/ Feed(p, h, 1) \/ Withdraw(p, h, 1) BY <3>2, FeedStep
        <3>3. CASE \E c \in Codes : SetCode(p, h, c) \/ \E over \in BOOLEAN : EnterCode(p, h, c, over)
            BY <3>3, SetCodeStep, EnterCodeStep
        <3>4. CASE \E c \in Codes \cup {NoCode} : SetGuestCode(p, h, c) BY <3>4, SetGuestCodeStep
        <3>5. CASE LeaveCrew(p, h) \/ ClearCrew(p, h) BY <3>5, LeaveCrewStep, ClearCrewStep
        <3>6. CASE \E kind \in Furniture : Furnish(p, h, kind) BY <3>6, FurnishStep
        <3>7. CASE IsHeld(h) /\ \E q \in held[h].pieces :
                      SellPiece(p, h, q) \/ Stash(p, h, q) \/ Unstash(p, h, q)
            BY <3>7, PieceStep
        <3>8. CASE Sleep(p, h) BY <3>8, SleepStep
        <3> QED BY <2>3, <3>1, <3>2, <3>3, <3>4, <3>5, <3>6, <3>7, <3>8 DEF Asks
    <2> QED BY <1>4, <2>1, <2>2, <2>3
<1> QED BY <1>2, <1>3, <1>4 DEF Next

LEMMA HomesInvHolds == Spec => []HomesInv
BY HomesInvInit, HomesInvStep, PTL DEF Spec

(* Whoever a home's lock remembers has entered the code it has now, or set it, since they
   were last put off its lists, or holds the home, through every order of the lock's requests,
   of leases ended and of homes taken again (Homes::enter_code, set_code, set_guest_code,
   leave_crew, clear_crew, give_up and tick). *)
THEOREM LockStaysCurrent == Spec => []LockIsCurrent
<1>1. HomesInv => LockIsCurrent BY DEF HomesInv, HomeOK, ListsOK, LockIsCurrent
<1> QED BY <1>1, HomesInvHolds, PTL

(* Whoever is asleep at home is in one bed, of their own, that is still there, and still on
   the home's crew (Homes::sleep, wake, set_code, leave_crew, clear_crew and sell_piece). *)
THEOREM BedsStayOwn == Spec => []BedsAreOwn
<1>1. HomesInv => BedsAreOwn
    <2> SUFFICES ASSUME HomesInv PROVE BedsAreOwn OBVIOUS
    <2> DEFINE asleep == {<<h, a>> : h \in HeldHomes, a \in UNION {held[g].asleep : g \in HeldHomes}}
               lying == {x \in asleep : x[2] \in held[x[1]].asleep}
    <2>1. ASSUME NEW x \in lying
          PROVE  /\ x = <<x[1], x[2]>> /\ x[1] \in HeldHomes /\ x[2] \in held[x[1]].asleep
        OBVIOUS
    <2>2. \A h \in HeldHomes : BedsOK(held[h]) BY DEF HomesInv, HomeOK
    <2>3. AsleepOnce BY DEF HomesInv
    <2> HIDE DEF lying
    <2>4. ASSUME NEW x \in lying
          PROVE  /\ x[2].who \in held[x[1]].crew
                 /\ \E q \in held[x[1]].pieces : q.kind = "bed" /\ q.id = x[2].piece
        BY <2>1, <2>2 DEF BedsOK
    <2>5. ASSUME NEW x \in lying, NEW y \in lying,
                 x[2].who = y[2].who \/ (x[1] = y[1] /\ x[2].piece = y[2].piece)
          PROVE  x = y
        <3>1. /\ x = <<x[1], x[2]>> /\ x[1] \in HeldHomes /\ x[2] \in held[x[1]].asleep
              /\ y = <<y[1], y[2]>> /\ y[1] \in HeldHomes /\ y[2] \in held[y[1]].asleep
            BY <2>1
        <3>2. x[1] = y[1] BY <2>3, <2>5, <3>1 DEF AsleepOnce
        <3>3. x[2] = y[2] BY <2>2, <2>5, <3>1, <3>2 DEF BedsOK
        <3> QED BY <3>1, <3>2, <3>3
    <2> QED BY <2>4, <2>5 DEF BedsAreOwn, lying
<1> QED BY <1>1, HomesInvHolds, PTL

(* A lease the clock ends has had no hour's rent paid for a whole Grace, if the clock wasn't
   late or stopped meanwhile (Homes::tick, and hold between). *)
THEOREM GraceIsGiven == Spec => GraceGiven
<1> DEFINE Step == \A h \in Flats : IsHeld(h) /\ held'[h] = NotHeld /\ now' # now =>
                                        h \in excused' \/ now' - paid_to'[h] >= Grace
<1>1. ASSUME HomesInv, [Next]_vars PROVE [Step]_vars
    <2> SUFFICES ASSUME NEW h \in Flats, IsHeld(h), held'[h] = NotHeld, now' # now
                 PROVE  h \in excused' \/ now' - paid_to'[h] >= Grace
        OBVIOUS
    <2>0. h \in Homes BY DEF Homes
    <2>1. \E n \in 1..MaxDown : Tick(n) \/ Hold(n)
        <3>1. ~UNCHANGED vars BY DEF vars, clock
        <3>2. ASSUME NEW p \in Pilots, Collect(p) \/ Wake(p) \/ \E g \in Homes : Asks(p, g)
              PROVE  FALSE
            <4>1. ~Collect(p) /\ ~Wake(p) BY DEF Collect, Wake, clock
            <4>2. ASSUME NEW g \in Homes, Asks(p, g) PROVE FALSE
                <5>1. UNCHANGED clock
                    BY <4>2 DEF Asks, Take, GiveUp, Visited, Feed, Withdraw, SetCode, EnterCode,
                           SetGuestCode, LeaveCrew, ClearCrew, Furnish, SellPiece, Stash, Unstash,
                           Sleep
                <5> QED BY <5>1 DEF clock
            <4> QED BY <3>2, <4>1, <4>2
        <3> QED BY <1>1, <3>1, <3>2 DEF Next
    <2>2. PICK n \in 1..MaxDown : Tick(n) \/ Hold(n) BY <2>1
    <2>3. held[h] \in Holdings /\ HomeOK(h, held[h], entered[h], paid_to[h], excused, now)
        BY <1>1, <2>0, HeldIs
    <2>4. ~Hold(n)
        <3> SUFFICES ASSUME Hold(n) PROVE FALSE OBVIOUS
        <3>1. held'[h] = [held[h] EXCEPT !.at = now + n] BY <2>0 DEF Hold
        <3>2. now + n \in Nat BY <1>1, TimeIs, HomesAssumption
        <3>3. [held[h] EXCEPT !.at = now + n] \in Holdings
            BY <2>3, <3>2, HoldingIs DEF Holdings, Fields
        <3> QED BY <3>1, <3>3, HoldingIs
    <2>5. Tick(n) BY <2>2, <2>4
    <2> DEFINE t == now + n
               d == held[h]
               e == AtTick(h, t)
    <2>6. /\ HomeOK(h, e, entered[h], paid_to'[h], excused', t) BY <1>1, <2>0, <2>5, TickHome
    <2>7. now' = t /\ n \in Nat /\ now \in Nat
          /\ held'[h] = IF h \in Ended(t) THEN NotHeld ELSE AtTick(h, t)
        BY <1>1, <2>0, <2>5, TickIs
    <2>8. e # NotHeld BY <2>6, HoldingIs DEF HomeOK
    <2>9. Unpaid(d, t) # Never /\ t - Unpaid(d, t) >= Grace BY <2>7, <2>8 DEF Ended, Ends
    <2>10. e.unpaid = Unpaid(d, t) BY <2>3, HoldingIs DEF AtTick, Charged, Fields
    <2>11. h \in excused' \/ paid_to'[h] <= e.unpaid BY <2>6, <2>9, <2>10 DEF HomeOK, RentOK
    <2>12. paid_to'[h] \in Nat /\ e.unpaid \in Int
        <3>1. Shapes' BY <1>1, HomesInvStep DEF HomesInv
        <3>2. paid_to'[h] \in Nat BY <3>1, <2>0 DEF Shapes
        <3>3. e.unpaid \in {Never} \cup Nat BY <2>6, HoldingIs DEF HomeOK
        <3> QED BY <3>2, <3>3 DEF Never
    <2> HIDE DEF e
    <2> QED BY <2>7, <2>9, <2>10, <2>11, <2>12, Caps
<1>2. Spec => [][Step]_vars BY <1>1, HomesInvHolds, PTL DEF Spec
<1> QED BY <1>2 DEF GraceGiven

-----------------------------------------------------------------------------
(* The credits and the goods.  A home that nobody holds has neither. *)

BankIn(d) == IF d = NotHeld THEN 0 ELSE d.bank
GoodsIn(d) == IF d = NotHeld THEN 0 ELSE SumFunctionOnSet([q \in d.pieces |-> q.holds], d.pieces)

Owed(acc) == [p \in Pilots |-> acc[p].credits]
Kept(acc) == [p \in Pilots |-> acc[p].goods]
Banks(hd) == [h \in Homes |-> BankIn(hd[h])]
Stocks(hd) == [h \in Homes |-> GoodsIn(hd[h])]

Purses ==
    /\ accounts \in [Pilots -> [credits : Nat, goods : Nat]] /\ taken \in Int
    /\ credits \in [Pilots -> Nat] /\ stores \in [Pilots -> Nat]

AllCredits(cr, acc, hd) ==
    SumFunctionOnSet(cr, Pilots) + SumFunctionOnSet(Owed(acc), Pilots)
        + SumFunctionOnSet(Banks(hd), Homes)

AllGoods(st, acc, hd) ==
    SumFunctionOnSet(st, Pilots) + SumFunctionOnSet(Kept(acc), Pilots)
        + SumFunctionOnSet(Stocks(hd), Homes)

MoneyInv ==
    /\ Purses
    /\ AllCredits(credits, accounts, held) + taken = SumFunctionOnSet(Credits, Pilots)
    /\ AllGoods(stores, accounts, held) = SumFunctionOnSet(Goods, Pilots)

LEMMA Finite == IsFiniteSet(Pilots) /\ IsFiniteSet(Homes)
BY HomesAssumption

(* What a home has, the one way and the other. *)
LEMMA HomeHas ==
    ASSUME NEW d \in Holdings, IsFiniteSet(d.pieces)
    PROVE  /\ BankIn(d) = d.bank /\ BankIn(d) \in Nat
           /\ GoodsIn(d) = ClearedOut(d).goods /\ GoodsIn(d) \in Nat
           /\ GoodsIn(d) = SumFunctionOnSet([q \in d.pieces |-> q.holds], d.pieces)
<1>1. d # NotHeld /\ d.bank \in Nat /\ \A q \in d.pieces : q.holds \in Nat BY HoldingIs
<1> DEFINE f == [q \in d.pieces |-> q.holds]
<1>2. DOMAIN f = d.pieces /\ \A q \in d.pieces : f[q] \in Nat BY <1>1
<1>3. ClearedOut(d).goods = SumFunctionOnSet(f, DOMAIN f) BY DEF ClearedOut, SumFunction
<1>4. GoodsIn(d) = SumFunctionOnSet(f, d.pieces) BY <1>1 DEF GoodsIn
<1> HIDE DEF f
<1>5. SumFunctionOnSet(f, d.pieces) \in Nat BY <1>2, SumNat
<1>6. ClearedOut(d).goods = SumFunctionOnSet(f, d.pieces) BY <1>2, <1>3, Zenon
<1> QED BY <1>1, <1>4, <1>5, <1>6 DEF BankIn, f

LEMMA NoHomeHas == BankIn(NotHeld) = 0 /\ GoodsIn(NotHeld) = 0
BY DEF BankIn, GoodsIn

LEMMA EveryHomeHas ==
    ASSUME HomesInv
    PROVE  \A h \in Homes : BankIn(held[h]) \in Nat /\ GoodsIn(held[h]) \in Nat
<1> TAKE h \in Homes
<1>1. CASE IsHeld(h) BY <1>1, HeldIs, HomeHas DEF HomeOK
<1>2. CASE ~IsHeld(h) BY <1>2, NoHomeHas DEF IsHeld
<1> QED BY <1>1, <1>2

(* The six sums are whole numbers. *)
LEMMA SumsAre ==
    ASSUME HomesInv, Purses
    PROVE  /\ SumFunctionOnSet(credits, Pilots) \in Int
           /\ SumFunctionOnSet(stores, Pilots) \in Int
           /\ SumFunctionOnSet(Owed(accounts), Pilots) \in Int
           /\ SumFunctionOnSet(Kept(accounts), Pilots) \in Int
           /\ SumFunctionOnSet(Banks(held), Homes) \in Int
           /\ SumFunctionOnSet(Stocks(held), Homes) \in Int
<1>1. \A p \in Pilots : /\ credits[p] \in Int /\ stores[p] \in Int
                        /\ Owed(accounts)[p] \in Int /\ Kept(accounts)[p] \in Int
    BY DEF Purses, Owed, Kept
<1>2. \A h \in Homes : Banks(held)[h] \in Int /\ Stocks(held)[h] \in Int
    BY EveryHomeHas DEF Banks, Stocks
<1> QED BY <1>1, <1>2, Finite, SumType

(* What is conserved follows. *)
LEMMA ConservedFollows == HomesInv /\ MoneyInv => Conserved
<1> SUFFICES ASSUME HomesInv, MoneyInv PROVE Conserved OBVIOUS
<1>1. ASSUME NEW h \in HeldHomes
      PROVE  /\ h \in Homes /\ held[h] \in Holdings /\ IsHeld(h) /\ IsFiniteSet(held[h].pieces)
             /\ CapsOK(held[h]) /\ held[h].at <= now /\ held[h].unpaid <= now
    BY HeldIs DEF HeldHomes, HomeOK, RentOK
<1>2. TypeOK
    <2>1. now \in 0..MaxHours /\ open \in BOOLEAN /\ now \in Nat BY TimeIs DEF HomesInv, Shapes
    <2>2. ASSUME NEW h \in HeldHomes
          PROVE  LET d == held[h] IN
              /\ d.holder \in Pilots /\ d.bank \in Nat /\ d.at \in 0..now
              /\ d.unpaid \in {Never} \cup 0..now
              /\ {d.code, d.guest_code} \subseteq Codes \cup {NoCode}
              /\ d.shut \in BOOLEAN /\ d.misses \in 0..LockoutTries
              /\ d.crew \subseteq Pilots /\ Cardinality(d.crew) <= CrewCap
              /\ d.guests \subseteq Pilots /\ Cardinality(d.guests) <= GuestCap
              /\ \A q \in d.pieces : q.kind \in Furniture /\ q.holds \in Nat
        <3> DEFINE d == held[h]
        <3>1. d \in Holdings /\ CapsOK(d) /\ d.at <= now /\ d.unpaid <= now BY <1>1
        <3> HIDE DEF d
        <3>2. d.at \in 0..now /\ d.unpaid \in {Never} \cup 0..now /\ d.misses \in 0..LockoutTries
            BY <2>1, <3>1, HoldingIs, Caps DEF CapsOK, Never
        <3>3. \A q \in d.pieces : q.kind \in Furniture /\ q.holds \in Nat BY <3>1, HoldingIs
        <3>4. Cardinality(d.crew) <= CrewCap /\ Cardinality(d.guests) <= GuestCap
            BY <3>1 DEF CapsOK
        <3>5. /\ d.holder \in Pilots /\ d.bank \in Nat /\ d.shut \in BOOLEAN
              /\ d.crew \subseteq Pilots /\ d.guests \subseteq Pilots
              /\ {d.code, d.guest_code} \subseteq Codes \cup {NoCode}
            BY <3>1, HoldingIs
        <3> QED BY <3>2, <3>3, <3>4, <3>5 DEF d
    <2> QED BY <2>1, <2>2 DEF TypeOK, MoneyInv, Purses
<1>3. SumFunctionOnSet(Banks(held), Homes) = SumFunction([h \in HeldHomes |-> held[h].bank])
    <2> DEFINE f == [h \in HeldHomes |-> held[h].bank]
               g == Banks(held)
    <2>1. \A h \in HeldHomes : f[h] \in Int /\ g[h] = f[h]
        <3>1. \A h \in HeldHomes : h \in Homes /\ BankIn(held[h]) = held[h].bank /\ BankIn(held[h]) \in Int
            <4> TAKE h \in HeldHomes
            <4>1. h \in Homes /\ held[h] \in Holdings /\ IsFiniteSet(held[h].pieces) BY <1>1
            <4>2. BankIn(held[h]) = held[h].bank /\ BankIn(held[h]) \in Nat BY <4>1, HomeHas, Zenon
            <4> QED BY <4>1, <4>2
        <3> QED BY <3>1 DEF Banks
    <2>2. \A h \in Homes \ HeldHomes : g[h] = 0 BY NoHomeHas DEF Banks, HeldHomes, IsHeld
    <2>3. HeldHomes \in SUBSET Homes /\ DOMAIN f = HeldHomes BY DEF HeldHomes
    <2>5. SumFunction(f) = SumFunctionOnSet(f, DOMAIN f) BY DEF SumFunction
    <2> HIDE DEF f, g
    <2>4. SumFunctionOnSet(g, Homes) = SumFunctionOnSet(f, HeldHomes)
        BY <2>1, <2>2, <2>3, Finite, SumPick
    <2> QED BY <2>3, <2>4, <2>5, Zenon DEF f, g
<1>4. SumFunctionOnSet(Stocks(held), Homes) = SumFunction([h \in HeldHomes |-> ClearedOut(held[h]).goods])
    <2> DEFINE f == [h \in HeldHomes |-> ClearedOut(held[h]).goods]
               g == Stocks(held)
    <2>1. \A h \in HeldHomes : f[h] \in Int /\ g[h] = f[h]
        <3>1. \A h \in HeldHomes : h \in Homes /\ GoodsIn(held[h]) = ClearedOut(held[h]).goods /\ GoodsIn(held[h]) \in Int
            <4> TAKE h \in HeldHomes
            <4>1. h \in Homes /\ held[h] \in Holdings /\ IsFiniteSet(held[h].pieces) BY <1>1
            <4>2. GoodsIn(held[h]) = ClearedOut(held[h]).goods /\ GoodsIn(held[h]) \in Nat BY <4>1, HomeHas, Zenon
            <4> QED BY <4>1, <4>2
        <3> QED BY <3>1 DEF Stocks
    <2>2. \A h \in Homes \ HeldHomes : g[h] = 0 BY NoHomeHas DEF Stocks, HeldHomes, IsHeld
    <2>3. HeldHomes \in SUBSET Homes /\ DOMAIN f = HeldHomes BY DEF HeldHomes
    <2>5. SumFunction(f) = SumFunctionOnSet(f, DOMAIN f) BY DEF SumFunction
    <2> HIDE DEF f, g
    <2>4. SumFunctionOnSet(g, Homes) = SumFunctionOnSet(f, HeldHomes)
        BY <2>1, <2>2, <2>3, Finite, SumPick
    <2> QED BY <2>3, <2>4, <2>5, Zenon DEF f, g
<1>5. /\ DOMAIN credits = Pilots /\ DOMAIN stores = Pilots
      /\ DOMAIN Credits = Pilots /\ DOMAIN Goods = Pilots
      /\ DOMAIN Owed(accounts) = Pilots /\ DOMAIN Kept(accounts) = Pilots
    BY HomesAssumption DEF MoneyInv, Purses, Owed, Kept
<1>6. /\ SumFunction(credits) = SumFunctionOnSet(credits, Pilots)
      /\ SumFunction(stores) = SumFunctionOnSet(stores, Pilots)
      /\ SumFunction(Credits) = SumFunctionOnSet(Credits, Pilots)
      /\ SumFunction(Goods) = SumFunctionOnSet(Goods, Pilots)
      /\ SumFunction(Owed(accounts)) = SumFunctionOnSet(Owed(accounts), Pilots)
      /\ SumFunction(Kept(accounts)) = SumFunctionOnSet(Kept(accounts), Pilots)
    BY <1>5, Zenon DEF SumFunction
<1>7. CreditsConserved
    <2>1. SumFunctionOnSet(credits, Pilots) + SumFunctionOnSet(Owed(accounts), Pilots)
            + SumFunctionOnSet(Banks(held), Homes) + taken = SumFunctionOnSet(Credits, Pilots)
        BY DEF MoneyInv, AllCredits
    <2> QED BY <1>3, <1>6, <2>1, Zenon DEF CreditsConserved, Owed
<1>8. GoodsConserved
    <2>1. SumFunctionOnSet(stores, Pilots) + SumFunctionOnSet(Kept(accounts), Pilots)
            + SumFunctionOnSet(Stocks(held), Homes) = SumFunctionOnSet(Goods, Pilots)
        BY DEF MoneyInv, AllGoods
    <2> QED BY <1>4, <1>6, <2>1, Zenon DEF GoodsConserved, Kept
<1> QED BY <1>2, <1>7, <1>8 DEF Conserved

-----------------------------------------------------------------------------
(* A step after which every home has what it had, and so has everyone. *)
LEMMA Quiet ==
    ASSUME HomesInv, MoneyInv, UNCHANGED money,
           \A h \in Homes : BankIn(held'[h]) = BankIn(held[h]) /\ GoodsIn(held'[h]) = GoodsIn(held[h])
    PROVE  MoneyInv'
<1>1. Banks(held') = Banks(held) /\ Stocks(held') = Stocks(held) BY DEF Banks, Stocks
<1>2. UNCHANGED <<accounts, taken, credits, stores>> BY DEF money
<1>3. Purses' BY <1>2 DEF MoneyInv, Purses
<1> QED BY <1>1, <1>2, <1>3 DEF MoneyInv, AllCredits, AllGoods

(* A step of one pilot with one home: x more in the hangar, y more in the store, z more to
   the colony. *)
Moves(p, h, e, x, y, z) ==
    /\ held' = [held EXCEPT ![h] = e]
    /\ accounts' = accounts /\ taken' = taken + z
    /\ credits' = [credits EXCEPT ![p] = credits[p] + x] /\ credits[p] + x \in Nat
    /\ stores' = [stores EXCEPT ![p] = stores[p] + y] /\ stores[p] + y \in Nat
    /\ BankIn(e) \in Int /\ BankIn(e) + x + z = BankIn(held[h])
    /\ GoodsIn(e) \in Int /\ GoodsIn(e) + y = GoodsIn(held[h])

LEMMA OneHomeMoney ==
    ASSUME HomesInv, MoneyInv, NEW p \in Pilots, NEW h \in Homes, NEW e,
           NEW x \in Int, NEW y \in Int, NEW z \in Int, Moves(p, h, e, x, y, z)
    PROVE  MoneyInv'
<1>1. held \in [Homes -> Holdings \cup {NotHeld}] /\ Purses BY DEF HomesInv, Shapes, MoneyInv
<1>2. \A g \in Homes : held'[g] = IF g = h THEN e ELSE held[g] BY <1>1 DEF Moves
<1>3. /\ BankIn(held[h]) \in Int /\ GoodsIn(held[h]) \in Int
      /\ BankIn(e) \in Int /\ GoodsIn(e) \in Int
      /\ BankIn(e) + x + z = BankIn(held[h]) /\ GoodsIn(e) + y = GoodsIn(held[h])
    BY EveryHomeHas DEF Moves
<1>4. /\ SumFunctionOnSet(Banks(held), Homes) \in Int
      /\ SumFunctionOnSet(Banks(held'), Homes) =
             SumFunctionOnSet(Banks(held), Homes) + BankIn(e) - BankIn(held[h])
    <2>1. ChangesAt(Banks(held), Banks(held'), Homes, h)
        <3>1. \A g \in Homes : BankIn(held[g]) \in Int BY EveryHomeHas
        <3> QED BY <1>2, <1>3, <3>1 DEF ChangesAt, Banks
    <2>2. Banks(held')[h] = BankIn(e) /\ Banks(held)[h] = BankIn(held[h]) BY <1>2 DEF Banks
    <2>3. /\ SumFunctionOnSet(Banks(held), Homes) \in Int
          /\ SumFunctionOnSet(Banks(held'), Homes) =
             SumFunctionOnSet(Banks(held), Homes) + Banks(held')[h] - Banks(held)[h]
        BY <2>1, Finite, SumChanges
    <2> QED BY <2>2, <2>3, Zenon
<1>5. /\ SumFunctionOnSet(Stocks(held), Homes) \in Int
      /\ SumFunctionOnSet(Stocks(held'), Homes) =
             SumFunctionOnSet(Stocks(held), Homes) + GoodsIn(e) - GoodsIn(held[h])
    <2>1. ChangesAt(Stocks(held), Stocks(held'), Homes, h)
        <3>1. \A g \in Homes : GoodsIn(held[g]) \in Int BY EveryHomeHas
        <3> QED BY <1>2, <1>3, <3>1 DEF ChangesAt, Stocks
    <2>2. Stocks(held')[h] = GoodsIn(e) /\ Stocks(held)[h] = GoodsIn(held[h]) BY <1>2 DEF Stocks
    <2>3. /\ SumFunctionOnSet(Stocks(held), Homes) \in Int
          /\ SumFunctionOnSet(Stocks(held'), Homes) =
             SumFunctionOnSet(Stocks(held), Homes) + Stocks(held')[h] - Stocks(held)[h]
        BY <2>1, Finite, SumChanges
    <2> QED BY <2>2, <2>3, Zenon
<1>6. /\ credits \in [Pilots -> Nat] /\ stores \in [Pilots -> Nat] /\ taken \in Int
      /\ credits' = [credits EXCEPT ![p] = credits[p] + x] /\ credits[p] + x \in Nat
      /\ stores' = [stores EXCEPT ![p] = stores[p] + y] /\ stores[p] + y \in Nat
      /\ taken' = taken + z
    BY <1>1 DEF Purses, Moves
<1>7. /\ credits' \in [Pilots -> Nat] /\ stores' \in [Pilots -> Nat] /\ taken' \in Int
      /\ credits'[p] = credits[p] + x /\ stores'[p] = stores[p] + y
      /\ ChangesAt(credits, credits', Pilots, p) /\ ChangesAt(stores, stores', Pilots, p)
      /\ credits[p] \in Int /\ stores[p] \in Int
    BY <1>6 DEF ChangesAt
<1>8. /\ SumFunctionOnSet(credits', Pilots) = SumFunctionOnSet(credits, Pilots) + credits'[p] - credits[p]
      /\ SumFunctionOnSet(stores', Pilots) = SumFunctionOnSet(stores, Pilots) + stores'[p] - stores[p]
    BY <1>7, Finite, SumChanges
<1>9. SumFunctionOnSet(credits, Pilots) \in Int /\ SumFunctionOnSet(stores, Pilots) \in Int
      /\ SumFunctionOnSet(Owed(accounts), Pilots) \in Int
      /\ SumFunctionOnSet(Kept(accounts), Pilots) \in Int
    BY <1>1, SumsAre
<1>10. accounts' = accounts BY DEF Moves
<1>11. AllCredits(credits', accounts', held') + taken' = AllCredits(credits, accounts, held) + taken
    <2>1. taken \in Int /\ taken' = taken + z /\ credits'[p] = credits[p] + x /\ credits[p] \in Int
        BY <1>6, <1>7
    <2>2. AllCredits(credits', accounts', held') = AllCredits(credits', accounts, held')
        BY <1>10
    <2> QED BY <1>3, <1>4, <1>8, <1>9, <2>1, <2>2 DEF AllCredits
<1>12. AllGoods(stores', accounts', held') = AllGoods(stores, accounts, held)
    <2>1. stores'[p] = stores[p] + y /\ stores[p] \in Int BY <1>7
    <2>2. AllGoods(stores', accounts', held') = AllGoods(stores', accounts, held')
        BY <1>10
    <2> QED BY <1>3, <1>5, <1>8, <1>9, <2>1, <2>2 DEF AllGoods
<1>13. Purses' BY <1>1, <1>7, <1>10 DEF Purses
<1> QED BY <1>11, <1>12, <1>13 DEF MoneyInv

LEMMA PursesAre ==
    ASSUME MoneyInv, NEW p \in Pilots
    PROVE  /\ credits \in [Pilots -> Nat] /\ stores \in [Pilots -> Nat] /\ taken \in Int
           /\ credits[p] \in Nat /\ stores[p] \in Nat
           /\ stores = [stores EXCEPT ![p] = stores[p] + 0] /\ taken = taken + 0
           /\ credits = [credits EXCEPT ![p] = credits[p] + 0]
<1>1. credits \in [Pilots -> Nat] /\ stores \in [Pilots -> Nat] /\ taken \in Int
    BY DEF MoneyInv, Purses
<1> QED BY <1>1

LEMMA PricesAre ==
    /\ Week \in Nat /\ Price \in Nat /\ SellBack \in Nat /\ PiecePrice \in Nat /\ PieceBack \in Nat
BY HomesAssumption

LEMMA TakeMoney ==
    ASSUME HomesInv, MoneyInv, NEW p \in Pilots, NEW h \in Homes, Take(p, h)
    PROVE  MoneyInv'
<1> DEFINE cost == IF h \in Flats THEN Week ELSE Price
           e == Held(p, IF h \in Flats THEN cost ELSE 0)
<1>1. /\ ~IsHeld(h) /\ credits[p] >= cost /\ credits' = [credits EXCEPT ![p] = @ - cost]
      /\ held' = [held EXCEPT ![h] = e] /\ accounts' = accounts /\ stores' = stores
      /\ taken' = IF h \in Flats THEN taken ELSE taken + cost
    BY DEF Take, Spends, Becomes
<1>2. cost \in Nat BY PricesAre
<1>3. e \in Holdings /\ e.pieces = {} /\ e.bank = IF h \in Flats THEN cost ELSE 0
    BY <1>2, TimeIs DEF Held, Holdings, Never
<1> HIDE DEF cost, e
<1>4. BankIn(e) = e.bank /\ GoodsIn(e) = 0
    <2>1. e # NotHeld BY <1>3, HoldingIs
    <2>2. BankIn(e) = e.bank
          /\ GoodsIn(e) = SumFunctionOnSet([q \in e.pieces |-> q.holds], e.pieces)
        BY <2>1, Zenon DEF BankIn, GoodsIn
    <2>3. SumFunctionOnSet([q \in e.pieces |-> q.holds], {}) = 0 BY SumEmpty
    <2> QED BY <1>3, <2>2, <2>3, Zenon
<1>5. BankIn(held[h]) = 0 /\ GoodsIn(held[h]) = 0 BY <1>1, NoHomeHas DEF IsHeld
<1> DEFINE z == IF h \in Flats THEN 0 ELSE cost
<1>6. /\ credits[p] \in Nat /\ stores[p] \in Nat /\ taken \in Int
      /\ stores = [stores EXCEPT ![p] = stores[p] + 0]
    BY PursesAre
<1>7. /\ credits' = [credits EXCEPT ![p] = credits[p] + (0 - cost)] /\ credits[p] + (0 - cost) \in Nat
      /\ taken' = taken + z /\ z \in Int /\ (0 - cost) \in Int
    <2>1. /\ credits[p] - cost = credits[p] + (0 - cost) /\ credits[p] + (0 - cost) \in Nat
          /\ (0 - cost) \in Int
        BY <1>1, <1>2, <1>6
    <2>2. taken' = taken + z /\ z \in Int BY <1>1, <1>2, <1>6
    <2>3. credits' = [credits EXCEPT ![p] = credits[p] - cost] BY <1>1
    <2> QED BY <2>1, <2>2, <2>3, Zenon
<1>8. Moves(p, h, e, 0 - cost, 0, z)
    <2>1. /\ BankIn(e) \in Int /\ BankIn(e) + (0 - cost) + z = BankIn(held[h])
          /\ GoodsIn(e) \in Int /\ GoodsIn(e) + 0 = GoodsIn(held[h]) /\ stores[p] + 0 \in Nat
        BY <1>2, <1>3, <1>4, <1>5, <1>6
    <2>2. stores' = [stores EXCEPT ![p] = stores[p] + 0] BY <1>1, <1>6, Zenon
    <2> HIDE DEF z
    <2> QED BY <1>1, <1>7, <2>1, <2>2, Zenon DEF Moves
<1> HIDE DEF z
<1> QED BY <1>7, <1>8, OneHomeMoney

LEMMA GiveUpMoney ==
    ASSUME HomesInv, MoneyInv, NEW p \in Pilots, NEW h \in Homes, GiveUp(p, h)
    PROVE  MoneyInv'
<1> DEFINE d == held[h]
           sold == ClearedOut(d).credits
           y == ClearedOut(d).goods
           back == PaysBack(h, d)
           house == IF h \in Flats THEN 0 ELSE SellBack
<1>1. /\ IsHeld(h) /\ held' = [held EXCEPT ![h] = NotHeld]
      /\ credits' = [credits EXCEPT ![p] = credits[p] + (back + sold)]
      /\ stores' = [stores EXCEPT ![p] = stores[p] + y]
      /\ taken' = taken - sold - house /\ accounts' = accounts
    BY DEF GiveUp, HeldBy, Becomes, Gains
<1>2. d \in Holdings /\ IsFiniteSet(d.pieces) /\ RentOK(h, d, paid_to[h], excused, now)
    BY <1>1, HeldIs DEF HomeOK
<1>3. sold \in Nat
    <2>1. Cardinality(d.pieces) \in Nat BY <1>2, FS_CardinalityType
    <2>2. sold = Cardinality(d.pieces) * PieceBack BY DEF ClearedOut
    <2> QED BY <2>1, <2>2, PricesAre
<1>4. y \in Nat /\ GoodsIn(d) = y /\ BankIn(d) = d.bank BY <1>2, HomeHas, Zenon
<1>5. d.bank \in Nat /\ (h \notin Flats => d.bank = 0)
    BY <1>2, HoldingIs, TimeIs DEF RentOK
<1>6. back = IF h \in Flats THEN d.bank ELSE SellBack BY DEF PaysBack
<1>7. credits[p] \in Nat /\ stores[p] \in Nat /\ taken \in Int BY PursesAre
<1>8. BankIn(NotHeld) = 0 /\ GoodsIn(NotHeld) = 0 BY NoHomeHas
<1> HIDE DEF sold, y, back
<1>9. /\ credits[p] + (back + sold) \in Nat /\ stores[p] + y \in Nat /\ back + sold \in Int
      /\ 0 - sold - house \in Int /\ taken' = taken + (0 - sold - house)
      /\ BankIn(NotHeld) \in Int /\ GoodsIn(NotHeld) \in Int
      /\ BankIn(NotHeld) + (back + sold) + (0 - sold - house) = BankIn(held[h])
      /\ GoodsIn(NotHeld) + y = GoodsIn(held[h])
    BY <1>1, <1>3, <1>4, <1>5, <1>6, <1>7, <1>8, PricesAre
<1> HIDE DEF house
<1>10. Moves(p, h, NotHeld, back + sold, y, 0 - sold - house)
    BY <1>1, <1>9, Zenon DEF Moves
<1>11. y \in Int BY <1>4
<1> QED BY <1>9, <1>10, <1>11, OneHomeMoney

LEMMA BankMoney ==
    ASSUME HomesInv, MoneyInv, NEW p \in Pilots, NEW h \in Homes, Feed(p, h, 1) \/ Withdraw(p, h, 1)
    PROVE  MoneyInv'
<1> DEFINE d == held[h]
<1>1. PICK x \in {-1, 1} :
         /\ IsHeld(h) /\ held' = [held EXCEPT ![h] = [d EXCEPT !.bank = @ - x]]
         /\ credits' = [credits EXCEPT ![p] = @ + x]
         /\ x = 1 => 1 <= d.bank
         /\ x = -1 => credits[p] >= 1
         /\ stores' = stores /\ taken' = taken /\ accounts' = accounts
    <2>0. IsHeld(h) /\ stores' = stores /\ taken' = taken /\ accounts' = accounts
        BY DEF Feed, Withdraw, IsCrew
    <2>00. IsHeld(h) => d \in Holdings BY HeldIs
    <2>1. CASE Feed(p, h, 1)
        <3>1. /\ held' = [held EXCEPT ![h] = [d EXCEPT !.bank = d.bank + 1]]
              /\ credits' = [credits EXCEPT ![p] = credits[p] - 1] /\ credits[p] >= 1
            BY <2>1 DEF Feed, Spends, Becomes
        <3>2. d.bank + 1 = d.bank - (-1) /\ credits[p] - 1 = credits[p] + (-1)
            BY <2>0, <2>00, HoldingIs, PursesAre
        <3>3. /\ held' = [held EXCEPT ![h] = [d EXCEPT !.bank = d.bank - (-1)]]
              /\ credits' = [credits EXCEPT ![p] = credits[p] + (-1)]
            BY <3>1, <3>2, Zenon
        <3>4. -1 \in {-1, 1} /\ (-1 = 1 => 1 <= d.bank) OBVIOUS
        <3> QED BY <2>0, <3>1, <3>3, <3>4, Zenon
    <2>2. CASE Withdraw(p, h, 1)
        BY <2>0, <2>2 DEF Withdraw, Gains, Becomes, Covers
    <2> QED BY <2>1, <2>2
<1> DEFINE e == [d EXCEPT !.bank = @ - x]
<1>2. d \in Holdings /\ IsFiniteSet(d.pieces) BY <1>1, HeldIs DEF HomeOK
<1>3. e \in Holdings /\ e.pieces = d.pieces /\ e.bank = d.bank - x
    BY <1>1, <1>2, HoldingIs DEF Holdings, Fields
<1>4. d # NotHeld /\ e # NotHeld /\ d.bank \in Nat BY <1>2, <1>3, HoldingIs
<1>5. held' = [held EXCEPT ![h] = e] BY <1>1
<1> HIDE DEF e
<1>6. BankIn(e) = d.bank - x /\ BankIn(d) = d.bank /\ GoodsIn(e) = GoodsIn(d)
    BY <1>3, <1>4 DEF BankIn, GoodsIn
<1>7. GoodsIn(d) \in Nat BY <1>2, HomeHas, Zenon
<1>8. /\ credits[p] \in Nat /\ stores[p] \in Nat /\ taken \in Int
      /\ stores = [stores EXCEPT ![p] = stores[p] + 0]
    BY PursesAre
<1>9. Moves(p, h, e, x, 0, 0)
    <2>1. /\ credits[p] + x \in Nat /\ taken' = taken + 0 /\ stores[p] + 0 \in Nat
          /\ BankIn(e) \in Int /\ BankIn(e) + x + 0 = BankIn(held[h])
          /\ GoodsIn(e) \in Int /\ GoodsIn(e) + 0 = GoodsIn(held[h])
        BY <1>1, <1>4, <1>6, <1>7, <1>8
    <2>2. stores' = [stores EXCEPT ![p] = stores[p] + 0] BY <1>1, <1>8, Zenon
    <2> QED BY <1>1, <1>5, <2>1, <2>2, Zenon DEF Moves
<1> QED BY <1>9, <1>1, OneHomeMoney

(* What a set of pieces holds, with one more or one less. *)
HoldsIn(S) == SumFunctionOnSet([q \in S |-> q.holds], S)

LEMMA HoldsAdd ==
    ASSUME NEW S \in SUBSET Pieces, IsFiniteSet(S), NEW q \in Pieces, q \notin S
    PROVE  /\ HoldsIn(S) \in Nat /\ q.holds \in Nat
           /\ HoldsIn(S \cup {q}) = HoldsIn(S) + q.holds
<1> DEFINE T == S \cup {q}
           f == [r \in T |-> r.holds]
           g == [r \in S |-> r.holds]
<1>1. /\ \A r \in T : f[r] \in Nat
      /\ \A r \in S : g[r] \in Nat /\ f[r] = g[r]
      /\ f[q] = q.holds /\ q.holds \in Nat
    BY DEF Pieces
<1> HIDE DEF f, g
<1>2. SumFunctionOnSet(g, S) \in Nat BY <1>1, SumNat
<1>3. SumFunctionOnSet(f, S) = SumFunctionOnSet(g, S) BY <1>1, SumSame
<1>4. SumFunctionOnSet(f, S \cup {q}) = SumFunctionOnSet(f, S) + f[q]
    <2>1. \A r \in S \cup {q} : f[r] \in Int BY <1>1
    <2> QED BY <2>1, SumAdds
<1> QED BY <1>1, <1>2, <1>3, <1>4 DEF HoldsIn, f, g

(* A home whose furniture has changed, and nothing else that counts. *)
LEMMA PiecesMoney ==
    ASSUME HomesInv, MoneyInv, NEW p \in Pilots, NEW h \in Homes, IsHeld(h), NEW e \in Holdings,
           NEW x \in Int, NEW y \in Int, NEW z \in Int,
           held' = [held EXCEPT ![h] = e], e.bank = held[h].bank, IsFiniteSet(e.pieces),
           x + z = 0, HoldsIn(e.pieces) + y = HoldsIn(held[h].pieces),
           accounts' = accounts, taken' = taken + z,
           credits' = [credits EXCEPT ![p] = credits[p] + x], credits[p] + x \in Nat,
           stores' = [stores EXCEPT ![p] = stores[p] + y], stores[p] + y \in Nat
    PROVE  MoneyInv'
<1> DEFINE d == held[h]
<1>1. d \in Holdings /\ IsFiniteSet(d.pieces) BY HeldIs DEF HomeOK
<1>2. /\ BankIn(d) = d.bank /\ BankIn(d) \in Nat /\ BankIn(e) = e.bank
      /\ GoodsIn(e) = HoldsIn(e.pieces) /\ GoodsIn(e) \in Nat /\ GoodsIn(d) = HoldsIn(d.pieces)
    BY <1>1, HomeHas, Zenon DEF HoldsIn
<1> HIDE DEF d
<1>3. /\ BankIn(e) \in Int /\ BankIn(e) + x + z = BankIn(d)
      /\ GoodsIn(e) \in Int /\ GoodsIn(e) + y = GoodsIn(d)
    <2>1. e.bank = d.bank /\ HoldsIn(e.pieces) + y = HoldsIn(d.pieces) BY DEF d
    <2> QED BY <1>2, <2>1
<1>4. Moves(p, h, e, x, y, z) BY <1>3, Zenon DEF Moves, d
<1> QED BY <1>4, OneHomeMoney

LEMMA FurnishMoney ==
    ASSUME HomesInv, MoneyInv, NEW p \in Pilots, NEW h \in Homes, NEW kind \in Furniture,
           Furnish(p, h, kind)
    PROVE  MoneyInv'
<1> DEFINE d == held[h]
           q == [id |-> d.next, kind |-> kind, holds |-> 0]
           new == d.pieces \cup {q}
           n == d.next + 1
           e == [d EXCEPT !.pieces = new, !.next = n]
<1>1. /\ IsHeld(h) /\ held' = [held EXCEPT ![h] = e]
      /\ accounts' = accounts /\ taken' = taken + PiecePrice /\ stores' = stores
      /\ credits' = [credits EXCEPT ![p] = credits[p] - PiecePrice] /\ credits[p] >= PiecePrice
    BY DEF Furnish, IsCrew, Becomes, Spends
<1>2. d \in Holdings /\ HomeOK(h, d, entered[h], paid_to[h], excused, now) BY <1>1, HeldIs
<1>3. /\ d.next \in Nat /\ d.pieces \in SUBSET Pieces /\ IsFiniteSet(d.pieces) /\ BedsOK(d)
    BY <1>2, HoldingIs DEF HomeOK, Pieces
<1>4. q \in Pieces /\ q.id = d.next /\ q.holds = 0 BY <1>3 DEF Pieces
<1> HIDE DEF q
<1>5. q \notin d.pieces BY <1>3, <1>4 DEF BedsOK
<1>6. HoldsIn(d.pieces) \in Nat /\ HoldsIn(new) = HoldsIn(d.pieces) + q.holds
    BY <1>3, <1>4, <1>5, HoldsAdd
<1>7. IsFiniteSet(new) BY <1>3, FS_AddElement
<1>8. new \in SUBSET Pieces /\ n \in Nat BY <1>3, <1>4
<1> HIDE DEF new, n
<1>9. e \in Holdings /\ e.pieces = new /\ e.bank = d.bank
    BY <1>2, <1>8, HoldingIs DEF Holdings, Fields, Pieces
<1> HIDE DEF e
<1>10. /\ credits[p] \in Nat /\ stores[p] \in Nat /\ stores = [stores EXCEPT ![p] = stores[p] + 0]
    BY PursesAre
<1>11. /\ 0 - PiecePrice \in Int /\ PiecePrice \in Int /\ (0 - PiecePrice) + PiecePrice = 0
       /\ credits[p] - PiecePrice = credits[p] + (0 - PiecePrice)
       /\ credits[p] + (0 - PiecePrice) \in Nat /\ stores[p] + 0 \in Nat
       /\ HoldsIn(new) + 0 = HoldsIn(d.pieces)
    BY <1>1, <1>4, <1>6, <1>10, PricesAre
<1>12. /\ credits' = [credits EXCEPT ![p] = credits[p] + (0 - PiecePrice)]
       /\ stores' = [stores EXCEPT ![p] = stores[p] + 0]
       /\ HoldsIn(e.pieces) + 0 = HoldsIn(d.pieces) /\ IsFiniteSet(e.pieces)
    BY <1>1, <1>7, <1>9, <1>10, <1>11, Zenon
<1>13. /\ IsHeld(h) /\ held' = [held EXCEPT ![h] = e] /\ e.bank = held[h].bank
       /\ accounts' = accounts /\ taken' = taken + PiecePrice
       /\ HoldsIn(e.pieces) + 0 = HoldsIn(held[h].pieces)
    BY <1>1, <1>9, <1>12
<1>14. 0 \in Int OBVIOUS
<1> HIDE DEF d
<1> QED BY <1>9, <1>11, <1>12, <1>13, <1>14, PiecesMoney, Zenon

LEMMA PieceMoney ==
    ASSUME HomesInv, MoneyInv, NEW p \in Pilots, NEW h \in Homes, IsHeld(h), NEW q \in held[h].pieces,
           SellPiece(p, h, q) \/ Stash(p, h, q) \/ Unstash(p, h, q)
    PROVE  MoneyInv'
<1> DEFINE d == held[h]
           rest == d.pieces \ {q}
<1>1. d \in Holdings /\ HomeOK(h, d, entered[h], paid_to[h], excused, now) BY HeldIs
<1>2. /\ d.next \in Nat /\ d.pieces \in SUBSET Pieces /\ IsFiniteSet(d.pieces) /\ BedsOK(d)
      /\ q \in Pieces /\ DOMAIN q = {"id", "kind", "holds"} /\ q.holds \in Nat
    BY <1>1, HoldingIs DEF HomeOK, Pieces
<1>3. /\ IsFiniteSet(rest) /\ rest \in SUBSET Pieces /\ q \notin rest /\ rest \cup {q} = d.pieces
    BY <1>2, FS_RemoveElement
<1>4. HoldsIn(rest) \in Nat /\ HoldsIn(d.pieces) = HoldsIn(rest) + q.holds
    <2> HIDE DEF rest
    <2>1. HoldsIn(rest) \in Nat /\ HoldsIn(rest \cup {q}) = HoldsIn(rest) + q.holds
        BY <1>2, <1>3, HoldsAdd
    <2> QED BY <1>3, <2>1, Zenon
<1>5. /\ credits[p] \in Nat /\ stores[p] \in Nat /\ stores = [stores EXCEPT ![p] = stores[p] + 0]
      /\ credits = [credits EXCEPT ![p] = credits[p] + 0] /\ taken \in Int /\ taken = taken + 0
    BY PursesAre
<1>6. ASSUME NEW new \in SUBSET Pieces
      PROVE  LET e == [d EXCEPT !.pieces = new]
             IN  e \in Holdings /\ e.pieces = new /\ e.bank = d.bank
    BY <1>1, HoldingIs DEF Holdings, Fields, Pieces
<1>7. CASE SellPiece(p, h, q)
    <2> DEFINE e == [d EXCEPT !.pieces = rest]
    <2>1. /\ held' = [held EXCEPT ![h] = e] /\ q.holds = 0
          /\ accounts' = accounts /\ taken' = taken - PieceBack /\ stores' = stores
          /\ credits' = [credits EXCEPT ![p] = credits[p] + PieceBack]
        BY <1>7 DEF SellPiece, Becomes, Gains, Sellable
    <2>2. e \in Holdings /\ e.pieces = rest /\ e.bank = d.bank BY <1>3, <1>6
    <2> HIDE DEF e, rest, d
    <2>3. /\ 0 - PieceBack \in Int /\ PieceBack \in Int /\ PieceBack + (0 - PieceBack) = 0
          /\ taken' = taken + (0 - PieceBack) /\ credits[p] + PieceBack \in Nat
          /\ stores[p] + 0 \in Nat /\ HoldsIn(rest) + 0 = HoldsIn(d.pieces) /\ 0 \in Int
        <3>1. taken' = taken - PieceBack /\ q.holds = 0 BY <2>1
        <3> QED BY <1>4, <1>5, <3>1, PricesAre
    <2>4. /\ stores' = [stores EXCEPT ![p] = stores[p] + 0]
          /\ HoldsIn(e.pieces) + 0 = HoldsIn(held[h].pieces) /\ IsFiniteSet(e.pieces)
          /\ e.bank = held[h].bank
        BY <1>3, <1>5, <2>1, <2>2, <2>3, Zenon DEF d
    <2> QED BY <2>1, <2>2, <2>3, <2>4, PiecesMoney, Zenon
<1>8. ASSUME NEW n \in Nat, NEW y \in Int, y = q.holds - n, stores[p] + y \in Nat,
             held' = [held EXCEPT ![h] = [d EXCEPT !.pieces = rest \cup {[q EXCEPT !.holds = n]}]],
             stores' = [stores EXCEPT ![p] = stores[p] + y],
             UNCHANGED <<accounts, taken, credits>>
      PROVE  MoneyInv'
    <2> DEFINE r == [q EXCEPT !.holds = n]
               new == rest \cup {r}
               e == [d EXCEPT !.pieces = new]
    <2>1. r \in Pieces /\ r.id = q.id /\ r.holds = n BY <1>2 DEF Pieces
    <2>2. held' = [held EXCEPT ![h] = e] BY <1>8
    <2> HIDE DEF r
    <2>3. r \notin rest BY <1>2, <2>1 DEF BedsOK
    <2>4. HoldsIn(new) = HoldsIn(rest) + n /\ IsFiniteSet(new) /\ new \in SUBSET Pieces
        <3> HIDE DEF rest
        <3>1. HoldsIn(rest \cup {r}) = HoldsIn(rest) + r.holds BY <1>3, <2>1, <2>3, HoldsAdd
        <3>2. IsFiniteSet(rest \cup {r}) BY <1>3, FS_AddElement
        <3>3. new \in SUBSET Pieces BY <1>3, <2>1
        <3> QED BY <2>1, <3>1, <3>2, <3>3
    <2> HIDE DEF new, rest
    <2>5. e \in Holdings /\ e.pieces = new /\ e.bank = d.bank BY <2>4, <1>6
    <2> HIDE DEF e, d
    <2>6. /\ HoldsIn(new) + y = HoldsIn(d.pieces) /\ 0 \in Int /\ 0 + 0 = 0 /\ credits[p] + 0 \in Nat
        BY <1>2, <1>4, <1>5, <1>8, <2>4
    <2>7. /\ taken' = taken + 0 /\ credits' = [credits EXCEPT ![p] = credits[p] + 0]
          /\ HoldsIn(e.pieces) + y = HoldsIn(held[h].pieces) /\ IsFiniteSet(e.pieces)
          /\ e.bank = held[h].bank /\ accounts' = accounts
        BY <1>5, <1>8, <2>4, <2>5, <2>6, Zenon DEF d
    <2>8. stores' = [stores EXCEPT ![p] = stores[p] + y] /\ stores[p] + y \in Nat BY <1>8
    <2> QED BY <2>2, <2>5, <2>6, <2>7, <2>8, PiecesMoney
<1>9. CASE Stash(p, h, q)
    <2>1. /\ held' = [held EXCEPT ![h] = [d EXCEPT !.pieces = rest \cup {[q EXCEPT !.holds = q.holds + 1]}]]
          /\ stores' = [stores EXCEPT ![p] = stores[p] - 1] /\ stores[p] > 0
          /\ UNCHANGED <<accounts, taken, credits>>
        BY <1>9 DEF Stash, Becomes
    <2>2. /\ q.holds + 1 \in Nat /\ -1 \in Int /\ -1 = q.holds - (q.holds + 1)
          /\ stores[p] + -1 \in Nat /\ stores[p] - 1 = stores[p] + -1
        <3>1. stores[p] > 0 BY <2>1
        <3> QED BY <1>2, <1>5, <3>1
    <2>3. stores' = [stores EXCEPT ![p] = stores[p] + -1] BY <2>1, <2>2, Zenon
    <2> HIDE DEF rest, d
    <2> QED BY <1>8, <2>1, <2>2, <2>3, Zenon
<1>10. CASE Unstash(p, h, q)
    <2>1. /\ held' = [held EXCEPT ![h] = [d EXCEPT !.pieces = rest \cup {[q EXCEPT !.holds = q.holds - 1]}]]
          /\ stores' = [stores EXCEPT ![p] = stores[p] + 1] /\ q.holds > 0
          /\ UNCHANGED <<accounts, taken, credits>>
        BY <1>10 DEF Unstash, Becomes
    <2>2. /\ q.holds - 1 \in Nat /\ 1 \in Int /\ 1 = q.holds - (q.holds - 1)
          /\ stores[p] + 1 \in Nat
        <3>1. q.holds > 0 BY <2>1
        <3> QED BY <1>2, <1>5, <3>1
    <2> HIDE DEF rest, d
    <2> QED BY <1>8, <2>1, <2>2, Zenon
<1> QED BY <1>7, <1>9, <1>10

LEMMA KeepsMoney ==
    ASSUME HomesInv, MoneyInv, UNCHANGED money, HomesKeep
    PROVE  MoneyInv'
<1>1. ASSUME NEW h \in Homes
      PROVE  BankIn(held'[h]) = BankIn(held[h]) /\ GoodsIn(held'[h]) = GoodsIn(held[h])
    <2>1. CASE IsHeld(h)
        <3>1. /\ held[h] # NotHeld /\ held'[h] # NotHeld
              /\ held'[h].bank = held[h].bank /\ held'[h].pieces = held[h].pieces
            BY <2>1 DEF HomesKeep, IsHeld
        <3> QED BY <3>1 DEF BankIn, GoodsIn
    <2>2. CASE ~IsHeld(h)
        <3>1. held[h] = NotHeld /\ held'[h] = NotHeld BY <2>2 DEF HomesKeep, IsHeld
        <3> QED BY <3>1
    <2> QED BY <2>1, <2>2
<1> QED BY <1>1, Quiet

LEMMA VisitedMoney ==
    ASSUME HomesInv, MoneyInv, NEW p \in Pilots, NEW h \in Homes, Visited(p, h)
    PROVE  MoneyInv'
<1> DEFINE e == [held[h] EXCEPT !.at = now]
<1>1. held' = [held EXCEPT ![h] = e] /\ IsHeld(h) /\ UNCHANGED money
    BY DEF Visited, Becomes, HeldBy
<1>2. held[h] \in Holdings /\ now \in Nat BY <1>1, HeldIs, TimeIs
<1>3. e \in Holdings /\ e.bank = held[h].bank /\ e.pieces = held[h].pieces
    BY <1>2, HoldingIs DEF Holdings, Fields
<1>4. held \in [Homes -> Holdings \cup {NotHeld}] BY DEF HomesInv, Shapes
<1> HIDE DEF e
<1>5. \A g \in Homes : held'[g] = IF g = h THEN e ELSE held[g] BY <1>1, <1>4
<1>6. e # NotHeld BY <1>3, HoldingIs
<1>7. HomesKeep BY <1>1, <1>3, <1>5, <1>6 DEF HomesKeep, IsHeld
<1> QED BY <1>1, <1>7, KeepsMoney

LEMMA CollectMoney ==
    ASSUME HomesInv, MoneyInv, NEW p \in Pilots, Collect(p)
    PROVE  MoneyInv'
<1> DEFINE x == accounts[p].credits
           y == accounts[p].goods
<1>1. Purses BY DEF MoneyInv
<1>2. /\ held' = held /\ taken' = taken
      /\ credits' = [credits EXCEPT ![p] = credits[p] + x]
      /\ stores' = [stores EXCEPT ![p] = stores[p] + y]
      /\ accounts' = [accounts EXCEPT ![p] = Nothing]
    BY DEF Collect, Gains
<1>3. x \in Nat /\ y \in Nat BY <1>1 DEF Purses
<1>4. Nothing \in [credits : Nat, goods : Nat] /\ Nothing.credits = 0 /\ Nothing.goods = 0
    BY DEF Nothing
<1> HIDE DEF x, y
<1>5. Purses' BY <1>1, <1>2, <1>3, <1>4 DEF Purses
<1>6. /\ ChangesAt(credits, credits', Pilots, p) /\ credits'[p] = credits[p] + x /\ credits[p] \in Int
      /\ ChangesAt(stores, stores', Pilots, p) /\ stores'[p] = stores[p] + y /\ stores[p] \in Int
    BY <1>1, <1>2, <1>3 DEF Purses, ChangesAt
<1>7. \A r \in Pilots : /\ accounts'[r] = IF r = p THEN Nothing ELSE accounts[r]
                        /\ accounts[r].credits \in Nat /\ accounts[r].goods \in Nat
    BY <1>1, <1>2 DEF Purses
<1>8. /\ ChangesAt(Owed(accounts), Owed(accounts'), Pilots, p)
      /\ Owed(accounts')[p] = 0 /\ Owed(accounts)[p] = x
      /\ ChangesAt(Kept(accounts), Kept(accounts'), Pilots, p)
      /\ Kept(accounts')[p] = 0 /\ Kept(accounts)[p] = y
    BY <1>4, <1>7 DEF ChangesAt, Owed, Kept, x, y
<1>9. /\ SumFunctionOnSet(credits', Pilots) = SumFunctionOnSet(credits, Pilots) + credits'[p] - credits[p]
      /\ SumFunctionOnSet(stores', Pilots) = SumFunctionOnSet(stores, Pilots) + stores'[p] - stores[p]
    BY <1>6, Finite, SumChanges
<1>10. /\ SumFunctionOnSet(Owed(accounts'), Pilots) =
              SumFunctionOnSet(Owed(accounts), Pilots) + Owed(accounts')[p] - Owed(accounts)[p]
       /\ SumFunctionOnSet(Kept(accounts'), Pilots) =
              SumFunctionOnSet(Kept(accounts), Pilots) + Kept(accounts')[p] - Kept(accounts)[p]
    BY <1>8, Finite, SumChanges
<1>11. /\ SumFunctionOnSet(credits, Pilots) \in Int /\ SumFunctionOnSet(stores, Pilots) \in Int
       /\ SumFunctionOnSet(Owed(accounts), Pilots) \in Int
       /\ SumFunctionOnSet(Kept(accounts), Pilots) \in Int
       /\ SumFunctionOnSet(Banks(held), Homes) \in Int /\ SumFunctionOnSet(Stocks(held), Homes) \in Int
    BY <1>1, SumsAre
<1>12. AllCredits(credits', accounts', held) = AllCredits(credits, accounts, held)
    <2>1. /\ credits'[p] = credits[p] + x /\ credits[p] \in Int
          /\ Owed(accounts')[p] = 0 /\ Owed(accounts)[p] = x
        BY <1>6, <1>8
    <2> QED BY <1>3, <1>9, <1>10, <1>11, <2>1 DEF AllCredits
<1>13. AllGoods(stores', accounts', held) = AllGoods(stores, accounts, held)
    <2>1. /\ stores'[p] = stores[p] + y /\ stores[p] \in Int
          /\ Kept(accounts')[p] = 0 /\ Kept(accounts)[p] = y
        BY <1>6, <1>8
    <2> QED BY <1>3, <1>9, <1>10, <1>11, <2>1 DEF AllGoods
<1>14. held' = held /\ taken' = taken BY <1>2
<1> QED BY <1>5, <1>12, <1>13, <1>14 DEF MoneyInv

-----------------------------------------------------------------------------
(* The clock: what a lease pays the colony, and what a home that ends pays back. *)

PaidAt(t) == [h \in Homes |-> IF h \in Flats /\ IsHeld(h) THEN Paid(held[h], t) ELSE 0]
BackAt(t) == [h \in Ended(t) |-> PaysBack(h, AtTick(h, t)) + ClearedOut(held[h]).credits]
LeftAt(t) == [h \in Homes |-> IF h \in Ended(t) THEN AtTick(h, t).bank ELSE 0]
OutAt(t) == [h \in Homes |-> IF h \in Ended(t) THEN GoodsIn(held[h]) ELSE 0]
Holder(t) == [h \in Ended(t) |-> held[h].holder]
OwedAt(t) == [p \in Pilots |-> SumFunctionOnSet(BackAt(t), {h \in Ended(t) : Holder(t)[h] = p})]
KeptAt(t) == [p \in Pilots |-> SumFunctionOnSet(OutAt(t), {h \in Ended(t) : Holder(t)[h] = p})]

(* Each home, at the tick. *)
LEMMA TickHas ==
    ASSUME HomesInv, NEW n \in 1..MaxDown, Tick(n), NEW h \in Homes
    PROVE  LET t == now + n
           IN  /\ BankIn(held[h]) \in Nat /\ GoodsIn(held[h]) \in Nat
               /\ BankIn(held'[h]) \in Nat /\ GoodsIn(held'[h]) \in Nat
               /\ PaidAt(t)[h] \in Nat /\ LeftAt(t)[h] \in Nat /\ OutAt(t)[h] \in Nat
               /\ BankIn(held[h]) = BankIn(held'[h]) + PaidAt(t)[h] + LeftAt(t)[h]
               /\ GoodsIn(held[h]) = GoodsIn(held'[h]) + OutAt(t)[h]
               /\ h \in Ended(t) => /\ held[h].holder \in Pilots
                                    /\ BackAt(t)[h] \in Nat
                                    /\ ClearedOut(held[h]).goods = OutAt(t)[h]
<1> DEFINE t == now + n
           d == held[h]
           e == AtTick(h, t)
<1>0. n \in Nat \ {0} /\ now \in Nat /\ held'[h] = IF h \in Ended(t) THEN NotHeld ELSE e
    BY TickIs
<1>1. CASE ~IsHeld(h)
    <2>1. h \notin Ended(t) /\ e = NotHeld /\ d = NotHeld
        BY <1>1 DEF Ended, AtTick, IsHeld
    <2>2. held'[h] = NotHeld BY <1>0, <2>1
    <2>3. PaidAt(t)[h] = 0 /\ LeftAt(t)[h] = 0 /\ OutAt(t)[h] = 0
        BY <1>1, <2>1 DEF PaidAt, LeftAt, OutAt
    <2>4. BankIn(d) = 0 /\ GoodsIn(d) = 0 /\ BankIn(held'[h]) = 0 /\ GoodsIn(held'[h]) = 0
        BY <2>1, <2>2, NoHomeHas
    <2> QED BY <2>1, <2>3, <2>4
<1>2. CASE IsHeld(h)
    <2>1. /\ d \in Holdings /\ e \in Holdings /\ IsFiniteSet(d.pieces) /\ e.pieces = d.pieces
          /\ RentOK(h, d, paid_to[h], excused, now)
        BY <1>2, HeldIs, TickHome DEF HomeOK
    <2>2. d # NotHeld /\ e # NotHeld /\ d.bank \in Nat /\ e.bank \in Nat /\ d.holder \in Pilots
        BY <2>1, HoldingIs
    <2>3. /\ BankIn(d) = d.bank /\ BankIn(e) = e.bank
          /\ GoodsIn(d) = ClearedOut(d).goods /\ GoodsIn(d) \in Nat
        BY <2>1, HomeHas, Zenon
    <2>4. GoodsIn(e) = GoodsIn(d) BY <2>1, <2>2 DEF GoodsIn
    <2>5. PaidAt(t)[h] \in Nat /\ d.bank = e.bank + PaidAt(t)[h]
        <3>1. CASE h \in Flats
            <4>1. Paid(d, t) \in Nat /\ Paid(d, t) <= d.bank BY <1>0, <1>2, <3>1, RentIs
            <4>2. PaidAt(t)[h] = Paid(d, t) BY <1>2, <3>1 DEF PaidAt
            <4>3. e.bank = d.bank - Paid(d, t)
                BY <1>2, <2>1, <3>1, HoldingIs DEF AtTick, Charged, Fields
            <4> HIDE DEF d, e
            <4> QED BY <2>2, <4>1, <4>2, <4>3
        <3>2. CASE h \notin Flats
            <4>1. PaidAt(t)[h] = 0 /\ e = d BY <3>2 DEF PaidAt, AtTick
            <4> QED BY <2>2, <4>1
        <3> QED BY <3>1, <3>2
    <2>6. LeftAt(t)[h] = (IF h \in Ended(t) THEN e.bank ELSE 0)
          /\ OutAt(t)[h] = (IF h \in Ended(t) THEN GoodsIn(d) ELSE 0)
        BY DEF LeftAt, OutAt
    <2>7. h \in Ended(t) => BackAt(t)[h] \in Nat
        <3> SUFFICES ASSUME h \in Ended(t) PROVE BackAt(t)[h] \in Nat OBVIOUS
        <3>1. BackAt(t)[h] = PaysBack(h, e) + ClearedOut(d).credits BY DEF BackAt
        <3>2. PaysBack(h, e) \in Nat BY <2>2, PricesAre DEF PaysBack
        <3>3. ClearedOut(d).credits = Cardinality(d.pieces) * PieceBack BY DEF ClearedOut
        <3>4. Cardinality(d.pieces) \in Nat BY <2>1, FS_CardinalityType
        <3>5. ClearedOut(d).credits \in Nat BY <3>3, <3>4, PricesAre
        <3> QED BY <3>1, <3>2, <3>5
    <2>8. CASE h \in Ended(t)
        <3>1. BankIn(held'[h]) = 0 /\ GoodsIn(held'[h]) = 0 BY <1>0, <2>8, NoHomeHas
        <3> HIDE DEF d, e
        <3>2. /\ BankIn(d) = BankIn(held'[h]) + PaidAt(t)[h] + LeftAt(t)[h]
              /\ GoodsIn(d) = GoodsIn(held'[h]) + OutAt(t)[h]
              /\ LeftAt(t)[h] \in Nat /\ OutAt(t)[h] \in Nat /\ OutAt(t)[h] = GoodsIn(d)
              /\ BankIn(d) \in Nat /\ BankIn(held'[h]) \in Nat /\ GoodsIn(held'[h]) \in Nat
            BY <2>2, <2>3, <2>5, <2>6, <2>8, <3>1
        <3> QED BY <2>2, <2>3, <2>5, <2>7, <3>2, Zenon DEF d
    <2>9. CASE h \notin Ended(t)
        <3>1. BankIn(held'[h]) = e.bank /\ GoodsIn(held'[h]) = GoodsIn(d)
            BY <1>0, <2>3, <2>4, <2>9
        <3> HIDE DEF d, e
        <3>2. /\ BankIn(d) = BankIn(held'[h]) + PaidAt(t)[h] + LeftAt(t)[h]
              /\ GoodsIn(d) = GoodsIn(held'[h]) + OutAt(t)[h]
              /\ LeftAt(t)[h] \in Nat /\ OutAt(t)[h] \in Nat
              /\ BankIn(d) \in Nat /\ BankIn(held'[h]) \in Nat /\ GoodsIn(held'[h]) \in Nat
            BY <2>2, <2>3, <2>5, <2>6, <2>9, <3>1
        <3> QED BY <2>3, <2>5, <2>9, <3>2, Zenon DEF d
    <2> QED BY <2>8, <2>9
<1> QED BY <1>1, <1>2

LEMMA TickPays ==
    ASSUME HomesInv, MoneyInv, NEW n \in 1..MaxDown, Tick(n)
    PROVE  LET t == now + n
           IN  /\ \A p \in Pilots :
                     /\ OwedAt(t)[p] \in Nat /\ KeptAt(t)[p] \in Nat
                     /\ accounts'[p] = [credits |-> accounts[p].credits + OwedAt(t)[p],
                                        goods |-> accounts[p].goods + KeptAt(t)[p]]
               /\ accounts' = [p \in Pilots |-> accounts'[p]]
               /\ taken' = taken + SumFunctionOnSet(PaidAt(t), Homes)
                                 - (SumFunctionOnSet(BackAt(t), Ended(t))
                                    - SumFunctionOnSet(LeftAt(t), Homes))
               /\ SumFunctionOnSet(BackAt(t), Ended(t)) \in Int
<1> DEFINE t == now + n
           leases == {h \in Flats : IsHeld(h)}
           gone == {h \in Homes : IsHeld(h) /\ Ends(h, t)}
           charged == [h \in Homes |-> IF h \in leases THEN Charged(held[h], t) ELSE held[h]]
           back(h) == PaysBack(h, charged[h]) + ClearedOut(held[h]).credits
           goods(h) == ClearedOut(held[h]).goods
           mine(p) == {h \in Ended(t) : Holder(t)[h] = p}
<1>1. /\ accounts' = [p \in Pilots |->
              [credits |-> accounts[p].credits + SumFunction([h \in HeldBy(p) \cap gone |-> back(h)]),
               goods |-> accounts[p].goods + SumFunction([h \in HeldBy(p) \cap gone |-> goods(h)])]]
      /\ taken' = taken + SumFunction([h \in leases |-> Paid(held[h], t)])
                        - SumFunction([h \in gone |-> back(h) - charged[h].bank])
    BY DEF Tick
<1>2. gone = Ended(t) /\ leases \subseteq Homes BY DEF Ended, Homes
<1>3. \A h \in Homes : charged[h] = AtTick(h, t) BY DEF AtTick
<1> HIDE DEF gone, charged
<1>4. Ended(t) \subseteq Homes /\ IsFiniteSet(Ended(t)) /\ IsFiniteSet(leases)
    <2>1. Ended(t) \in SUBSET Homes /\ leases \in SUBSET Homes BY <1>2 DEF Ended
    <2> QED BY <2>1, Finite, FS_Subset
<1>5. \A h \in Homes :
         /\ PaidAt(t)[h] \in Nat /\ LeftAt(t)[h] \in Nat /\ OutAt(t)[h] \in Nat
         /\ h \in Ended(t) => /\ held[h].holder \in Pilots
                              /\ BackAt(t)[h] \in Nat
                              /\ ClearedOut(held[h]).goods = OutAt(t)[h]
    BY TickHas
<1>6. \A h \in Ended(t) : back(h) = BackAt(t)[h] /\ charged[h].bank = LeftAt(t)[h]
                          /\ goods(h) = OutAt(t)[h]
    BY <1>3, <1>4, <1>5 DEF BackAt, LeftAt
<1> HIDE DEF t, leases
<1>7. ASSUME NEW p \in Pilots
      PROVE  /\ SumFunction([h \in HeldBy(p) \cap gone |-> back(h)]) = OwedAt(t)[p]
             /\ SumFunction([h \in HeldBy(p) \cap gone |-> goods(h)]) = KeptAt(t)[p]
             /\ OwedAt(t)[p] \in Nat /\ KeptAt(t)[p] \in Nat
    <2>1. HeldBy(p) \cap gone = mine(p)
        BY <1>2 DEF HeldBy, Ended, Holder
    <2>2. mine(p) \subseteq Ended(t) /\ IsFiniteSet(mine(p)) BY <1>4, FS_Subset
    <2>3. OwedAt(t)[p] = SumFunctionOnSet(BackAt(t), mine(p))
          /\ KeptAt(t)[p] = SumFunctionOnSet(OutAt(t), mine(p))
        BY DEF OwedAt, KeptAt
    <2> DEFINE S == mine(p)
               f == [h \in S |-> back(h)]
               g == [h \in S |-> goods(h)]
    <2>4. DOMAIN f = S /\ DOMAIN g = S /\ \A h \in S : f[h] = back(h) /\ g[h] = goods(h) OBVIOUS
    <2>5. \A h \in S : /\ BackAt(t)[h] \in Int /\ f[h] = BackAt(t)[h]
                       /\ OutAt(t)[h] \in Int /\ g[h] = OutAt(t)[h]
                       /\ BackAt(t)[h] \in Nat /\ OutAt(t)[h] \in Nat
        <3> HIDE DEF f, g
        <3> TAKE h \in S
        <3>1. h \in Ended(t) /\ h \in Homes BY <1>4, <2>2
        <3>2. BackAt(t)[h] \in Nat /\ OutAt(t)[h] \in Nat BY <1>5, <3>1
        <3>3. f[h] = BackAt(t)[h] /\ g[h] = OutAt(t)[h] BY <1>6, <2>4, <3>1
        <3> QED BY <3>2, <3>3
    <2>6. SumFunction(f) = SumFunctionOnSet(f, DOMAIN f) /\ SumFunction(g) = SumFunctionOnSet(g, DOMAIN g)
        BY DEF SumFunction
    <2>7. /\ SumFunction([h \in HeldBy(p) \cap gone |-> back(h)]) = SumFunction(f)
          /\ SumFunction([h \in HeldBy(p) \cap gone |-> goods(h)]) = SumFunction(g)
        BY <2>1, Zenon
    <2> HIDE DEF f, g, S
    <2>8. IsFiniteSet(S) BY <2>2 DEF S
    <2>9. /\ SumFunctionOnSet(f, S) = SumFunctionOnSet(BackAt(t), S)
          /\ SumFunctionOnSet(g, S) = SumFunctionOnSet(OutAt(t), S)
        BY <2>5, <2>8, SumSame
    <2>10. SumFunctionOnSet(BackAt(t), S) \in Nat /\ SumFunctionOnSet(OutAt(t), S) \in Nat
        BY <2>5, <2>8, SumNat
    <2>11. SumFunction(f) = SumFunctionOnSet(BackAt(t), S) /\ SumFunction(g) = SumFunctionOnSet(OutAt(t), S)
        BY <2>4, <2>6, <2>9, Zenon
    <2> QED BY <2>3, <2>7, <2>10, <2>11, Zenon DEF S
<1>8. SumFunction([h \in leases |-> Paid(held[h], t)]) = SumFunctionOnSet(PaidAt(t), Homes)
    <2> DEFINE f == [h \in leases |-> Paid(held[h], t)]
    <2>1. DOMAIN f = leases /\ SumFunction(f) = SumFunctionOnSet(f, DOMAIN f) BY DEF SumFunction
    <2>2. \A h \in leases : PaidAt(t)[h] = f[h] /\ f[h] \in Int
        <3>1. \A h \in leases : h \in Homes /\ PaidAt(t)[h] = Paid(held[h], t)
            BY <1>2 DEF PaidAt, leases
        <3> QED BY <1>5, <3>1
    <2>3. \A h \in Homes \ leases : PaidAt(t)[h] = 0 BY DEF PaidAt, leases
    <2> HIDE DEF f
    <2>4. SumFunctionOnSet(PaidAt(t), Homes) = SumFunctionOnSet(f, leases)
        BY <1>2, <2>2, <2>3, Finite, SumPick
    <2> QED BY <2>1, <2>4, Zenon DEF f
<1>9. /\ SumFunction([h \in gone |-> back(h) - charged[h].bank]) =
             SumFunctionOnSet(BackAt(t), Ended(t)) - SumFunctionOnSet(LeftAt(t), Homes)
      /\ SumFunctionOnSet(BackAt(t), Ended(t)) \in Int
    <2> DEFINE E == Ended(t)
               f == [h \in E |-> back(h) - charged[h].bank]
    <2>1. DOMAIN f = E /\ SumFunction(f) = SumFunctionOnSet(f, DOMAIN f) BY DEF SumFunction
    <2>2. \A h \in E : f[h] = BackAt(t)[h] - LeftAt(t)[h] BY <1>6
    <2>3. SumFunction([h \in gone |-> back(h) - charged[h].bank]) = SumFunction(f) BY <1>2, Zenon
    <2> HIDE DEF f
    <2>4. \A h \in E : /\ BackAt(t)[h] \in Int /\ LeftAt(t)[h] \in Int /\ f[h] \in Int
                       /\ BackAt(t)[h] = f[h] + LeftAt(t)[h]
        BY <1>4, <1>5, <2>2
    <2>5. \A h \in Homes \ E : LeftAt(t)[h] = 0 BY DEF LeftAt
    <2>6. E \in SUBSET Homes /\ IsFiniteSet(E) BY <1>4
    <2> HIDE DEF E
    <2>7. SumFunctionOnSet(BackAt(t), E) = SumFunctionOnSet(f, E) + SumFunctionOnSet(LeftAt(t), E)
        BY <2>4, <2>6, SumPlus
    <2>8. SumFunctionOnSet(LeftAt(t), Homes) = SumFunctionOnSet(LeftAt(t), E)
        BY <2>4, <2>5, <2>6, Finite, SumPick
    <2>9. /\ SumFunctionOnSet(BackAt(t), E) \in Int /\ SumFunctionOnSet(f, E) \in Int
          /\ SumFunctionOnSet(LeftAt(t), E) \in Int
        BY <2>4, <2>6, SumType
    <2>10. SumFunctionOnSet(f, E) = SumFunctionOnSet(BackAt(t), E) - SumFunctionOnSet(LeftAt(t), Homes)
        BY <2>7, <2>8, <2>9
    <2> QED BY <2>1, <2>3, <2>9, <2>10, Zenon DEF E
<1>10. accounts' = [p \in Pilots |-> [credits |-> accounts[p].credits + OwedAt(t)[p],
                                      goods |-> accounts[p].goods + KeptAt(t)[p]]]
    <2> HIDE DEF back, goods
    <2> QED BY <1>1, <1>7
<1>11. taken' = taken + SumFunctionOnSet(PaidAt(t), Homes)
                      - (SumFunctionOnSet(BackAt(t), Ended(t)) - SumFunctionOnSet(LeftAt(t), Homes))
    BY <1>1, <1>8, <1>9, Zenon
<1>12. /\ \A p \in Pilots : accounts'[p] = [credits |-> accounts[p].credits + OwedAt(t)[p],
                                           goods |-> accounts[p].goods + KeptAt(t)[p]]
       /\ accounts' = [p \in Pilots |-> accounts'[p]]
    BY <1>10
<1> QED BY <1>7, <1>9, <1>11, <1>12, Zenon DEF t

LEMMA TickMoney ==
    ASSUME HomesInv, MoneyInv, NEW n \in 1..MaxDown, Tick(n)
    PROVE  MoneyInv'
<1> DEFINE t == now + n
           E == Ended(t)
<1>1. Purses /\ credits' = credits /\ stores' = stores BY DEF MoneyInv, Tick
<1>2. /\ \A p \in Pilots :
            /\ OwedAt(t)[p] \in Nat /\ KeptAt(t)[p] \in Nat
            /\ accounts'[p] = [credits |-> accounts[p].credits + OwedAt(t)[p],
                               goods |-> accounts[p].goods + KeptAt(t)[p]]
      /\ accounts' = [p \in Pilots |-> accounts'[p]]
      /\ taken' = taken + SumFunctionOnSet(PaidAt(t), Homes)
                        - (SumFunctionOnSet(BackAt(t), E) - SumFunctionOnSet(LeftAt(t), Homes))
      /\ SumFunctionOnSet(BackAt(t), E) \in Int
    BY TickPays, Zenon
<1>3. \A h \in Homes :
         /\ BankIn(held[h]) \in Nat /\ GoodsIn(held[h]) \in Nat
         /\ BankIn(held'[h]) \in Nat /\ GoodsIn(held'[h]) \in Nat
         /\ PaidAt(t)[h] \in Nat /\ LeftAt(t)[h] \in Nat /\ OutAt(t)[h] \in Nat
         /\ BankIn(held[h]) = BankIn(held'[h]) + PaidAt(t)[h] + LeftAt(t)[h]
         /\ GoodsIn(held[h]) = GoodsIn(held'[h]) + OutAt(t)[h]
         /\ h \in Ended(t) => held[h].holder \in Pilots /\ BackAt(t)[h] \in Nat
    BY TickHas
<1>4. E \in SUBSET Homes /\ IsFiniteSet(E)
    <2>1. E \in SUBSET Homes BY DEF Ended
    <2> QED BY <2>1, Finite, FS_Subset
<1> HIDE DEF t, E
<1>5. SumFunctionOnSet(OwedAt(t), Pilots) = SumFunctionOnSet(BackAt(t), E)
      /\ SumFunctionOnSet(KeptAt(t), Pilots) = SumFunctionOnSet(OutAt(t), E)
    <2>1. Keyed(BackAt(t), OwedAt(t), Holder(t), Pilots, E)
          /\ Keyed(OutAt(t), KeptAt(t), Holder(t), Pilots, E)
        <3>1. \A h \in E : /\ BackAt(t)[h] \in Int /\ OutAt(t)[h] \in Int
                           /\ Holder(t)[h] = held[h].holder /\ held[h].holder \in Pilots
            BY <1>3, <1>4 DEF E, Holder
        <3>2. \A p \in Pilots :
                 /\ OwedAt(t)[p] = SumFunctionOnSet(BackAt(t), {h \in E : Holder(t)[h] = p})
                 /\ KeptAt(t)[p] = SumFunctionOnSet(OutAt(t), {h \in E : Holder(t)[h] = p})
            BY DEF OwedAt, KeptAt, E
        <3> QED BY <3>1, <3>2, Zenon DEF Keyed
    <2> QED BY <1>4, <2>1, Finite, SumByKey
<1>6. SumFunctionOnSet(OutAt(t), Homes) = SumFunctionOnSet(OutAt(t), E)
    <2>1. \A h \in Homes \ E : OutAt(t)[h] = 0 BY DEF OutAt, E
    <2>2. \A h \in E : OutAt(t)[h] \in Int BY <1>3, <1>4
    <2> QED BY <1>4, <2>1, <2>2, Finite, SumPick
<1>7. \A p \in Pilots : /\ Owed(accounts)[p] \in Nat /\ Kept(accounts)[p] \in Nat
                        /\ Owed(accounts')[p] = Owed(accounts)[p] + OwedAt(t)[p]
                        /\ Kept(accounts')[p] = Kept(accounts)[p] + KeptAt(t)[p]
                        /\ OwedAt(t)[p] \in Nat /\ KeptAt(t)[p] \in Nat
    <2> TAKE p \in Pilots
    <2>1. accounts[p].credits \in Nat /\ accounts[p].goods \in Nat BY <1>1 DEF Purses
    <2>2. /\ accounts'[p].credits = accounts[p].credits + OwedAt(t)[p]
          /\ accounts'[p].goods = accounts[p].goods + KeptAt(t)[p]
        BY <1>2
    <2> QED BY <1>2, <2>1, <2>2 DEF Owed, Kept
<1>8. /\ SumFunctionOnSet(Owed(accounts'), Pilots) =
            SumFunctionOnSet(Owed(accounts), Pilots) + SumFunctionOnSet(OwedAt(t), Pilots)
      /\ SumFunctionOnSet(Kept(accounts'), Pilots) =
            SumFunctionOnSet(Kept(accounts), Pilots) + SumFunctionOnSet(KeptAt(t), Pilots)
    <2>1. \A p \in Pilots : /\ Owed(accounts)[p] \in Int /\ Kept(accounts)[p] \in Int
                            /\ OwedAt(t)[p] \in Int /\ KeptAt(t)[p] \in Int
                            /\ Owed(accounts')[p] = Owed(accounts)[p] + OwedAt(t)[p]
                            /\ Kept(accounts')[p] = Kept(accounts)[p] + KeptAt(t)[p]
        BY <1>7
    <2> QED BY <2>1, Finite, SumPlus
<1>9. /\ SumFunctionOnSet(Banks(held), Homes) = SumFunctionOnSet(Banks(held'), Homes)
             + SumFunctionOnSet(PaidAt(t), Homes) + SumFunctionOnSet(LeftAt(t), Homes)
      /\ SumFunctionOnSet(PaidAt(t), Homes) \in Int /\ SumFunctionOnSet(LeftAt(t), Homes) \in Int
      /\ SumFunctionOnSet(Banks(held'), Homes) \in Int
    <2> DEFINE f == [h \in Homes |-> BankIn(held'[h]) + PaidAt(t)[h]]
    <2>1. \A h \in Homes : /\ Banks(held')[h] \in Int /\ PaidAt(t)[h] \in Int /\ LeftAt(t)[h] \in Int
                           /\ f[h] \in Int /\ f[h] = Banks(held')[h] + PaidAt(t)[h]
                           /\ Banks(held)[h] = f[h] + LeftAt(t)[h]
        BY <1>3 DEF Banks
    <2> HIDE DEF f
    <2>2. SumFunctionOnSet(f, Homes) = SumFunctionOnSet(Banks(held'), Homes) + SumFunctionOnSet(PaidAt(t), Homes)
        BY <2>1, Finite, SumPlus
    <2>3. SumFunctionOnSet(Banks(held), Homes) = SumFunctionOnSet(f, Homes) + SumFunctionOnSet(LeftAt(t), Homes)
        BY <2>1, Finite, SumPlus
    <2>4. /\ SumFunctionOnSet(PaidAt(t), Homes) \in Int /\ SumFunctionOnSet(LeftAt(t), Homes) \in Int
          /\ SumFunctionOnSet(Banks(held'), Homes) \in Int
        BY <2>1, Finite, SumType
    <2> QED BY <2>2, <2>3, <2>4
<1>10. SumFunctionOnSet(Stocks(held), Homes) = SumFunctionOnSet(Stocks(held'), Homes)
             + SumFunctionOnSet(OutAt(t), Homes)
       /\ SumFunctionOnSet(Stocks(held'), Homes) \in Int /\ SumFunctionOnSet(OutAt(t), Homes) \in Int
    <2>1. \A h \in Homes : /\ Stocks(held')[h] \in Int /\ OutAt(t)[h] \in Int
                           /\ Stocks(held)[h] = Stocks(held')[h] + OutAt(t)[h]
        BY <1>3 DEF Stocks
    <2> QED BY <2>1, Finite, SumPlus, SumType
<1>11. /\ SumFunctionOnSet(credits, Pilots) \in Int /\ SumFunctionOnSet(stores, Pilots) \in Int
       /\ SumFunctionOnSet(Owed(accounts), Pilots) \in Int
       /\ SumFunctionOnSet(Kept(accounts), Pilots) \in Int /\ taken \in Int
    BY <1>1, SumsAre DEF Purses
<1>12. AllCredits(credits', accounts', held') + taken' = AllCredits(credits, accounts, held) + taken
    <2>1. AllCredits(credits', accounts', held') = AllCredits(credits, accounts', held') BY <1>1
    <2> DEFINE b == SumFunctionOnSet(BackAt(t), E)
    <2>2. b \in Int /\ SumFunctionOnSet(OwedAt(t), Pilots) = b
          /\ taken' = taken + SumFunctionOnSet(PaidAt(t), Homes) - (b - SumFunctionOnSet(LeftAt(t), Homes))
        BY <1>2, <1>5
    <2> HIDE DEF b
    <2> QED BY <1>8, <1>9, <1>11, <2>1, <2>2 DEF AllCredits
<1>13. AllGoods(stores', accounts', held') = AllGoods(stores, accounts, held)
    <2>1. AllGoods(stores', accounts', held') = AllGoods(stores, accounts', held') BY <1>1
    <2> QED BY <1>5, <1>6, <1>8, <1>10, <1>11, <2>1 DEF AllGoods
<1>14. Purses'
    <2>1. \A p \in Pilots : accounts'[p] \in [credits : Nat, goods : Nat]
        <3> TAKE p \in Pilots
        <3>1. accounts[p].credits \in Nat /\ accounts[p].goods \in Nat BY <1>1 DEF Purses
        <3>2. /\ accounts[p].credits + OwedAt(t)[p] \in Nat /\ accounts[p].goods + KeptAt(t)[p] \in Nat
            BY <1>7, <3>1
        <3> QED BY <1>2, <3>2
    <2>2. accounts' \in [Pilots -> [credits : Nat, goods : Nat]] BY <1>2, <2>1
    <2>3. taken' \in Int BY <1>2, <1>9, <1>11
    <2> QED BY <1>1, <2>2, <2>3 DEF Purses
<1> QED BY <1>12, <1>13, <1>14 DEF MoneyInv

-----------------------------------------------------------------------------
LEMMA MoneyInit == Init => MoneyInv
<1> SUFFICES ASSUME Init PROVE MoneyInv OBVIOUS
<1>1. /\ accounts = [p \in Pilots |-> Nothing] /\ taken = 0
      /\ credits = Credits /\ stores = Goods /\ held = [h \in Homes |-> NotHeld]
    BY DEF Init
<1>2. Nothing \in [credits : Nat, goods : Nat] /\ Nothing.credits = 0 /\ Nothing.goods = 0
    BY DEF Nothing
<1>3. Credits \in [Pilots -> Nat] /\ Goods \in [Pilots -> Nat] BY HomesAssumption
<1>4. Purses BY <1>1, <1>2, <1>3 DEF Purses
<1>5. \A h \in Homes : Banks(held)[h] = 0 /\ Stocks(held)[h] = 0
    BY <1>1, NoHomeHas DEF Banks, Stocks
<1>6. \A p \in Pilots : Owed(accounts)[p] = 0 /\ Kept(accounts)[p] = 0
    BY <1>1, <1>2 DEF Owed, Kept
<1>7. /\ SumFunctionOnSet(Banks(held), Homes) = Cardinality(Homes) * 0
      /\ SumFunctionOnSet(Stocks(held), Homes) = Cardinality(Homes) * 0
      /\ SumFunctionOnSet(Owed(accounts), Pilots) = Cardinality(Pilots) * 0
      /\ SumFunctionOnSet(Kept(accounts), Pilots) = Cardinality(Pilots) * 0
    BY <1>5, <1>6, Finite, SumConstant
<1>8. Cardinality(Homes) \in Nat /\ Cardinality(Pilots) \in Nat BY Finite, FS_CardinalityType
<1>9. SumFunctionOnSet(Credits, Pilots) \in Int /\ SumFunctionOnSet(Goods, Pilots) \in Int
    BY <1>3, Finite, SumType
<1>10. credits = Credits /\ stores = Goods /\ taken = 0 BY <1>1
<1> QED BY <1>4, <1>7, <1>8, <1>9, <1>10 DEF MoneyInv, AllCredits, AllGoods

LEMMA MoneyStep ==
    ASSUME HomesInv, MoneyInv, [Next]_vars
    PROVE  MoneyInv'
<1>1. CASE UNCHANGED vars
    <2>1. UNCHANGED money /\ held' = held BY <1>1 DEF vars
    <2>2. HomesKeep BY <2>1 DEF HomesKeep
    <2> QED BY <2>1, <2>2, KeepsMoney
<1>2. CASE \E n \in 1..MaxDown : Tick(n) \/ Hold(n)
    <2>1. ASSUME NEW n \in 1..MaxDown, Hold(n) PROVE MoneyInv'
        <3>1. UNCHANGED money BY <2>1 DEF Hold
        <3> QED BY <2>1, <3>1, HoldStep, KeepsMoney
    <2> QED BY <1>2, <2>1, TickMoney
<1>3. ASSUME NEW p \in Pilots, Collect(p) \/ Wake(p) \/ \E h \in Homes : Asks(p, h)
      PROVE  MoneyInv'
    <2>1. CASE Collect(p) BY <2>1, CollectMoney
    <2>2. CASE Wake(p)
        <3>1. PICK h \in Homes : IsHeld(h) BY <2>2 DEF Wake
        <3>2. HomesKeep BY <2>2, SleepStep
        <3>3. UNCHANGED money BY <2>2 DEF Wake
        <3> QED BY <3>2, <3>3, KeepsMoney
    <2>3. ASSUME NEW h \in Homes, Asks(p, h) PROVE MoneyInv'
        <3>1. CASE Take(p, h) \/ GiveUp(p, h) BY <3>1, TakeMoney, GiveUpMoney
        <3>2. CASE Visited(p, h) \/ Feed(p, h, 1) \/ Withdraw(p, h, 1)
            BY <3>2, VisitedMoney, BankMoney
        <3>3. ASSUME UNCHANGED money, HomesKeep PROVE MoneyInv' BY <3>3, KeepsMoney
        <3>4. CASE \E c \in Codes : SetCode(p, h, c) \/ \E over \in BOOLEAN : EnterCode(p, h, c, over)
            <4>1. UNCHANGED money BY <3>4 DEF SetCode, EnterCode
            <4>2. HomesKeep BY <3>4, SetCodeStep, EnterCodeStep
            <4> QED BY <3>3, <4>1, <4>2
        <3>5. CASE \E c \in Codes \cup {NoCode} : SetGuestCode(p, h, c)
            <4>1. UNCHANGED money BY <3>5 DEF SetGuestCode
            <4>2. HomesKeep BY <3>5, SetGuestCodeStep
            <4> QED BY <3>3, <4>1, <4>2
        <3>6. CASE LeaveCrew(p, h) \/ ClearCrew(p, h)
            <4>1. UNCHANGED money BY <3>6 DEF LeaveCrew, ClearCrew
            <4>2. HomesKeep BY <3>6, LeaveCrewStep, ClearCrewStep
            <4> QED BY <3>3, <4>1, <4>2
        <3>7. CASE \E kind \in Furniture : Furnish(p, h, kind) BY <3>7, FurnishMoney
        <3>8. CASE IsHeld(h) /\ \E q \in held[h].pieces :
                      SellPiece(p, h, q) \/ Stash(p, h, q) \/ Unstash(p, h, q)
            BY <3>8, PieceMoney
        <3>9. CASE Sleep(p, h)
            <4>1. UNCHANGED money BY <3>9 DEF Sleep
            <4>2. HomesKeep BY <3>9, SleepStep
            <4> QED BY <3>3, <4>1, <4>2
        <3> QED BY <2>3, <3>1, <3>2, <3>4, <3>5, <3>6, <3>7, <3>8, <3>9 DEF Asks
    <2> QED BY <1>3, <2>1, <2>2, <2>3
<1> QED BY <1>1, <1>2, <1>3 DEF Next

(* No credit and no good is made or lost in the register of homes: what is in the hangars, on
   the panels, put away and owed in the bays is what there was, less what the colony took for
   itself, however leases are charged, run dry, end or are given up, furniture is bought and
   sold and goods put away; and no amount goes below zero (Homes::rent, buy, give_up, feed,
   withdraw, furnish, sell_piece, stash, unstash, tick and collect). *)
THEOREM HomesConserve == Spec => []Conserved
<1>1. Init => HomesInv /\ MoneyInv BY HomesInvInit, MoneyInit
<1>2. HomesInv /\ MoneyInv /\ [Next]_vars => (HomesInv /\ MoneyInv)' BY HomesInvStep, MoneyStep
<1>3. HomesInv /\ MoneyInv => Conserved BY ConservedFollows
<1> QED BY <1>1, <1>2, <1>3, PTL DEF Spec
=============================================================================
