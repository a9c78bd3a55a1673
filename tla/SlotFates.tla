----------------------------- MODULE SlotFates -----------------------------
(***************************************************************************)
(* Where every suit is, as the sector, the sessions and the pilots' records *)
(* have it: a record that writes a suit off is of one that was destroyed,  *)
(* and SlotLease implements Sortie.                                        *)
(***************************************************************************)
EXTENDS SlotLeaseProofs

-----------------------------------------------------------------------------
(* What becomes of a pilot's last suit, and what their record and their session make of
   it, when nobody stops waiting and nothing is torn. *)
Dead == {"wreck", "destroyed"}
Sound == {"unlaunched", "docked", "released", "evicted"}
Slept == {"asleep", "evicted", "wreck", "destroyed"}
Awake == {"Fresh", "Woke", "Released", "Docked", "Lost"}

Now(p) == IF LastSuit(p) = NoSuit THEN "unborn" ELSE life[LastSuit(p)]
Is(p, id) == id = NoSuit \/ id = LastSuit(p)
Sleeping(s) == \E i \in DOMAIN control : control[i].op = "Sleep" /\ control[i].slot = s
Storable(s, os) == \A i \in DOMAIN todo : IsStore(todo[i], s) => todo[i].val.outcome \in os
Outcome(s, os) == Storable(s, os) /\ (~Storing(s) => status[s].outcome \in os)
NotSlept(s) == Storable(s, Awake) /\ status[s].outcome \in Awake

(* Slot s tells, or is to tell, that suit id is asleep. *)
SaysAsleep(s, id) ==
    /\ \A i \in DOMAIN todo : IsStore(todo[i], s) => todo[i].val.outcome = "Asleep" /\ todo[i].val.suit = id
    /\ ~Storing(s) \/ status[s].state = "Free" => status[s].outcome = "Asleep" /\ status[s].suit = id

(* Pilot p left their suit, and it sleeps or slept: the record says so, or is about to. *)
Abed(p) ==
    /\ sleeper[p] # NoSuit /\ suit[p] = NoSuit
    /\ ~(pc[p] = "seating" /\ client[slot[p]].active)
Nodding(p) ==
    /\ pc[p] = "freeing" /\ ~lost[p] /\ Now(p) \in Slept
    /\ SaysAsleep(slot[p], LastSuit(p)) /\ ~Sleeping(slot[p])

(* All that refers to a suit of pilot p's refers to their last. *)
LastFits(p) ==
    /\ Is(p, sleeper[p]) /\ Is(p, suit[p])
    /\ slot[p] \in Slots => (client[slot[p]].active => client[slot[p]].suit = LastSuit(p))
    /\ \A i \in DOMAIN control : control[i].op = "Join" /\ control[i].who = p =>
          /\ control[i].wake = sleeper[p]
          /\ control[i].launch = IF sleeper[p] = NoSuit THEN LastSuit(p) ELSE NoSuit

(* The bay is Out while the suit is; and what it says then is so. *)
BayFits(p) ==
    /\ bay[p] = "out" <=> \/ pc[p] \in {"asking", "seating"} \/ sleeper[p] # NoSuit
                          \/ suit[p] # NoSuit /\ ~lost[p]
    /\ pc[p] \in {"play", "docking", "freeing"} => sleeper[p] = NoSuit
    /\ pc[p] = "entered" /\ suit[p] # NoSuit => sleeper[p] # NoSuit /\ ~lost[p]
    /\ poll[p] = "Woke" <=> pc[p] = "entered" /\ suit[p] # NoSuit
    /\ bay[p] \in {"empty", "new"} => LastSuit(p) = NoSuit \/ Now(p) \in Dead
    /\ bay[p] = "docked" => Now(p) \in Sound

(* What the answer to a join says of the suit that was to be launched or woken. *)
SeatFits(p) ==
    /\ pc[p] = "asking" \/ (pc[p] = "seating" /\ Joining(slot[p])) =>
          (sleeper[p] = NoSuit => Now(p) = "queued")
    /\ Seat(p) => IF client[slot[p]].active
                  THEN Outcome(slot[p], Awake) /\ (sleeper[p] # NoSuit => Outcome(slot[p], {"Woke"}))
                  ELSE Now(p) \in IF sleeper[p] = NoSuit THEN {"unlaunched"} ELSE Slept \ {"asleep"}
    /\ Abed(p) => Now(p) \in Slept /\ (pc[p] = "entered" => Now(p) # "asleep")

(* What has become of a suit that is out, if it isn't seated any more. *)
OutFits(p) ==
    suit[p] # NoSuit =>
        IF client[slot[p]].active THEN NotSlept(slot[p])
        ELSE \/ Now(p) = "destroyed" /\ NotSlept(slot[p])
             \/ Now(p) = "docked" /\ NotSlept(slot[p]) /\ Flying(slot[p], {"Home"})
             \/ Nodding(p)

(* What is told of the suit is so. *)
ToldFits(p) ==
    slot[p] \in Slots => /\ Flying(slot[p], {"Home"}) => Now(p) = "docked"
                         /\ Flying(slot[p], Losses) => Now(p) \in Dead

(* A session asks once to let its suit sleep. *)
SleepsOnce(p) ==
    suit[p] # NoSuit =>
        \A i \in DOMAIN control : control[i].op = "Sleep" /\ control[i].slot = slot[p] =>
            /\ pc[p] = "freeing"
            /\ \A j \in DOMAIN control : control[j].op = "Sleep" /\ control[j].slot = slot[p] => i = j

Fate(p) == LastFits(p) /\ BayFits(p) /\ SeatFits(p) /\ OutFits(p) /\ ToldFits(p) /\ SleepsOnce(p)
FateInv == \A p \in Pilots : Fate(p)

(* A homecoming finds room in the ring of the slot it is told to. *)
HomeFits ==
    todo # <<>> /\ Head(todo).kind = "report" /\ Head(todo).val.what = "Home" =>
        Len(reports[Head(todo).slot]) < ReportCap

-----------------------------------------------------------------------------
(* What is noted of sleepers. *)
AsleepInv ==
    \A id \in Ids : life[id] = "asleep" =>
        /\ owner[id] \in Pilots /\ LastSuit(owner[id]) = id
        /\ sleeper[owner[id]] # NoSuit \/ suit[owner[id]] # NoSuit

(* Pilot p's sleeper was destroyed. *)
Gone(p) ==
    /\ Now(p) \in Dead
    /\ Abed(p) \/ (suit[p] # NoSuit /\ ~client[slot[p]].active /\ Nodding(p))

Of(n, p) == bound[n.suit] = p
Unnoted(p) == \A i \in DOMAIN todo : todo[i].kind = "note" => ~Of(todo[i].val, p)
Known(p) == news[p] = "Destroyed" /\ Unnoted(p) /\ \A i \in DOMAIN notes : ~Of(notes[i], p)
Noted(p) ==
    /\ Unnoted(p)
    /\ \E k \in DOMAIN notes : /\ Of(notes[k], p) /\ notes[k].fate = "Destroyed"
                               /\ \A j \in DOMAIN notes : k < j => ~Of(notes[j], p)
Noting(p) ==
    /\ pc[p] # "entered" /\ ~Seat(p)
    /\ \A i \in DOMAIN notes : notes[i].suit # LastSuit(p)
    /\ \E k \in DOMAIN todo :
          /\ todo[k].kind = "note" /\ todo[k].val = [suit |-> LastSuit(p), fate |-> "Destroyed"]
          /\ bound[LastSuit(p)] = p
          /\ \A j \in DOMAIN todo : j < k => todo[j].kind = "note" /\ todo[j].val.suit # LastSuit(p)
          /\ \A j \in DOMAIN todo : k < j => todo[j].kind # "note"
NoteFits(n) ==
    /\ life[n.suit] \in IF n.fate = "Lost" THEN {"evicted"} ELSE Dead
    /\ n.fate = "Destroyed" => \A p \in Pilots : Of(n, p) => n.suit = LastSuit(p) /\ Gone(p)
    /\ \A s \in Slots : client[s].active => client[s].suit # n.suit
BoundFits(p) ==
    /\ Now(p) = "asleep" => bound[LastSuit(p)] = p
    /\ suit[p] # NoSuit /\ client[slot[p]].active => bound[LastSuit(p)] = p
NewsFits(p) ==
    /\ news[p] = "Destroyed" => Gone(p)
    /\ Gone(p) => /\ Known(p) \/ Noted(p) \/ Noting(p)
                  /\ \A i \in DOMAIN fates : ~Of(fates[i], p)
Posted(n) == \E i \in DOMAIN notes : notes[i] = n
Posting(n) == \E i \in DOMAIN todo : todo[i].kind = "note" /\ todo[i].val = n
Due(n) == \E i \in DOMAIN fates : fates[i] = n
NewsInv ==
    /\ inHand = <<>>
    /\ \A n \in Fates : /\ Posted(n) \/ Posting(n) \/ Due(n) => NoteFits(n)
                        /\ Due(n) => n.fate = "Lost"
    /\ \A id \in Ids : bound[id] # NoPilot => bound[id] = owner[id]
    /\ \A p \in Pilots : BoundFits(p) /\ NewsFits(p)

-----------------------------------------------------------------------------
(* What a slot says is what is written there, and to be written. *)
LEMMA StaysSaid ==
    ASSUME UNCHANGED <<todo, status>>
    PROVE  \A s : /\ Storing(s)' <=> Storing(s)
                  /\ \A os : (Storable(s, os)' <=> Storable(s, os)) /\ (Outcome(s, os)' <=> Outcome(s, os))
                  /\ NotSlept(s)' <=> NotSlept(s)
                  /\ \A id : SaysAsleep(s, id)' <=> SaysAsleep(s, id)
<1>1. \A s : (Storing(s)' <=> Storing(s)) /\ \A os : Storable(s, os)' <=> Storable(s, os)
      BY DEF Storing, Storable
<1> QED BY <1>1 DEF Outcome, NotSlept, SaysAsleep

(* A step of pilot p's session, as the other pilots' suits see it. *)
FateStep(p) ==
    /\ SessionStep(p) /\ FateInv
    /\ \A q \in Pilots : q # p => bay'[q] = bay[q] /\ poll'[q] = poll[q]

LEMMA LastStays ==
    ASSUME NEW p \in Pilots, SessionStep(p), NEW q \in Pilots, q # p \/ UNCHANGED <<life, owner, launched>>
    PROVE  LastSuit(q)' = LastSuit(q) /\ Now(q)' = Now(q)
<1>1. LastSuit(q)' = LastSuit(q)
  <2>1. CASE UNCHANGED <<life, owner, launched>>
        BY <2>1 DEF LastSuit
  <2> QED BY <2>1, LaunchFacts
<1>2. LastSuit(q) # NoSuit => life'[LastSuit(q)] = life[LastSuit(q)]
  <2>1. ASSUME LastSuit(q) # NoSuit PROVE LastSuit(q) \in Ids /\ owner[LastSuit(q)] \in Pilots
        BY <2>1, LastSuitIs
  <2> QED BY <2>1, LaunchFacts
<1> QED BY <1>1, <1>2 DEF Now

(* The other pilots' slots. *)
LEMMA OtherSlots ==
    ASSUME NEW p \in Pilots, SessionStep(p), NEW q \in Pilots, q # p, NEW s \in Slots, s = slot[q]
    PROVE  /\ Joining(s)' <=> Joining(s)
           /\ Sleeping(s)' <=> Sleeping(s)
           /\ \A what : Flying(s, what)' <=> Flying(s, what)
           /\ \A i \in DOMAIN control' : control'[i].slot = s => i \in DOMAIN control /\ control'[i] = control[i]
<1>1. s # slot[p]
      BY SessionFacts
<1>2. Joining(s)' <=> Joining(s)
      BY <1>1, SessionFacts
<1>3. reports'[s] = reports[s]
      BY <1>1 DEF SessionStep, SessionMoves
<1>4. \A what : Flying(s, what)' <=> Flying(s, what)
      BY <1>3, SessionFacts DEF Flying, Rung
<1>5. \A i \in DOMAIN control' : control'[i].slot = s => i \in DOMAIN control /\ control'[i] = control[i]
      BY <1>1, ControlFacts DEF Asks
<1>6. \A i \in DOMAIN control : i \in DOMAIN control' /\ control'[i] = control[i]
      BY AskedAfter DEF SessionStep, SessionMoves, TypeInv
<1>7. Sleeping(s)' <=> Sleeping(s)
      BY <1>5, <1>6 DEF Sleeping
<1> QED BY <1>2, <1>4, <1>5, <1>7

LEMMA OthersFate ==
    ASSUME NEW p \in Pilots, FateStep(p), NEW q \in Pilots, q # p
    PROVE  Fate(q)'
<1>1. SessionStep(p) /\ Fate(q) /\ bay'[q] = bay[q] /\ poll'[q] = poll[q]
      BY DEF FateStep, FateInv
<1>2. /\ pc'[q] = pc[q] /\ slot'[q] = slot[q] /\ suit'[q] = suit[q] /\ lost'[q] = lost[q]
      /\ sleeper'[q] = sleeper[q] /\ client' = client /\ status' = status /\ todo' = todo
      BY <1>1, OthersAre DEF SessionStep, SessionMoves
<1>3. LastSuit(q)' = LastSuit(q) /\ Now(q)' = Now(q)
      BY <1>1, LastStays
<1>4. pc[q] # "away" => slot[q] \in Slots
      BY <1>1, SessionFacts
<1>5. suit[q] # NoSuit => slot[q] \in Slots
      BY <1>1, <1>4 DEF SessionStep, CalmInv, PhaseInv
<1>6. slot[q] \in Slots => /\ Joining(slot[q])' <=> Joining(slot[q])
                           /\ Sleeping(slot[q])' <=> Sleeping(slot[q])
                           /\ \A what : Flying(slot[q], what)' <=> Flying(slot[q], what)
      BY <1>1, <1>2, OtherSlots
<1>7. \A s : /\ \A os : Outcome(s, os)' <=> Outcome(s, os)
             /\ NotSlept(s)' <=> NotSlept(s)
             /\ \A id : SaysAsleep(s, id)' <=> SaysAsleep(s, id)
      BY <1>2, StaysSaid
<1>8. pc[q] = "seating" => (Seat(q)' <=> Seat(q))
      BY <1>2, <1>4, <1>6 DEF Seat
<1>a. LastFits(q)'
  <2>1. \A i \in DOMAIN control' : control'[i].op = "Join" /\ control'[i].who = q =>
           i \in DOMAIN control /\ control'[i] = control[i]
        BY <1>1, ControlFacts DEF Asks
  <2> QED BY <1>1, <1>2, <1>3, <2>1 DEF Fate, LastFits, Is
<1>b. BayFits(q)'
      BY <1>1, <1>2, <1>3 DEF Fate, BayFits
<1>c. SeatFits(q)'
  <2>1. Abed(q)' <=> Abed(q)
        BY <1>2 DEF Abed
  <2>2. Seat(q)' <=> Seat(q)
        BY <1>2, <1>8 DEF Seat
  <2>3. Seat(q) => pc[q] = "seating"
        BY DEF Seat
  <2> QED BY <1>1, <1>2, <1>3, <1>4, <1>6, <1>7, <2>1, <2>2, <2>3 DEF Fate, SeatFits
<1>d. OutFits(q)'
  <2>1. suit[q] # NoSuit => (Nodding(q)' <=> Nodding(q))
        BY <1>2, <1>3, <1>5, <1>6, <1>7 DEF Nodding
  <2> QED BY <1>1, <1>2, <1>3, <1>5, <1>6, <1>7, <2>1 DEF Fate, OutFits
<1>e. ToldFits(q)'
      BY <1>1, <1>2, <1>3, <1>6 DEF Fate, ToldFits
<1>f. SleepsOnce(q)'
  <2>1. slot[q] \in Slots => \A i \in DOMAIN control' : control'[i].slot = slot[q] =>
           i \in DOMAIN control /\ control'[i] = control[i]
        BY <1>1, OtherSlots
  <2> QED BY <1>1, <1>2, <1>5, <2>1 DEF Fate, SleepsOnce
<1> QED BY <1>a, <1>b, <1>c, <1>d, <1>e, <1>f DEF Fate

-----------------------------------------------------------------------------
(* A session at play or on its way out goes on, and nothing becomes of the suit. *)
Outdoors == {"play", "docking", "freeing"}
Quiet(p) ==
    /\ slot'[p] = slot[p] /\ suit'[p] = suit[p] /\ lost'[p] = lost[p]
    /\ sleeper'[p] = sleeper[p] /\ poll'[p] = poll[p]
    /\ pc[p] \in Outdoors \cup {"towing", "awaitTow"} /\ pc[p] # "freeing"
    /\ pc'[p] \in Outdoors \cup {"towing", "awaitTow", "returning"}
    /\ pc'[p] \in Outdoors => pc[p] \in Outdoors
    /\ bay'[p] = bay[p] \/ (bay[p] = "empty" /\ bay'[p] = "new")
    /\ UNCHANGED <<life, owner, launched>>
    /\ suit[p] # NoSuit => reports'[slot[p]] = reports[slot[p]]

LEMMA QuietFate ==
    ASSUME NEW p \in Pilots, SessionStep(p), Fate(p), Quiet(p)
    PROVE  Fate(p)'
<1>1. LastSuit(p)' = LastSuit(p) /\ Now(p)' = Now(p)
      BY LastStays DEF Quiet
<1>2. client' = client /\ status' = status /\ todo' = todo /\ slot[p] \in Slots /\ slot'[p] = slot[p]
      BY SessionFacts DEF Quiet, SessionStep, SessionMoves, Outdoors
<1>3. PICK s \in Slots : s = slot[p]
      BY <1>2
<1>4. \A w : Flying(s, w)' => Flying(s, w)
      BY SessionFacts
<1>5. suit[p] # NoSuit => pc[p] \in {"play", "docking"}
      BY DEF Quiet, Outdoors, SessionStep, CalmInv, PhaseInv
<1>6. NotSlept(s)' <=> NotSlept(s)
      BY <1>2, StaysSaid
<1>7. \A i \in DOMAIN control' :
         \/ i \in DOMAIN control /\ control'[i] = control[i]
         \/ Asks(p, control'[i]) /\ i \notin DOMAIN control /\ \A j \in DOMAIN control' : j = i \/ j \in DOMAIN control
      BY ControlFacts
<1>8. pc[p] # "asking" /\ pc'[p] # "asking" /\ pc[p] # "seating" /\ pc'[p] # "seating" /\ pc'[p] # "entered"
      /\ pc[p] # "entered"
      BY DEF Quiet, Outdoors
<1>a. LastFits(p)'
  <2>1. \A i \in DOMAIN control' : control'[i].op = "Join" => i \in DOMAIN control /\ control'[i] = control[i]
        BY <1>7, <1>8 DEF Asks
  <2> QED BY <1>1, <1>2, <2>1 DEF Fate, LastFits, Is, Quiet
<1>b. BayFits(p)'
      BY <1>1, <1>8 DEF Fate, BayFits, Quiet, Outdoors
<1>c. SeatFits(p)'
  <2>1. Abed(p)' => Abed(p)
        BY <1>8 DEF Abed, Quiet
  <2>2. ~Seat(p)'
        BY <1>8 DEF Seat
  <2> QED BY <1>1, <1>8, <2>1, <2>2 DEF Fate, SeatFits
<1>d. OutFits(p)'
  <2> SUFFICES ASSUME suit[p] # NoSuit, ~client[s].active => Now(p) = "destroyed" \/ (Now(p) = "docked" /\ Flying(s, {"Home"})),
                      NotSlept(s)
               PROVE  OutFits(p)'
    <3>1. ~Nodding(p) \/ suit[p] = NoSuit
          BY <1>5 DEF Nodding
    <3>2. suit[p] = NoSuit => OutFits(p)'
          BY DEF OutFits, Quiet
    <3> QED BY <1>3, <3>1, <3>2 DEF Fate, OutFits
  <2>1. Flying(s, {"Home"})' <=> Flying(s, {"Home"})
    <3>1. reports'[s] = reports[s]
          BY <1>3 DEF Quiet
    <3> QED BY <1>2, <3>1 DEF Flying, Owed, Rung
  <2> QED BY <1>1, <1>2, <1>3, <1>6, <2>1 DEF OutFits
<1>e. ToldFits(p)'
      BY <1>1, <1>2, <1>3, <1>4 DEF Fate, ToldFits
<1>f. SleepsOnce(p)'
  <2> SUFFICES ASSUME suit[p] # NoSuit, NEW i \in DOMAIN control', control'[i].op = "Sleep", control'[i].slot = s
               PROVE  /\ pc'[p] = "freeing"
                      /\ \A j \in DOMAIN control' : control'[j].op = "Sleep" /\ control'[j].slot = s => i = j
      BY <1>3 DEF SleepsOnce, Quiet
  <2>1. \A j \in DOMAIN control : ~(control[j].op = "Sleep" /\ control[j].slot = s)
        BY <1>3, <1>5 DEF Fate, SleepsOnce
  <2>2. Asks(p, control'[i]) /\ i \notin DOMAIN control /\ \A j \in DOMAIN control' : j = i \/ j \in DOMAIN control
        BY <1>7, <2>1
  <2>3. \A j \in DOMAIN control' : control'[j].op = "Sleep" /\ control'[j].slot = s => j = i
        BY <1>7, <2>1, <2>2
  <2> QED BY <2>2, <2>3 DEF Asks
<1> QED BY <1>a, <1>b, <1>c, <1>d, <1>e, <1>f DEF Fate

LEMMA QuietSteps ==
    ASSUME NEW p \in Pilots, SessionStep(p), Calm,
           \/ Dock(p) \/ Eject(p) \/ Leave(p) \/ AskTow(p) \/ AwaitTow(p) \/ GiveUpTow(p) \/ GiveUpDock(p)
           \/ Refit(p)
    PROVE  Quiet(p)
<1>1. /\ UNCHANGED <<life, owner, launched, slot, suit, lost, sleeper, poll>>
      /\ pc \in [Pilots -> PCs] /\ bay \in [Pilots -> {"new", "docked", "out", "empty"}]
      BY DEF Dock, Eject, Leave, AskTow, AwaitTow, GiveUpTow, GiveUpDock, Refit, sim, record, session,
             SessionStep, TypeInv, LeaseInv, TaskTypes
<1>2. bay'[p] = bay[p] \/ (bay[p] = "empty" /\ bay'[p] = "new")
      BY <1>1 DEF Dock, Eject, Leave, AskTow, AwaitTow, GiveUpTow, GiveUpDock, Refit, record
<1>3. suit[p] # NoSuit => pc[p] # "awaitTow"
      BY DEF SessionStep, CalmInv, PhaseInv
<1>4. suit[p] # NoSuit => reports'[slot[p]] = reports[slot[p]]
      BY <1>3 DEF Dock, Eject, Leave, AskTow, AwaitTow, GiveUpTow, GiveUpDock, Refit, shared
<1>5. CASE Dock(p) \/ Eject(p) \/ Refit(p) \/ Leave(p)
  <2>1. pc[p] = "play" /\ pc'[p] \in {"play", "docking", "freeing", "towing", "returning"}
        BY <1>1, <1>5 DEF Dock, Eject, Refit, Leave, session
  <2> QED BY <1>1, <1>2, <1>4, <2>1 DEF Quiet, Outdoors
<1>6. CASE GiveUpDock(p)
  <2>1. pc[p] = "docking" /\ pc'[p] = "play"
        BY <1>1, <1>6 DEF GiveUpDock
  <2> QED BY <1>1, <1>2, <1>4, <2>1 DEF Quiet, Outdoors
<1>7. CASE AskTow(p) \/ AwaitTow(p) \/ GiveUpTow(p)
  <2>1. pc[p] \in {"towing", "awaitTow"} /\ pc'[p] \in {"awaitTow", "returning"}
        BY <1>1, <1>7 DEF AskTow, AwaitTow, GiveUpTow
  <2> QED BY <1>1, <1>2, <1>4, <2>1 DEF Quiet, Outdoors
<1> QED BY <1>5, <1>6, <1>7

(* A session after whose step its pilot has no suit aboard. *)
LEMMA IdleFate ==
    ASSUME NEW p \in Pilots, SessionStep(p), Fate(p), UNCHANGED <<life, owner, launched>>,
           suit'[p] = NoSuit, pc'[p] # "seating", pc'[p] = "asking" => sleeper'[p] # NoSuit,
           \/ slot'[p] = slot[p] \/ slot'[p] \notin Slots
           \/ ~client[slot'[p]].active /\ ~Flying(slot'[p], Says),
           Is(p, sleeper'[p]), BayFits(p)',
           sleeper'[p] # NoSuit => Now(p) \in Slept /\ (pc'[p] = "entered" => Now(p) # "asleep")
    PROVE  Fate(p)'
<1>1. LastSuit(p)' = LastSuit(p) /\ Now(p)' = Now(p)
      BY LastStays
<1>2. client' = client
      BY DEF SessionStep, SessionMoves
<1>3. CalmInv'
      BY SessionCalm
<1>4. \A s \in Slots : \A w : Flying(s, w)' => Flying(s, w)
      BY SessionFacts
<1>5. \A s : \A w \in {{"Home"}, Losses} : Flying(s, w) => Flying(s, Says)
      BY DEF Flying, Owed, Rung, Tells, Says, Losses
<1>a. LastFits(p)'
  <2>1. \A i \in DOMAIN control' : ~(control'[i].op = "Join" /\ control'[i].who = p)
        BY <1>3 DEF CalmInv, JoinInv
  <2> QED BY <1>1, <1>2, <2>1 DEF Fate, LastFits, Is
<1>c. SeatFits(p)'
  <2>1. ~Seat(p)'
        BY DEF Seat
  <2> QED BY <1>1, <2>1 DEF SeatFits, Abed
<1>d. OutFits(p)' /\ SleepsOnce(p)'
      BY DEF OutFits, SleepsOnce
<1>e. ToldFits(p)'
      BY <1>1, <1>4, <1>5 DEF Fate, ToldFits
<1> QED BY <1>a, <1>c, <1>d, <1>e DEF Fate

LEMMA ReturnFate ==
    ASSUME NEW p \in Pilots, SessionStep(p), Fate(p), Return(p)
    PROVE  Fate(p)'
<1>1. /\ pc[p] = "returning" /\ pc'[p] = "away" /\ slot'[p] = NoSlot
      /\ UNCHANGED <<life, owner, launched, bay, suit, lost, sleeper, poll>>
      BY DEF Return, sim, record, SessionStep, TypeInv, LeaseInv
<1>2. suit[p] = NoSuit /\ NoSlot \notin Slots
      BY <1>1, ConstantsAssumption DEF SessionStep, CalmInv, PhaseInv
<1>3. LastSuit(p)' = LastSuit(p) /\ Now(p)' = Now(p)
      BY <1>1, LastStays
<1>4. BayFits(p)'
      BY <1>1, <1>2, <1>3 DEF Fate, BayFits
<1>5. sleeper[p] # NoSuit => Now(p) \in Slept
      BY <1>1, <1>2 DEF Fate, SeatFits, Abed
<1> QED BY <1>1, <1>2, <1>4, <1>5, IdleFate DEF Fate, LastFits

LEMMA ConnectFate ==
    ASSUME NEW p \in Pilots, SessionStep(p), Fate(p), Connect(p)
    PROVE  Fate(p)'
<1>1. /\ pc[p] = "away" /\ leases # <<>> /\ leases \in Seq(Slots)
      /\ UNCHANGED <<life, owner, launched, bay, suit, lost, sleeper, poll>>
      /\ pc \in [Pilots -> PCs] /\ slot \in [Pilots -> Slots \cup {NoSlot}]
      /\ slot' = [slot EXCEPT ![p] = Head(leases)]
      /\ pc' = [pc EXCEPT ![p] = IF bay[p] = "out" /\ sleeper[p] # NoSuit THEN "asking" ELSE "entered"]
      BY DEF Connect, sim, record, SessionStep, TypeInv, LeaseInv
<1>2. PICK s \in Slots : s = Head(leases) /\ s = leases[1] /\ 1 \in DOMAIN leases
      BY <1>1, TailIs
<1>3. \A q \in Pilots : slot[q] # s
      BY <1>2 DEF SessionStep, TypeInv, LeaseInv, OneOwner
<1>4. ~client[s].active /\ ~Flying(s, Says)
      BY <1>3 DEF SessionStep, CalmInv, ClientInv, FlightInv, Seats
<1>5. suit[p] = NoSuit /\ ~lost[p]
      BY <1>1 DEF SessionStep, CalmInv, PhaseInv
<1>6. LastSuit(p)' = LastSuit(p) /\ Now(p)' = Now(p)
      BY <1>1, LastStays
<1>7. slot'[p] = s /\ pc'[p] = IF bay[p] = "out" /\ sleeper[p] # NoSuit THEN "asking" ELSE "entered"
      BY <1>1, <1>2
<1>8. BayFits(p)'
      BY <1>1, <1>5, <1>6, <1>7 DEF Fate, BayFits
<1>9. sleeper[p] # NoSuit => Now(p) \in Slept /\ bay[p] = "out"
      BY <1>1, <1>5 DEF Fate, SeatFits, BayFits, Abed
<1> QED BY <1>1, <1>4, <1>5, <1>7, <1>8, <1>9, IdleFate DEF Fate, LastFits

LEMMA AskFate ==
    ASSUME NEW p \in Pilots, SessionStep(p), Fate(p), Ask(p)
    PROVE  Fate(p)'
<1>1. /\ pc[p] = "asking" /\ pc'[p] = "seating"
      /\ UNCHANGED <<life, owner, launched, bay, suit, lost, sleeper, poll, slot, reports>>
      /\ sleeper[p] \in SomeSuit /\ LastSuit(p) \in SomeSuit /\ NoSuit \in SomeSuit
      /\ slot[p] \in Slots /\ client' = client
      BY LastSuitType DEF Ask, sim, sector, record, SessionStep, TypeInv, LeaseInv, TaskTypes, SomeSuit
<1>2. PICK m \in Msgs : /\ m.op = "Join" /\ m.slot = slot[p] /\ control' = Append(control, m)
                        /\ m.wake = sleeper[p]
                        /\ m.launch = IF sleeper[p] = NoSuit THEN LastSuit(p) ELSE NoSuit
  <2>1. CASE sleeper[p] # NoSuit
        BY <1>1, <2>1, MsgIs DEF Ask, Push, Ops, Msg
  <2>2. CASE sleeper[p] = NoSuit
        BY <1>1, <2>2, MsgIs DEF Ask, Push, Ops, Msg
  <2> QED BY <2>1, <2>2
<1>3. PICK n \in DOMAIN control' : control'[n] = m /\ n \notin DOMAIN control
                   /\ \A i \in DOMAIN control' : i = n \/ (i \in DOMAIN control /\ control'[i] = control[i])
      BY <1>2, AskedAfter DEF SessionStep, TypeInv
<1>4. LastSuit(p)' = LastSuit(p) /\ Now(p)' = Now(p)
      BY <1>1, LastStays
<1>5. suit[p] = NoSuit
      BY <1>1 DEF SessionStep, CalmInv, PhaseInv
<1>6. Joining(slot[p])' /\ ~Seat(p)'
      BY <1>1, <1>2, <1>3 DEF Joining, Seat
<1>7. \A s \in Slots : \A w : Flying(s, w)' => Flying(s, w)
      BY SessionFacts
<1>8. ~client[slot[p]].active
      BY <1>1 DEF SessionStep, CalmInv, SeatInv
<1>a. LastFits(p)'
      BY <1>1, <1>2, <1>3, <1>4 DEF Fate, LastFits, Is
<1>b. BayFits(p)'
      BY <1>1, <1>4 DEF Fate, BayFits
<1>c. SeatFits(p)'
  <2>1. Abed(p)' => Abed(p)
        BY <1>1 DEF Abed
  <2> QED BY <1>1, <1>4, <1>6, <2>1 DEF Fate, SeatFits
<1>d. OutFits(p)' /\ SleepsOnce(p)'
      BY <1>1, <1>5 DEF OutFits, SleepsOnce
<1>e. ToldFits(p)'
      BY <1>1, <1>4, <1>7 DEF Fate, ToldFits
<1> QED BY <1>a, <1>b, <1>c, <1>d, <1>e DEF Fate

LEMMA AnswerFate ==
    ASSUME NEW p \in Pilots, SessionStep(p), Fate(p), AwaitSeat(p)
    PROVE  Fate(p)'
<1>1. PICK s \in Slots : s = slot[p]
      BY DEF AwaitSeat, SessionStep, TypeInv, LeaseInv
<1> DEFINE seated == status[s].state = "Active" /\ status[s].suit # NoSuit
           wake == sleeper[p] # NoSuit
<1>2. /\ pc[p] = "seating" /\ status[s].epoch # seen[p] /\ s = slot[p]
      /\ UNCHANGED <<life, owner, launched, sleeper, slot, control>>
      /\ client' = client /\ status' = status /\ todo' = todo
      /\ pc'[p] = IF wake THEN "entered" ELSE "play"
      /\ suit'[p] = IF seated THEN status[s].suit ELSE suit[p]
      /\ lost'[p] = (lost[p] /\ ~seated)
      /\ bay'[p] = IF ~wake /\ ~seated THEN "docked" ELSE bay[p]
      /\ poll'[p] = IF wake /\ seated THEN status[s].outcome ELSE "none"
      BY <1>1 DEF AwaitSeat, Answer, shared, sector, sim, SessionStep, TypeInv, LeaseInv, TaskTypes
<1>3. Seat(p) /\ ~Storing(s) /\ client[s].active = seated
      BY <1>1, <1>2, SeatIs DEF SessionStep
<1>4. suit[p] = NoSuit /\ ~lost[p] /\ ~Asked(s)
      BY <1>1, <1>2, <1>3 DEF SessionStep, CalmInv, PhaseInv, SeatInv
<1>5. client[s].active => status[s].suit = client[s].suit
      BY <1>3 DEF SessionStep, CalmInv, StatusInv, Shows
<1>6. LastSuit(p)' = LastSuit(p) /\ Now(p)' = Now(p)
      BY <1>2, LastStays
<1>7. bay[p] = "out"
      BY <1>2 DEF Fate, BayFits
<1>8. CASE ~client[s].active
  <2>1. ~seated
        BY <1>3, <1>8
  <2>2. Now(p) \in IF sleeper[p] = NoSuit THEN {"unlaunched"} ELSE Slept \ {"asleep"}
        BY <1>1, <1>3, <1>8 DEF Fate, SeatFits
  <2>3. BayFits(p)'
    <3>1. pc'[p] = (IF wake THEN "entered" ELSE "play") /\ suit'[p] = NoSuit /\ poll'[p] = "none"
          /\ bay'[p] = (IF wake THEN "out" ELSE "docked") /\ sleeper'[p] = sleeper[p]
          BY <1>2, <1>4, <1>7, <2>1
    <3> QED BY <1>6, <2>2, <3>1 DEF BayFits, Sound
  <2> QED BY <1>2, <1>4, <2>1, <2>2, <2>3, IdleFate DEF Fate, LastFits
<1>9. CASE client[s].active
  <2>1. seated /\ suit'[p] = LastSuit(p) /\ suit'[p] # NoSuit /\ ~lost'[p]
        BY <1>1, <1>2, <1>3, <1>5, <1>9 DEF Fate, LastFits
  <2>2. Outcome(s, Awake) /\ (wake => Outcome(s, {"Woke"}))
        BY <1>1, <1>3, <1>9 DEF Fate, SeatFits
  <2>3. NotSlept(s)'
    <3>1. NotSlept(s)
          BY <1>3, <2>2 DEF NotSlept, Outcome
    <3> QED BY <1>2, <3>1, StaysSaid
  <2>4. poll'[p] = "Woke" <=> wake
        BY <1>2, <1>3, <2>1, <2>2 DEF Outcome
  <2>a. LastFits(p)'
    <3>1. \A i \in DOMAIN control : ~(control[i].op = "Join" /\ control[i].who = p)
          BY <1>1, <1>3 DEF SessionStep, CalmInv, JoinInv, Seat, Joining
    <3> QED BY <1>2, <1>6, <2>1, <3>1 DEF Fate, LastFits, Is
  <2>b. BayFits(p)'
    <3>1. pc'[p] = (IF wake THEN "entered" ELSE "play") /\ bay'[p] = "out" /\ sleeper'[p] = sleeper[p]
          BY <1>2, <1>7, <2>1
    <3> QED BY <2>1, <2>4, <3>1 DEF BayFits
  <2>c. SeatFits(p)'
    <3>1. ~Seat(p)' /\ ~Abed(p)'
          BY <1>2, <2>1 DEF Seat, Abed
    <3> QED BY <1>2, <3>1 DEF SeatFits
  <2>d. OutFits(p)'
        BY <1>1, <1>2, <1>9, <2>3 DEF OutFits
  <2>e. ToldFits(p)'
        BY <1>2, <1>6, SessionFacts DEF Fate, ToldFits
  <2>f. SleepsOnce(p)'
    <3>1. \A i \in DOMAIN control : control[i].slot # s
          BY <1>4 DEF Asked
    <3> QED BY <1>1, <1>2, <3>1 DEF SleepsOnce
  <2> QED BY <2>a, <2>b, <2>c, <2>d, <2>e, <2>f DEF Fate
<1> QED BY <1>8, <1>9

(* What a session entering makes of what is noted: a sleeper it couldn't wake was
   destroyed if, and only if, the news says so. *)
NewsTells(p) ==
    sleeper[p] # NoSuit /\ suit[p] = NoSuit =>
        (NewsAfter(NotesRead(TRUE))[p] = "Destroyed" <=> Now(p) \in Dead)

LEMMA EnterFate ==
    ASSUME NEW p \in Pilots, SessionStep(p), Fate(p), Enter(p), NewsTells(p)
    PROVE  Fate(p)'
<1>1. /\ pc[p] = "entered" /\ pc'[p] = "play" /\ sleeper'[p] = NoSuit /\ poll'[p] = "none"
      /\ UNCHANGED <<life, owner, launched, suit, lost, slot, control>>
      /\ client' = client /\ status' = status /\ todo' = todo
      BY DEF Enter, shared, sector, sim, SessionStep, TypeInv, LeaseInv, TaskTypes
<1>2. LastSuit(p)' = LastSuit(p) /\ Now(p)' = Now(p)
      BY <1>1, LastStays
<1>3. lost[p] => suit[p] # NoSuit
      BY DEF SessionStep, CalmInv, PhaseInv
<1> DEFINE asks == sleeper[p] # NoSuit /\ ~(poll[p] = "Woke")
           news1 == NewsAfter(NotesRead(asks))[p]
           back == IF bay[p] # "out" \/ poll[p] = "Woke" THEN bay[p]
                   ELSE IF asks /\ (IF asks /\ news1 = "none" THEN "Lost" ELSE news1) = "Destroyed"
                        THEN "empty" ELSE "docked"
<1>4. bay'[p] \in Reissued(back)
  <2>1. \E b \in Reissued(back) : bay' = [bay EXCEPT ![p] = b]
        BY DEF Enter
  <2>2. bay \in [Pilots -> {"new", "docked", "out", "empty"}]
        BY DEF SessionStep, TypeInv, TaskTypes
  <2> HIDE DEF back
  <2> QED BY <2>1, <2>2
<1>5. CASE suit[p] # NoSuit
  <2>1. poll[p] = "Woke" /\ bay[p] = "out" /\ ~lost[p]
        BY <1>1, <1>5 DEF Fate, BayFits
  <2>2. bay'[p] = "out"
        BY <1>4, <2>1 DEF Reissued
  <2>a. LastFits(p)'
    <3>1. \A i \in DOMAIN control : ~(control[i].op = "Join" /\ control[i].who = p)
          BY <1>1 DEF SessionStep, CalmInv, JoinInv
    <3> QED BY <1>1, <1>2, <3>1 DEF Fate, LastFits, Is
  <2>b. BayFits(p)'
        BY <1>1, <1>2, <1>5, <2>1, <2>2 DEF BayFits
  <2>c. SeatFits(p)'
    <3>1. ~Seat(p)' /\ ~Abed(p)'
          BY <1>1, <1>5 DEF Seat, Abed
    <3> QED BY <1>1, <3>1 DEF SeatFits
  <2>d. OutFits(p)'
    <3>1. PICK s \in Slots : s = slot[p]
          BY <1>1, SessionFacts
    <3>2. NotSlept(s)' <=> NotSlept(s)
          BY <1>1, StaysSaid
    <3>3. Flying(s, {"Home"})' <=> Flying(s, {"Home"})
      <4>1. reports' = reports
            BY DEF Enter
      <4> QED BY <1>1, <4>1 DEF Flying, Owed, Rung
    <3>4. ~Nodding(p)
          BY <1>1 DEF Nodding
    <3> QED BY <1>1, <1>2, <1>5, <3>1, <3>2, <3>3, <3>4 DEF Fate, OutFits
  <2>e. ToldFits(p)'
        BY <1>1, <1>2, SessionFacts DEF Fate, ToldFits
  <2>f. SleepsOnce(p)'
        BY <1>1, <1>5 DEF Fate, SleepsOnce
  <2> QED BY <2>a, <2>b, <2>c, <2>d, <2>e, <2>f DEF Fate
<1>6. CASE suit[p] = NoSuit
  <2>1. poll[p] # "Woke" /\ ~lost[p] /\ (asks <=> sleeper[p] # NoSuit)
        BY <1>1, <1>3, <1>6 DEF Fate, BayFits
  <2>2. sleeper[p] # NoSuit => /\ bay[p] = "out" /\ Now(p) \in Slept \ {"asleep"}
                               /\ news1 = "Destroyed" <=> Now(p) \in Dead
    <3>1. ASSUME sleeper[p] # NoSuit PROVE asks = TRUE
          BY <2>1, <3>1
    <3>2. ASSUME sleeper[p] # NoSuit PROVE news1 = NewsAfter(NotesRead(TRUE))[p]
          BY <3>1, <3>2
    <3>3. sleeper[p] # NoSuit => Abed(p)
          BY <1>1, <1>6 DEF Abed
    <3> QED BY <1>1, <1>6, <3>2, <3>3 DEF Fate, BayFits, SeatFits, NewsTells
  <2>3. sleeper[p] = NoSuit => back = bay[p] /\ bay[p] # "out"
        BY <1>1, <1>6 DEF Fate, BayFits
  <2>4. sleeper[p] # NoSuit => back = IF Now(p) \in Dead THEN "empty" ELSE "docked"
        BY <2>1, <2>2
  <2>5. bay'[p] = back \/ (back = "empty" /\ bay'[p] = "new")
        BY <1>4 DEF Reissued
  <2>6. /\ bay'[p] # "out"
        /\ bay'[p] \in {"empty", "new"} => LastSuit(p) = NoSuit \/ Now(p) \in Dead
        /\ bay'[p] = "docked" => Now(p) \in Sound
    <3> HIDE DEF back
    <3>1. CASE sleeper[p] = NoSuit
          BY <2>3, <2>5, <3>1 DEF Fate, BayFits
    <3>2. CASE sleeper[p] # NoSuit
          BY <2>2, <2>4, <2>5, <3>2 DEF Slept, Sound, Dead
    <3> QED BY <3>1, <3>2
  <2>7. BayFits(p)'
        BY <1>1, <1>2, <1>6, <2>6 DEF BayFits
  <2> QED BY <1>1, <1>6, <2>7, IdleFate DEF Is
<1> QED BY <1>5, <1>6

(* A report that isn't of a homecoming is read: a homecoming on its way still is. *)
LEMMA HomeStays ==
    ASSUME QueueTypes, NEW s \in Slots, reports[s] # <<>>, reports'[s] = Tail(reports[s]), todo' = todo,
           Head(reports[s]).what # "Home", Flying(s, {"Home"})
    PROVE  Flying(s, {"Home"})'
<1>1. reports[s] \in Seq(Tellings)
      BY DEF QueueTypes
<1>2. /\ Head(reports[s]) = reports[s][1]
      /\ \A i \in DOMAIN reports[s] :
            i = 1 \/ (i - 1 \in DOMAIN Tail(reports[s]) /\ Tail(reports[s])[i - 1] = reports[s][i])
  <2> HIDE DEF Tellings
  <2> QED BY <1>1, TailIs
<1>3. Rung(s, {"Home"}) => Rung(s, {"Home"})'
  <2> SUFFICES ASSUME NEW i \in DOMAIN reports[s], reports[s][i].what = "Home" PROVE Rung(s, {"Home"})'
      BY DEF Rung
  <2>1. i - 1 \in DOMAIN Tail(reports[s]) /\ Tail(reports[s])[i - 1] = reports[s][i]
        BY <1>2
  <2>2. \E j \in DOMAIN reports'[s] : reports'[s][j].what = "Home"
        BY <2>1
  <2> QED BY <2>2 DEF Rung
<1> QED BY <1>3 DEF Flying, Owed

LEMMA ReadFate ==
    ASSUME NEW p \in Pilots, SessionStep(p), Fate(p), ReadReport(p)
    PROVE  Fate(p)'
<1>1. PICK s \in Slots : s = slot[p]
      BY DEF ReadReport, SessionStep, TypeInv, LeaseInv
<1> DEFINE what == Head(reports[s]).what
           gone == what \in Losses
           settled == what = "Towed" /\ ~lost[p] /\ suit[p] = NoSuit
<1>2. /\ pc[p] \in {"play", "docking"} /\ s = slot[p]
      /\ UNCHANGED <<life, owner, launched, control, sleeper, slot, poll>>
      /\ client' = client /\ status' = status /\ todo' = todo
      /\ reports[s] # <<>>
      /\ pc'[p] = IF what \in {"Home", "DockRefused"} THEN "play" ELSE pc[p]
      /\ suit'[p] = IF what = "Home" THEN NoSuit ELSE suit[p]
      /\ lost'[p] = (lost[p] \/ gone)
      BY <1>1 DEF ReadReport, OnReport, Losses, sector, sim, SessionStep, TypeInv, LeaseInv, TaskTypes
<1>3. reports'[s] = Tail(reports[s])
  <2> HIDE DEF Tellings
  <2> QED BY <1>1 DEF ReadReport, SessionStep, TypeInv, QueueTypes
<1>4. bay'[p] \in IF what = "Home" THEN {"docked"} ELSE IF gone THEN {"empty"}
                  ELSE IF settled THEN Reissued(bay[p]) ELSE {bay[p]}
  <2> DEFINE bays == IF what = "Home" THEN {"docked"} ELSE IF gone THEN {"empty"}
                     ELSE IF settled THEN Reissued(bay[p]) ELSE {bay[p]}
  <2>1. \E b \in bays : bay' = [bay EXCEPT ![p] = b]
        BY <1>1 DEF ReadReport, OnReport, Losses
  <2>2. bay \in [Pilots -> {"new", "docked", "out", "empty"}]
        BY DEF SessionStep, TypeInv, TaskTypes
  <2> HIDE DEF bays, what, gone, settled
  <2>3. bay'[p] \in bays
        BY <2>1, <2>2
  <2> QED BY <2>3 DEF bays
<1>5. LastSuit(p)' = LastSuit(p) /\ Now(p)' = Now(p)
      BY <1>2, LastStays
<1>6. \A w : what \in w => Flying(s, w)
  <2>1. reports[s] \in Seq(Tellings)
        BY DEF SessionStep, TypeInv, QueueTypes
  <2>2. 1 \in DOMAIN reports[s] /\ Head(reports[s]) = reports[s][1]
    <3> HIDE DEF Tellings
    <3> QED BY <1>2, <2>1, TailIs
  <2> QED BY <2>2 DEF Flying, Rung
<1>7. sleeper[p] = NoSuit /\ poll[p] # "Woke" /\ (bay[p] = "out" <=> suit[p] # NoSuit /\ ~lost[p])
      BY <1>2 DEF Fate, BayFits
<1>8. lost[p] => suit[p] # NoSuit
      BY DEF SessionStep, CalmInv, PhaseInv
<1>9. CASE what = "Home"
  <2>1. Now(p) = "docked"
        BY <1>1, <1>6, <1>9 DEF Fate, ToldFits
  <2>2. bay'[p] = "docked" /\ suit'[p] = NoSuit /\ pc'[p] = "play" /\ Now(p)' = "docked"
        BY <1>2, <1>4, <1>5, <1>9, <2>1
  <2>3. BayFits(p)'
        BY <1>2, <1>7, <2>2 DEF BayFits, Sound
  <2> QED BY <1>2, <1>7, <2>2, <2>3, IdleFate DEF Is
<1>10. CASE what # "Home"
  <2>1. suit'[p] = suit[p] /\ pc'[p] \in {"play", "docking"}
        BY <1>2, <1>10
  <2>2. gone => Now(p) \in Dead /\ suit[p] # NoSuit
    <3> SUFFICES ASSUME gone PROVE Now(p) \in Dead /\ suit[p] # NoSuit
        OBVIOUS
    <3>1. Flying(s, Losses) /\ Flying(s, Says)
          BY <1>6 DEF Says, Losses
    <3>2. PICK q \in Pilots : slot[q] = s /\ Aboard(q)
          BY <3>1 DEF SessionStep, CalmInv, FlightInv
    <3>3. q = p
          BY <1>1, <3>2, SessionFacts
    <3> QED BY <1>1, <1>2, <3>1, <3>2, <3>3 DEF Fate, ToldFits, Aboard, Seat
  <2>3. gone => bay'[p] = "empty"
        BY <1>4, <1>10
  <2>4. ~gone => bay'[p] = bay[p] \/ (bay[p] = "empty" /\ bay'[p] = "new")
        BY <1>4, <1>10 DEF Reissued
  <2> HIDE DEF gone, what, settled
  <2>a. LastFits(p)'
    <3>1. \A i \in DOMAIN control : ~(control[i].op = "Join" /\ control[i].who = p)
          BY <1>2 DEF SessionStep, CalmInv, JoinInv
    <3> QED BY <1>2, <1>5, <2>1, <3>1 DEF Fate, LastFits, Is
  <2>b. BayFits(p)'
    <3>1. CASE gone
          BY <1>2, <1>5, <1>7, <2>1, <2>2, <2>3, <3>1 DEF BayFits
    <3>2. CASE ~gone
          BY <1>2, <1>5, <1>7, <2>1, <2>4, <3>2 DEF Fate, BayFits
    <3> QED BY <3>1, <3>2
  <2>c. SeatFits(p)'
    <3>1. ~Seat(p)' /\ ~Abed(p)'
          BY <1>2, <1>7, <2>1 DEF Seat, Abed
    <3> QED BY <2>1, <3>1 DEF SeatFits
  <2>d. OutFits(p)'
    <3>1. NotSlept(s)' <=> NotSlept(s)
          BY <1>2, StaysSaid
    <3>2. Flying(s, {"Home"}) => Flying(s, {"Home"})'
          BY <1>2, <1>3, <1>10, HomeStays DEF what, SessionStep, TypeInv
    <3>3. ~Nodding(p)
          BY <1>2 DEF Nodding
    <3> QED BY <1>2, <1>5, <2>1, <3>1, <3>2, <3>3 DEF Fate, OutFits
  <2>e. ToldFits(p)'
        BY <1>2, <1>5, SessionFacts DEF Fate, ToldFits
  <2>f. SleepsOnce(p)'
        BY <1>2, <2>1 DEF Fate, SleepsOnce
  <2> QED BY <2>a, <2>b, <2>c, <2>d, <2>e, <2>f DEF Fate
<1> QED BY <1>9, <1>10

LEMMA WreckFate ==
    ASSUME NEW p \in Pilots, SessionStep(p), Fate(p), WreckGone(p)
    PROVE  Fate(p)'
<1>1. /\ pc[p] = "play" /\ pc'[p] = "play" /\ lost[p] /\ ~lost'[p] /\ suit'[p] = NoSuit
      /\ UNCHANGED <<life, owner, launched, sleeper, poll>> /\ slot' = slot
      BY DEF WreckGone, sim, SessionStep, TypeInv, LeaseInv, TaskTypes
<1>2. bay'[p] = bay[p] \/ (bay[p] = "empty" /\ bay'[p] = "new")
  <2>1. \E b \in IF towing[p] THEN {bay[p]} ELSE Reissued(bay[p]) : bay' = [bay EXCEPT ![p] = b]
        BY DEF WreckGone
  <2>2. bay \in [Pilots -> {"new", "docked", "out", "empty"}]
        BY DEF SessionStep, TypeInv, TaskTypes
  <2> QED BY <2>1, <2>2 DEF Reissued
<1>3. LastSuit(p)' = LastSuit(p) /\ Now(p)' = Now(p)
      BY <1>1, LastStays
<1>4. BayFits(p)'
      BY <1>1, <1>2, <1>3 DEF Fate, BayFits
<1>5. sleeper[p] = NoSuit
      BY <1>1 DEF Fate, BayFits
<1> QED BY <1>1, <1>4, <1>5, IdleFate DEF Is

LEMMA FreeFate ==
    ASSUME NEW p \in Pilots, SessionStep(p), Fate(p), AwaitFree(p)
    PROVE  Fate(p)'
<1>1. PICK s \in Slots : s = slot[p]
      BY DEF AwaitFree, SessionStep, TypeInv, LeaseInv
<1> DEFINE said == {reports[s][i].what : i \in DOMAIN reports[s]}
           asleep == status[s].outcome = "Asleep" /\ status[s].suit # NoSuit
<1>2. /\ pc[p] = "freeing" /\ status[s].state = "Free" /\ s = slot[p]
      /\ UNCHANGED <<life, owner, launched, poll>> /\ slot' = slot
      /\ pc'[p] \in {"towing", "returning"} /\ ~lost'[p] /\ suit'[p] = NoSuit
      /\ sleeper'[p] = IF asleep THEN status[s].suit ELSE NoSuit
      /\ bay'[p] = BayLeft(bay[p], asleep, said)
      BY <1>1, SMTT(90) DEF AwaitFree, Settle, sim, SessionStep, TypeInv, LeaseInv, TaskTypes
<1>3. LastSuit(p)' = LastSuit(p) /\ Now(p)' = Now(p)
      BY <1>2, LastStays
<1>4. suit[p] # NoSuit /\ suit[p] = LastSuit(p)
      BY <1>2 DEF SessionStep, CalmInv, PhaseInv, Fate, LastFits, Is
<1>5. ~client[s].active /\ ~Bumping(s)
      BY <1>2, FreeIs DEF SessionStep
<1>6. ~Owed(s, Says)
  <2>1. ~In(s, "docking")
        BY <1>2, NotIn DEF SessionStep
  <2> QED BY <1>2, <2>1 DEF SessionStep, CalmInv, OrderInv, Owed
<1>7. Flying(s, {"Home"}) <=> "Home" \in said
  <2>1. ~Owed(s, {"Home"})
        BY <1>6 DEF Owed, Tells, Says
  <2>2. Rung(s, {"Home"}) <=> "Home" \in said
        BY DEF Rung
  <2> QED BY <2>1, <2>2 DEF Flying
<1>8. Flying(s, {"Home"}) => Now(p) = "docked"
      BY <1>2 DEF Fate, ToldFits
<1>9. bay[p] = "out" <=> ~lost[p]
      BY <1>2, <1>4 DEF Fate, BayFits
<1>10. bay[p] \in {"empty", "new", "out", "docked"} /\ poll[p] # "Woke"
       BY <1>2 DEF SessionStep, TypeInv, TaskTypes, Fate, BayFits
<1>11. CASE NotSlept(s)
  <2>1. ~asleep
        BY <1>11 DEF NotSlept, Awake
  <2>2. Now(p) = "destroyed" \/ (Now(p) = "docked" /\ "Home" \in said)
    <3>1. ~Nodding(p)
          BY <1>2, <1>11 DEF Nodding, SaysAsleep, NotSlept, Awake
    <3> QED BY <1>2, <1>4, <1>5, <1>7, <3>1 DEF Fate, OutFits
  <2>3. bay'[p] = IF bay[p] # "out" THEN bay[p] ELSE IF "Home" \in said THEN "docked" ELSE "empty"
        BY <1>2, <2>1 DEF BayLeft
  <2>4. /\ bay'[p] # "out"
        /\ bay'[p] \in {"empty", "new"} => LastSuit(p) = NoSuit \/ Now(p) \in Dead
        /\ bay'[p] = "docked" => Now(p) \in Sound
        BY <1>7, <1>8, <2>2, <2>3 DEF Fate, BayFits, Dead, Sound
  <2>5. sleeper'[p] = NoSuit
        BY <1>2, <2>1
  <2>6. BayFits(p)'
        BY <1>2, <1>3, <1>10, <2>4, <2>5 DEF BayFits
  <2> QED BY <1>2, <2>5, <2>6, IdleFate DEF Is
<1>12. CASE ~NotSlept(s)
  <2>1. Nodding(p)
        BY <1>2, <1>4, <1>5, <1>12 DEF Fate, OutFits
  <2>2. status[s].outcome = "Asleep" /\ status[s].suit = LastSuit(p) /\ ~lost[p] /\ Now(p) \in Slept
        BY <1>2, <2>1 DEF Nodding, SaysAsleep
  <2>3. asleep /\ sleeper'[p] = LastSuit(p) /\ sleeper'[p] # NoSuit
        BY <1>2, <1>4, <2>2
  <2>4. bay'[p] = "out"
        BY <1>2, <1>9, <2>2, <2>3 DEF BayLeft
  <2>5. BayFits(p)'
        BY <1>2, <1>3, <1>10, <2>3, <2>4 DEF BayFits
  <2> QED BY <1>2, <2>2, <2>3, <2>5, IdleFate DEF Is
<1> QED BY <1>11, <1>12

LEMMA LaunchFate ==
    ASSUME NEW p \in Pilots, SessionStep(p), Fate(p), Launch(p)
    PROVE  Fate(p)'
<1> DEFINE n == launched + 1
<1>1. /\ pc[p] = "play" /\ suit[p] = NoSuit /\ bay[p] \in {"new", "docked"}
      /\ pc'[p] = "asking" /\ bay'[p] = "out"
      /\ UNCHANGED <<sleeper, slot, suit, lost, poll, control>>
      /\ client' = client /\ status' = status /\ todo' = todo /\ reports' = reports
      /\ launched' = n /\ life' = [life EXCEPT ![n] = "queued"] /\ owner' = [owner EXCEPT ![n] = p]
      /\ life \in [Ids -> Lives] /\ owner \in [Ids -> Anyone] /\ launched \in 0..MaxLaunches
      BY DEF Launch, shared, sector, SessionStep, TypeInv, LeaseInv, SectorTypes, TaskTypes
<1>2. sleeper[p] = NoSuit /\ poll[p] # "Woke"
      BY <1>1 DEF Fate, BayFits
<1>3. PICK s \in Slots : s = slot[p]
      BY <1>1, SessionFacts
<1>4. ~client[s].active
      BY <1>1, <1>3, SessionFacts DEF SessionStep, CalmInv, ClientInv, Seats
<1>5. ~Flying(s, Says)
  <2>1. ~Aboard(p)
        BY <1>1 DEF Aboard, Seat
  <2> QED BY <1>3, <2>1, SessionFacts DEF SessionStep, CalmInv, FlightInv
<1>6. LastSuit(p)' # NoSuit /\ Now(p)' = "queued"
  <2>1. n \in Ids
    <3>1. launched < MaxLaunches
          BY <1>1, ConstantsAssumption DEF Launch
    <3> QED BY <1>1, <3>1, ConstantsAssumption DEF Ids
  <2>2. owner'[n] = p /\ life'[n] = "queued"
        BY <1>1, <2>1
  <2>3. \A id \in Ids : owner'[id] = p => id <= n
    <3> SUFFICES ASSUME NEW id \in Ids, owner'[id] = p, ~(id <= n) PROVE FALSE
        OBVIOUS
    <3>1. id > launched /\ id # n
          BY <1>1, ConstantsAssumption DEF Ids
    <3>2. owner'[id] = owner[id] /\ owner[id] = NoPilot
          BY <1>1, <3>1 DEF SessionStep, CalmInv, LaunchInv
    <3> QED BY <3>2, ConstantsAssumption
  <2>4. LastSuit(p)' \in Ids /\ owner'[LastSuit(p)'] = p /\ n <= LastSuit(p)'
    <3> DEFINE T == {id \in Ids : owner'[id] = p}
    <3>1. T \subseteq 0..MaxLaunches /\ n \in T /\ MaxLaunches \in Nat
          BY <2>1, <2>2, ConstantsAssumption DEF Ids
    <3>2. LastSuit(p)' = IF T = {} THEN NoSuit ELSE CHOOSE id \in T : \A other \in T : other <= id
          BY DEF LastSuit
    <3> HIDE DEF T
    <3>3. \E id \in T : \A other \in T : other <= id
          BY <3>1, HighestOf
    <3>4. LastSuit(p)' \in T /\ \A other \in T : other <= LastSuit(p)'
          BY <3>1, <3>2, <3>3
    <3> QED BY <3>1, <3>4 DEF T
  <2>5. LastSuit(p)' = n
    <3>1. LastSuit(p)' <= n
          BY <2>3, <2>4
    <3>2. LastSuit(p)' \in Int /\ n \in Int
          BY <2>1, <2>4, ConstantsAssumption DEF Ids
    <3> HIDE DEF n
    <3> QED BY <2>4, <3>1, <3>2
  <2>6. n # NoSuit
        BY <2>1, NoSuitIs
  <2>7. Now(p)' = IF LastSuit(p)' = NoSuit THEN "unborn" ELSE life'[LastSuit(p)']
        BY DEF Now
  <2> QED BY <2>2, <2>5, <2>6, <2>7
<1> HIDE DEF n
<1>a. LastFits(p)'
  <2>1. \A i \in DOMAIN control : ~(control[i].op = "Join" /\ control[i].who = p)
        BY <1>1 DEF SessionStep, CalmInv, JoinInv
  <2> QED BY <1>1, <1>2, <1>3, <1>4, <2>1 DEF LastFits, Is
<1>b. BayFits(p)'
      BY <1>1, <1>2 DEF BayFits
<1>c. SeatFits(p)'
  <2>1. ~Seat(p)' /\ ~Abed(p)'
        BY <1>1, <1>2 DEF Seat, Abed
  <2> QED BY <1>6, <2>1 DEF SeatFits
<1>d. OutFits(p)' /\ SleepsOnce(p)'
      BY <1>1 DEF OutFits, SleepsOnce
<1>e. ToldFits(p)'
  <2>1. ~Flying(s, Says)'
        BY <1>5, SessionFacts
  <2>2. ~Flying(s, {"Home"})' /\ ~Flying(s, Losses)'
        BY <2>1 DEF Flying, Owed, Rung, Tells, Says, Losses
  <2> QED BY <1>1, <1>3, <2>2 DEF ToldFits
<1> QED BY <1>a, <1>b, <1>c, <1>d, <1>e DEF Fate

(* A session writes no record but its pilot's. *)
LEMMA RecordsApart ==
    ASSUME TypeInv, NEW p \in Pilots, Progress(p) \/ Whim(p), NEW q \in Pilots, q # p
    PROVE  bay'[q] = bay[q] /\ poll'[q] = poll[q]
<1>1. bay \in [Pilots -> {"new", "docked", "out", "empty"}]
      /\ poll \in [Pilots -> {"none"} \cup States \cup Outcomes]
      BY DEF TypeInv, TaskTypes
<1>2. \A b : [bay EXCEPT ![p] = b][q] = bay[q] /\ [poll EXCEPT ![p] = b][q] = poll[q]
      BY <1>1
<1>3. (\E b : bay' = [bay EXCEPT ![p] = b]) \/ bay' = bay
  <2>1. CASE Progress(p)
        BY <2>1, Zenon DEF Progress, Ask, AwaitSeat, PollState, PollEpoch, GiveUpSeat, Answer, Enter, ReadReport,
         OnReport, GiveUpDock, WreckGone, AwaitFree, GiveUpFree, Settle, AskTow, AwaitTow, GiveUpTow, Return, record
  <2>2. CASE Whim(p)
        BY <2>2, Zenon DEF Whim, Connect, Launch, Dock, Eject, Refit, Leave, record
  <2> QED BY <2>1, <2>2
<1>4. (\E b : poll' = [poll EXCEPT ![p] = b]) \/ poll' = poll
  <2>1. CASE Progress(p)
        BY <2>1, Zenon DEF Progress, Ask, AwaitSeat, PollState, PollEpoch, GiveUpSeat, Answer, Enter, ReadReport,
         OnReport, GiveUpDock, WreckGone, AwaitFree, GiveUpFree, Settle, AskTow, AwaitTow, GiveUpTow, Return, session
  <2>2. CASE Whim(p)
        BY <2>2, Zenon DEF Whim, Connect, Launch, Dock, Eject, Refit, Leave, session
  <2> QED BY <2>1, <2>2
<1>5. bay'[q] = bay[q]
      BY <1>2, <1>3
<1>6. poll'[q] = poll[q]
      BY <1>2, <1>4
<1> QED BY <1>5, <1>6

LEMMA SessionsFate ==
    ASSUME TypeInv, CalmInv, Calm, FateInv, NEW p \in Pilots, Progress(p) \/ Whim(p),
           Enter(p) => NewsTells(p)
    PROVE  FateInv' /\ SessionStep(p)
<1>1. SessionStep(p)
  <2>1. TypeInv'
        BY TypeInvStep DEF Next
  <2> QED BY <2>1, SessionsFit DEF SessionStep
<1>2. FateStep(p) /\ Fate(p)
      BY <1>1, RecordsApart DEF FateStep, FateInv
<1>3. ~PollState(p) /\ ~PollEpoch(p) /\ ~GiveUpSeat(p) /\ ~GiveUpFree(p)
      BY DEF Calm, PollState, PollEpoch, GiveUpSeat, GiveUpFree
<1>4. Fate(p)'
      BY <1>1, <1>2, <1>3, QuietSteps, QuietFate, ReturnFate, ConnectFate, AskFate, AnswerFate, EnterFate,
         ReadFate, WreckFate, FreeFate, LaunchFate DEF Progress, Whim
<1> QED BY <1>1, <1>2, <1>4, OthersFate DEF FateInv

-----------------------------------------------------------------------------
(* A step of the sector's with nothing left to write, as pilot p's suit sees it. *)
Left(s) == Spared(s) \/ Wrecked(s) \/ Denied(s)

(* The answer to a join says what became of the suit. *)
Hailed(s) ==
    /\ Answered(s)
    /\ \A p \in Pilots : slot[p] = s =>
          IF client'[s].active
          THEN /\ client'[s].suit = LastSuit(p) /\ Now(p)' \in {"cradle", "flying"}
               /\ \A i \in DOMAIN todo' : IsStore(todo'[i], s) =>
                     todo'[i].val.outcome \in IF sleeper[p] = NoSuit THEN Awake ELSE {"Woke"}
          ELSE Now(p)' \in IF sleeper[p] = NoSuit THEN {"unlaunched"} ELSE Slept \ {"asleep"}

Fortunes ==
    \A id \in Ids :
        \/ life'[id] = life[id] \/ life[id] = "queued"
        \/ life[id] \in {"cradle", "flying"}
        \/ life[id] = "wreck" /\ life'[id] = "destroyed"
        \/ life[id] = "asleep" /\ life'[id] \in {"wreck", "evicted"}
        \/ /\ life[id] = "asleep" /\ life'[id] = "flying"
           /\ \E s \in Slots : Answered(s) /\ client'[s].active /\ client'[s].suit = id

Goes(p) ==
    /\ LastSuit(p)' = LastSuit(p)
    /\ Now(p) \in Dead => Now(p)' \in Dead
    /\ Now(p) = "destroyed" => Now(p)' = "destroyed"
    /\ Now(p) \in Sound => Now(p)' = Now(p)
    /\ Now(p) = "queued" => Now(p)' = "queued" \/ (pc[p] = "seating" /\ ~Joining(slot[p])')
    /\ Now(p) \in Slept => \/ Now(p)' \in Slept
                           \/ pc[p] = "seating" /\ Answered(slot[p]) /\ client'[slot[p]].active
    /\ Now(p) \in Slept \ {"asleep"} => Now(p)' \in Slept \ {"asleep"}

Turn(p) ==
    /\ SectorStep /\ Fate(p) /\ Goes(p) /\ UNCHANGED <<bay, poll>>
    /\ slot[p] \in Slots => Left(slot[p]) \/ Hailed(slot[p]) \/ (Vacated(slot[p]) /\ Ended(slot[p]))

LEMMA GoesOn ==
    ASSUME SectorStep, Fortunes, NEW p \in Pilots
    PROVE  Goes(p)
<1>1. LastSuit(p)' = LastSuit(p)
      BY StepFacts DEF LastSuit
<1>2. CASE LastSuit(p) = NoSuit
  <2>1. Now(p)' = Now(p) /\ Now(p) = "unborn"
        BY <1>1, <1>2 DEF Now
  <2> QED BY <1>1, <2>1 DEF Goes, Dead, Sound, Slept
<1>3. CASE LastSuit(p) # NoSuit
  <2> PICK id \in Ids : id = LastSuit(p) /\ owner[id] = p
      BY <1>3, LastSuitIs
  <2>1. Now(p) = life[id] /\ Now(p)' = life'[id] /\ id # NoSuit
        BY <1>1, <1>3 DEF Now
  <2>2. life[id] = "queued" /\ life'[id] # "queued" => pc[p] = "seating" /\ ~Joining(slot[p])'
    <3> SUFFICES ASSUME life[id] = "queued", life'[id] # "queued" PROVE pc[p] = "seating" /\ ~Joining(slot[p])'
        OBVIOUS
    <3>1. PICK q \in Pilots : owner[id] = q /\ pc[q] = "seating" /\ ~Asked(slot[q])'
          BY DEF SectorStep, SectorMoves
    <3>2. slot'[p] = slot[p]
          BY StepFacts
    <3> QED BY <3>1, <3>2 DEF Asked, Joining
  <2>3. ASSUME NEW s \in Slots, Answered(s), client'[s].active, client'[s].suit = id
        PROVE  pc[p] = "seating" /\ slot[p] = s
    <3>1. PICK q \in Pilots, w \in Writes :
             /\ slot[q] = s /\ pc[q] = "seating" /\ Shows(w.val, client'[s]) /\ Own(q, w.val.suit)
          BY <2>3 DEF Answered
    <3>2. w.val.suit = id
          BY <2>3, <3>1 DEF Shows
    <3>3. q = p
          BY <2>1, <3>1, <3>2 DEF Own
    <3> QED BY <3>1, <3>3
  <2>4. life'[id] = life[id] \/ life[id] \in {"queued", "cradle", "flying"}
        \/ (life[id] = "wreck" /\ life'[id] = "destroyed")
        \/ (life[id] = "asleep" /\ life'[id] \in {"wreck", "evicted"})
        \/ /\ life[id] = "asleep" /\ life'[id] = "flying"
           /\ pc[p] = "seating" /\ Answered(slot[p]) /\ client'[slot[p]].active
        BY <2>3 DEF Fortunes
  <2> QED BY <1>1, <2>1, <2>2, <2>4 DEF Goes, Dead, Sound, Slept
<1> QED BY <1>2, <1>3

(* What a slot left alone says. *)
LEMMA LeftFacts ==
    ASSUME SectorStep, NEW s \in Slots, Left(s)
    PROVE  /\ client'[s].active = client[s].active /\ client'[s].suit = client[s].suit
           /\ Unwritten(s) /\ ~Storing(s)' /\ ~Storing(s)
           /\ Flying(s, {"Home"})' <=> Flying(s, {"Home"})
           /\ Flying(s, Losses)' => \/ Flying(s, Losses)
                                    \/ client'[s].active /\ life'[client'[s].suit] = "wreck"
           /\ \A os : Outcome(s, os)' <=> Outcome(s, os)
           /\ NotSlept(s)' <=> NotSlept(s)
           /\ \A id : SaysAsleep(s, id)' <=> SaysAsleep(s, id)
<1>1. client'[s].active = client[s].active /\ client'[s].suit = client[s].suit
      BY DEF Left, Spared, Wrecked, Denied, Same
<1>2. Unwritten(s) /\ ~Storing(s)' /\ ~Storing(s) /\ DOMAIN todo = {} /\ status' = status
  <2>1. todo = <<>>
        BY DEF SectorStep, SectorMoves
  <2> QED BY <2>1, EffectFacts, StepFacts DEF Left
<1>3. CASE Spared(s)
  <2>1. ~Owed(s, {"Home"})' /\ ~Owed(s, Losses)'
        BY <1>3 DEF Spared, Silent, Owed, Tells, Says, Losses
  <2> QED BY <1>1, <1>2, <2>1, StepFacts DEF Flying, Unwritten, Outcome, Storable, NotSlept, SaysAsleep
<1>4. CASE Wrecked(s)
  <2>1. ~Owed(s, {"Home"})'
        BY <1>4 DEF Wrecked, Owed, Tells, Says, Losses
  <2>2. client'[s].active /\ life'[client'[s].suit] = "wreck"
        BY <1>1, <1>4 DEF Wrecked, SectorStep, SectorMoves
  <2> QED BY <1>1, <1>2, <2>1, <2>2, StepFacts DEF Flying, Unwritten, Outcome, Storable, NotSlept, SaysAsleep
<1>5. CASE Denied(s)
  <2>1. ~Owed(s, {"Home"})' /\ ~Owed(s, Losses)'
    <3>1. PICK w \in Writes : todo' = <<w>> /\ Tells(w, s, {"DockRefused"})
          BY <1>5 DEF Denied
    <3>2. DOMAIN todo' = {1} /\ todo'[1] = w
      <4> HIDE DEF Writes
      <4> QED BY <3>1
    <3> QED BY <3>1, <3>2 DEF Owed, Tells, Losses
  <2> QED BY <1>1, <1>2, <2>1, StepFacts DEF Flying, Unwritten, Outcome, Storable, NotSlept, SaysAsleep
<1> QED BY <1>3, <1>4, <1>5 DEF Left

(* A slot answered says so, and no more. *)
LEMMA HailedFacts ==
    ASSUME SectorStep, NEW s \in Slots, Hailed(s), NEW p \in Pilots, slot[p] = s
    PROVE  /\ pc[p] = "seating" /\ Joining(s) /\ ~Asked(s)' /\ ~client[s].active
           /\ ~Owed(s, {"Home"})' /\ ~Owed(s, Losses)'
           /\ Storing(s)' /\ suit[p] = NoSuit
<1>1. PICK q \in Pilots : slot[q] = s /\ pc[q] = "seating" /\ Joining(s)
      BY DEF Hailed, Answered
<1>2. q = p
      BY <1>1, StepFacts
<1>3. ~client[s].active /\ suit[p] = NoSuit
      BY <1>1, <1>2 DEF SectorStep, CalmInv, SeatInv, PhaseInv
<1>4. Silent(s) /\ Bumping(s)' /\ ~Asked(s)'
      BY EffectFacts DEF Hailed, Answered
<1>5. ~Owed(s, {"Home"})' /\ ~Owed(s, Losses)' /\ Storing(s)'
      BY <1>4 DEF Silent, Owed, Tells, Says, Losses, Bumping, Storing
<1> QED BY <1>1, <1>2, <1>3, <1>4, <1>5

LEMMA TurnLast ==
    ASSUME NEW p \in Pilots, Turn(p)
    PROVE  LastFits(p)'
<1>1. LastSuit(p)' = LastSuit(p) /\ UNCHANGED <<sleeper, suit, slot>>
      BY StepFacts DEF Turn, Goes
<1>2. slot[p] \in Slots => (client'[slot[p]].active => client'[slot[p]].suit = LastSuit(p))
  <2> SUFFICES ASSUME NEW s \in Slots, s = slot[p], client'[s].active PROVE client'[s].suit = LastSuit(p)
      OBVIOUS
  <2>1. CASE Left(s)
        BY <2>1, LeftFacts DEF Turn, Fate, LastFits
  <2>2. CASE Hailed(s)
        BY <2>2 DEF Hailed
  <2> QED BY <2>1, <2>2 DEF Turn, Vacated
<1>3. \A i \in DOMAIN control' : \E j \in DOMAIN control : control'[i] = control[j]
      BY ControlLeft DEF Turn, SectorStep, SectorMoves, TypeInv
<1> QED BY <1>1, <1>2, <1>3 DEF Turn, Fate, LastFits, Is

LEMMA TurnBay ==
    ASSUME NEW p \in Pilots, Turn(p)
    PROVE  BayFits(p)'
<1>1. UNCHANGED <<bay, pc, sleeper, suit, lost, poll>> /\ BayFits(p) /\ Goes(p)
      BY StepFacts DEF Turn, Fate
<1> QED BY <1>1 DEF BayFits, Goes

LEMMA AbedStays ==
    ASSUME NEW p \in Pilots, Turn(p)
    PROVE  /\ Abed(p)' => Abed(p) /\ Now(p) \in Slept /\ Now(p)' \in Slept
           /\ Abed(p)' <=> Abed(p) /\ ~(pc[p] = "seating" /\ client'[slot[p]].active)
<1>1. UNCHANGED <<sleeper, suit, pc, slot>> /\ (pc[p] = "seating" => slot[p] \in Slots)
      BY StepFacts DEF Turn
<1>2. ASSUME pc[p] = "seating", client[slot[p]].active PROVE client'[slot[p]].active
  <2>1. PICK s \in Slots : s = slot[p]
        BY <1>1, <1>2
  <2>2. ~Joining(s)
        BY <1>2, <2>1 DEF Turn, SectorStep, CalmInv, SeatInv
  <2>3. Seat(p)
        BY <1>2, <2>1, <2>2 DEF Seat
  <2>4. Left(s)
        BY <2>1, <2>3, SeatFacts DEF Turn, Hailed
  <2> QED BY <1>2, <2>1, <2>4, LeftFacts DEF Turn
<1>3. Abed(p)' <=> Abed(p) /\ ~(pc[p] = "seating" /\ client'[slot[p]].active)
      BY <1>1, <1>2 DEF Abed
<1>4. Abed(p)' => Now(p) \in Slept
      BY <1>3 DEF Turn, Fate, SeatFits
<1>5. Abed(p)' => Now(p)' \in Slept
      BY <1>3, <1>4 DEF Turn, Goes
<1> QED BY <1>3, <1>4, <1>5

LEMMA TurnSeat ==
    ASSUME NEW p \in Pilots, Turn(p)
    PROVE  SeatFits(p)'
<1>1. UNCHANGED <<sleeper, suit, pc, slot>> /\ (pc[p] # "away" => slot[p] \in Slots) /\ Goes(p) /\ SeatFits(p)
      /\ SectorStep
      BY StepFacts DEF Turn, Fate
<1>2. ASSUME pc[p] = "asking" \/ (pc[p] = "seating" /\ Joining(slot[p])'), sleeper[p] = NoSuit
      PROVE  Now(p)' = "queued"
  <2>1. pc[p] = "asking" \/ (pc[p] = "seating" /\ Joining(slot[p]))
        BY <1>1, <1>2, StepFacts
  <2>2. Now(p) = "queued"
        BY <1>2, <2>1, <1>1 DEF SeatFits
  <2> QED BY <1>1, <1>2, <2>2 DEF Goes
<1>3. ASSUME Seat(p)', NEW s \in Slots, s = slot[p]
      PROVE  IF client'[s].active
             THEN Outcome(s, Awake)' /\ (sleeper[p] # NoSuit => Outcome(s, {"Woke"})')
             ELSE Now(p)' \in IF sleeper[p] = NoSuit THEN {"unlaunched"} ELSE Slept \ {"asleep"}
  <2>2. CASE Left(s)
    <3>1. Seat(p)
      <4>1. ~Answered(s)
            BY <2>2, EffectFacts, LeftFacts, <1>1 DEF Bumping, Storing
      <4> QED BY <1>1, <1>3, <4>1, SeatFacts
    <3>2. IF client[s].active
          THEN Outcome(s, Awake) /\ (sleeper[p] # NoSuit => Outcome(s, {"Woke"}))
          ELSE Now(p) \in IF sleeper[p] = NoSuit THEN {"unlaunched"} ELSE Slept \ {"asleep"}
          BY <1>1, <1>3, <3>1 DEF SeatFits
    <3>3. client'[s].active = client[s].active /\ \A os : Outcome(s, os)' <=> Outcome(s, os)
          BY <1>1, <2>2, LeftFacts
    <3>4. CASE client[s].active
          BY <1>3, <3>2, <3>3, <3>4
    <3>5. CASE ~client[s].active
          BY <1>1, <1>3, <3>2, <3>3, <3>5 DEF Goes, Sound
    <3> QED BY <3>4, <3>5
  <2>3. CASE Hailed(s)
    <3>1. Storing(s)'
          BY <1>1, <1>3, <2>3, HailedFacts
    <3>2. CASE client'[s].active
      <4>1. \A i \in DOMAIN todo' : IsStore(todo'[i], s) =>
               todo'[i].val.outcome \in IF sleeper[p] = NoSuit THEN Awake ELSE {"Woke"}
            BY <1>3, <2>3, <3>2 DEF Hailed
      <4>2. "Woke" \in Awake
            BY DEF Awake
      <4>3. \A i \in DOMAIN todo' : IsStore(todo'[i], s) => todo'[i].val.outcome \in Awake
            BY <4>1, <4>2
      <4>4. Storable(s, Awake)'
            BY <4>3 DEF Storable
      <4>5. sleeper[p] # NoSuit => Storable(s, {"Woke"})'
            BY <4>1 DEF Storable
      <4> QED BY <3>1, <3>2, <4>4, <4>5 DEF Outcome
    <3>3. CASE ~client'[s].active
          BY <1>3, <2>3, <3>3 DEF Hailed
    <3> QED BY <3>2, <3>3
  <2>4. CASE Vacated(s)
    <3>1. ~Seat(p)
          BY <1>1, <1>3, <2>4, SeatFacts
    <3>2. Answered(s)
          BY <1>1, <1>3, <3>1, SeatFacts
    <3> QED BY <1>1, <2>4, <3>2, EffectFacts
  <2> QED BY <1>3, <2>2, <2>3, <2>4 DEF Turn
<1>4. ASSUME Abed(p)' PROVE Now(p)' \in Slept /\ (pc[p] = "entered" => Now(p)' # "asleep")
  <2>1. Abed(p) /\ Now(p)' \in Slept
        BY <1>4, AbedStays
  <2>2. pc[p] = "entered" => Now(p) \in Slept \ {"asleep"}
        BY <1>1, <2>1 DEF SeatFits
  <2> QED BY <1>1, <2>1, <2>2 DEF Goes
<1>5. Seat(p)' => slot[p] \in Slots
      BY <1>1 DEF Seat
<1> QED BY <1>1, <1>2, <1>3, <1>4, <1>5 DEF SeatFits

LEMMA TurnOut ==
    ASSUME NEW p \in Pilots, Turn(p)
    PROVE  OutFits(p)'
<1>1. UNCHANGED <<suit, pc, slot, lost, status>> /\ (pc[p] # "away" => slot[p] \in Slots) /\ Goes(p) /\ OutFits(p)
      /\ SectorStep
      BY StepFacts DEF Turn, Fate
<1> SUFFICES ASSUME suit[p] # NoSuit PROVE OutFits(p)'
    BY <1>1 DEF OutFits
<1>2. pc[p] \in {"entered", "play", "docking", "freeing"} /\ pc[p] # "seating"
      BY <1>1 DEF SectorStep, CalmInv, PhaseInv
<1>3. PICK s \in Slots : s = slot[p]
      BY <1>1, <1>2
<1>4. CASE Left(s)
  <2>1. /\ client'[s].active = client[s].active
        /\ Flying(s, {"Home"})' <=> Flying(s, {"Home"})
        /\ NotSlept(s)' <=> NotSlept(s)
        /\ SaysAsleep(s, LastSuit(p))' <=> SaysAsleep(s, LastSuit(p))
    <3>1. \A id : SaysAsleep(s, id)' <=> SaysAsleep(s, id)
          BY <1>1, <1>4, LeftFacts
    <3>2. SaysAsleep(s, LastSuit(p))' <=> SaysAsleep(s, LastSuit(p))
          BY <1>1, <3>1 DEF Goes, SaysAsleep
    <3> QED BY <1>1, <1>4, <3>2, LeftFacts
  <2>2. Nodding(p) => Nodding(p)'
    <3>1. Sleeping(s)' => Sleeping(s)
      <4>1. \A i \in DOMAIN control' : \E j \in DOMAIN control : control'[i] = control[j]
            BY <1>1, ControlLeft DEF SectorStep, SectorMoves, TypeInv
      <4> QED BY <4>1 DEF Sleeping
    <3>2. Now(p) \in Slept => Now(p)' \in Slept
          BY <1>1, <1>2 DEF Goes
    <3> QED BY <1>1, <1>3, <2>1, <3>1, <3>2 DEF Nodding, Goes
  <2>3. /\ Now(p) = "destroyed" => Now(p)' = "destroyed"
        /\ Now(p) = "docked" => Now(p)' = "docked"
        BY <1>1 DEF Goes, Sound
  <2> QED BY <1>1, <1>3, <2>1, <2>2, <2>3 DEF OutFits
<1>5. CASE Hailed(s)
      BY <1>1, <1>2, <1>3, <1>5, HailedFacts
<1>6. CASE Vacated(s) /\ Ended(s)
  <2>1. ~client'[s].active /\ Storing(s)' /\ status'[s] = status[s]
        BY <1>1, <1>6, EffectFacts DEF Vacated
  <2>2. CASE ~client[s].active
    <3>1. Takes("Sleep") /\ control[1].slot = s
          /\ \A i \in DOMAIN todo' : IsStore(todo'[i], s) => todo'[i].val.outcome \in {"Released", "Lost"}
          BY <1>6, <2>2 DEF Ended
    <3>2. Sleeping(s)
      <4>1. 1 \in DOMAIN control /\ control[1].op = "Sleep"
        <5>1. control \in Seq(Msgs) /\ control # <<>> /\ Head(control).op = "Sleep"
              BY <1>1, <3>1 DEF Takes, SectorStep, TypeInv, QueueTypes
        <5> HIDE DEF Msgs
        <5> QED BY <5>1, TailIs
      <4> QED BY <3>1, <4>1 DEF Sleeping
    <3>3. ~Nodding(p)
          BY <1>3, <3>2 DEF Nodding
    <3>4. NotSlept(s) => NotSlept(s)'
          BY <1>1, <3>1 DEF NotSlept, Storable, Awake
    <3>5. Flying(s, {"Home"}) => Flying(s, {"Home"})'
          BY <1>1, StepFacts DEF Flying
    <3> QED BY <1>1, <1>3, <2>1, <2>2, <3>3, <3>4, <3>5 DEF OutFits, Goes, Sound
  <2>3. CASE client[s].active
    <3>1. NotSlept(s) /\ client[s].suit = LastSuit(p) /\ LastSuit(p) # NoSuit
      <4>1. LastSuit(p) = suit[p]
            BY DEF Turn, Fate, LastFits, Is
      <4> QED BY <1>3, <2>3, <4>1 DEF Turn, Fate, LastFits, OutFits
    <3>2. Now(p)' = life'[client[s].suit] /\ Now(p) = life[client[s].suit] /\ LastSuit(p)' = LastSuit(p)
          BY <1>1, <3>1 DEF Now, Goes
    <3>3. CASE /\ life'[client[s].suit] = "destroyed"
               /\ \A i \in DOMAIN todo' : IsStore(todo'[i], s) => todo'[i].val.outcome \in {"Released", "Lost"}
      <4>1. NotSlept(s)'
            BY <1>1, <3>1, <3>3 DEF NotSlept, Storable, Awake
      <4> QED BY <1>1, <1>3, <2>1, <3>2, <3>3, <4>1 DEF OutFits
    <3>4. CASE /\ life'[client[s].suit] = "docked"
               /\ \A i \in DOMAIN todo' : IsStore(todo'[i], s) => todo'[i].val.outcome = "Docked"
               /\ \E i \in DOMAIN todo' : Tells(todo'[i], s, {"Home"})
      <4>1. NotSlept(s)'
            BY <1>1, <3>1, <3>4 DEF NotSlept, Storable, Awake
      <4>2. Flying(s, {"Home"})'
            BY <3>4 DEF Flying, Owed
      <4> QED BY <1>1, <1>3, <2>1, <3>2, <3>4, <4>1, <4>2 DEF OutFits
    <3>5. CASE /\ life[client[s].suit] = "flying" /\ life'[client[s].suit] = "asleep"
               /\ \A i \in DOMAIN todo' : IsStore(todo'[i], s) => /\ todo'[i].val.outcome = "Asleep"
                                                                  /\ todo'[i].val.suit = client[s].suit
               /\ Takes("Sleep") /\ control[1].slot = s /\ control' = Tail(control)
      <4>1. SaysAsleep(s, LastSuit(p))'
        <5>1. status[s].state # "Free"
          <6>1. Shows(status[s], client[s])
                BY <1>1, StepFacts
          <6> QED BY <2>3, <6>1 DEF Shows
        <5> QED BY <1>1, <2>1, <3>1, <3>2, <3>5, <5>1 DEF SaysAsleep
      <4>2. /\ 1 \in DOMAIN control /\ control[1].op = "Sleep"
            /\ \A i \in DOMAIN control' : i + 1 \in DOMAIN control /\ control'[i] = control[i + 1] /\ i + 1 # 1
            BY <1>1, <3>5, Taken DEF SectorStep
      <4>3. pc[p] = "freeing" /\ \A j \in DOMAIN control : control[j].op = "Sleep" /\ control[j].slot = s => 1 = j
            BY <1>3, <3>5, <4>2 DEF Turn, Fate, SleepsOnce
      <4>4. ~Sleeping(s)'
            BY <4>2, <4>3 DEF Sleeping
      <4>5. ~lost[p]
        <5>1. lost[p] => client[s].lost
              BY <1>1, <1>3, <2>3 DEF SectorStep, CalmInv, FlightInv
        <5>2. client[s].lost => life[client[s].suit] = "wreck"
              BY <1>1, <2>3 DEF SectorStep, CalmInv, ClientInv
        <5> QED BY <3>5, <5>1, <5>2
      <4>6. Nodding(p)'
            BY <1>1, <1>3, <3>2, <3>5, <4>1, <4>3, <4>4, <4>5 DEF Nodding, Slept
      <4> QED BY <1>1, <1>3, <2>1, <4>6 DEF OutFits
    <3> QED BY <1>6, <2>3, <3>3, <3>4, <3>5 DEF Ended
  <2> QED BY <2>2, <2>3
<1> QED BY <1>3, <1>4, <1>5, <1>6 DEF Turn

LEMMA TurnTold ==
    ASSUME NEW p \in Pilots, Turn(p)
    PROVE  ToldFits(p)'
<1>1. UNCHANGED <<pc, slot, reports>> /\ Goes(p) /\ ToldFits(p) /\ SectorStep
      BY StepFacts DEF Turn, Fate
<1> SUFFICES ASSUME NEW s \in Slots, s = slot[p]
             PROVE  /\ Flying(s, {"Home"})' => Now(p)' = "docked"
                    /\ Flying(s, Losses)' => Now(p)' \in Dead
    BY <1>1 DEF ToldFits
<1>2. /\ Flying(s, {"Home"}) => Now(p)' = "docked"
      /\ Flying(s, Losses) => Now(p)' \in Dead
      BY <1>1 DEF ToldFits, Goes, Sound
<1>3. \A what : Flying(s, what)' => Owed(s, what)' \/ Flying(s, what)
      BY <1>1, StepFacts DEF Flying
<1>4. client[s].active => client[s].suit \in Ids
      BY <1>1 DEF SectorStep, TypeInv, SectorTypes
<1>5. client[s].active => Now(p)' = life'[client[s].suit]
  <2>1. client[s].active => client[s].suit = LastSuit(p) /\ LastSuit(p) # NoSuit
        BY <1>4, NoSuitIs DEF Turn, Fate, LastFits
  <2> QED BY <1>1, <2>1 DEF Now, Goes
<1>6. CASE Left(s)
      BY <1>1, <1>2, <1>5, <1>6, LeftFacts DEF Dead
<1>7. CASE Hailed(s)
      BY <1>1, <1>2, <1>3, <1>7, HailedFacts
<1>8. CASE Vacated(s) /\ Ended(s)
  <2>1. ~Owed(s, Losses)'
    <3> SUFFICES ASSUME NEW i \in DOMAIN todo', Tells(todo'[i], s, Losses) PROVE FALSE
        BY DEF Owed
    <3>1. Farewell(s, i)
          BY <1>8 DEF Vacated, Tells, Says, Losses
    <3> QED BY <3>1 DEF Farewell, Tells, Losses
  <2>2. Owed(s, {"Home"})' => client[s].active /\ life'[client[s].suit] = "docked"
        BY <1>8 DEF Ended, Owed
  <2> QED BY <1>2, <1>3, <1>5, <2>1, <2>2
<1> QED BY <1>6, <1>7, <1>8 DEF Turn

LEMMA TurnSleeps ==
    ASSUME NEW p \in Pilots, Turn(p)
    PROVE  SleepsOnce(p)'
<1>1. UNCHANGED <<pc, slot, suit>> /\ SleepsOnce(p) /\ SectorStep
      BY StepFacts DEF Turn, Fate
<1>2. PICK f : /\ \A i \in DOMAIN control' : f[i] \in DOMAIN control /\ control'[i] = control[f[i]]
               /\ \A i, j \in DOMAIN control' : (f[i] = f[j] => i = j)
      BY <1>1, ControlLeft DEF SectorStep, SectorMoves, TypeInv
<1> QED BY <1>1, <1>2 DEF SleepsOnce

LEMMA TurnFate == ASSUME NEW p \in Pilots, Turn(p) PROVE Fate(p)'
BY TurnLast, TurnBay, TurnSeat, TurnOut, TurnTold, TurnSleeps DEF Fate

-----------------------------------------------------------------------------
(* What a message handled has left to note: nothing yet, but the sleepers it cleared. *)
Cleared ==
    \A i \in DOMAIN fates' :
        \/ i \in DOMAIN fates /\ fates'[i] = fates[i]
        \/ /\ fates'[i].fate = "Lost" /\ fates'[i].suit \in Ids
           /\ life[fates'[i].suit] = "asleep" /\ life'[fates'[i].suit] = "evicted"

(* It strikes no sleeper, and lets a suit sleep only for a session that leaves. *)
Unstruck == \A id \in Ids : life[id] = "asleep" => life'[id] # "wreck"
Dozes ==
    \A id \in Ids : life'[id] = "asleep" =>
        \/ life[id] = "asleep"
        \/ \E s \in Slots : client[s].active /\ client[s].suit = id /\ In(s, "freeing")

LEMMA ClearedBy ==
    ASSUME fates \in Seq(Fates), NEW room,
           \A id \in Ids : room[id] = life[id] \/ (room[id] = "evicted" /\ life[id] = "asleep"),
           \A id \in Ids : room[id] = "evicted" => life'[id] = "evicted",
           fates' = fates \o Evictions(life, room)
    PROVE  Cleared
<1> PICK e \in Seq(Fates) : e = Evictions(life, room)
    BY EvictionsAre
<1>1. \A i \in DOMAIN e : \E id \in Ids : /\ e[i] = [suit |-> id, fate |-> "Lost"]
                                         /\ life[id] # "evicted" /\ room[id] = "evicted"
      BY EvictionsAre
<1>2. \A i \in DOMAIN e : /\ e[i].fate = "Lost" /\ e[i].suit \in Ids
                          /\ life[e[i].suit] = "asleep" /\ life'[e[i].suit] = "evicted"
      BY <1>1
<1>3. fates' = fates \o e
      OBVIOUS
<1>4. \A i \in DOMAIN fates' : \/ i \in DOMAIN fates /\ fates'[i] = fates[i]
                               \/ \E j \in DOMAIN e : fates'[i] = e[j]
  <2> DEFINE k == Len(fates)
             l == Len(e)
  <2>1. /\ DOMAIN fates = 1..k /\ DOMAIN e = 1..l /\ k \in Nat /\ l \in Nat /\ DOMAIN fates' = 1..(k + l)
        /\ \A i \in 1..k : fates'[i] = fates[i]
        /\ \A i \in 1..l : fates'[k + i] = e[i]
        BY <1>3, CatIs
  <2> HIDE DEF k, l
  <2>2. ASSUME NEW i \in 1..(k + l), ~(i \in 1..k) PROVE i - k \in 1..l /\ k + (i - k) = i
        BY <2>1, <2>2
  <2> QED BY <2>1, <2>2
<1> QED BY <1>2, <1>4 DEF Cleared


(* Handling a Join: the suit launched or woken is seated, or what became of it is why it
   isn't. *)
LEMMA JoinFates ==
    ASSUME TypeInv, CalmInv, Calm, FateInv, HandleJoin
    PROVE  Hailed(control[1].slot) /\ Fortunes /\ Cleared /\ Noteless /\ Unstruck /\ Dozes
<1>1. /\ control' = Tail(control) /\ Takes("Join") /\ Handled
      BY Zenon DEF HandleJoin, record, session, Handled
<1>2. /\ Head(control) = control[1] /\ 1 \in DOMAIN control /\ control[1] \in Msgs
      /\ control[1].op = "Join"
      BY <1>1, Taken
<1>3. Answered(control[1].slot)
      BY JoinStep
<1> PICK m \in Msgs : m = control[1]
    BY <1>2
<1> PICK s \in Slots : s = m.slot
    BY DEF Msgs
<1> PICK p \in Pilots : p = m.who
    BY DEF Msgs
<1>4. slot[p] = s /\ pc[p] = "seating" /\ suit[p] = NoSuit
      BY <1>2 DEF CalmInv, JoinInv, PhaseInv
<1>5. Joining(s)
      BY <1>2 DEF Joining
<1>6. ~client[s].active
  <2>1. \A q \in Pilots : q = p => (pc[q] = "seating" /\ Joining(slot[q]) => ~client[slot[q]].active)
        BY DEF CalmInv, SeatInv
  <2> QED BY <1>4, <1>5, <2>1
<1>7. \A q \in Pilots : slot[q] = s => q = p
      BY <1>4, OneSession DEF TypeInv
<1> PICK id \in SomeSuit : id = LastSuit(p)
    BY LastSuitType
<1>8. /\ m.wake = sleeper[p] /\ m.launch = IF sleeper[p] = NoSuit THEN id ELSE NoSuit
      /\ Is(p, sleeper[p])
      BY <1>2 DEF FateInv, Fate, LastFits
<1>9. /\ id \in Ids => owner[id] = p
      /\ id = NoSuit \/ id \in Ids
      BY LastSuitIs, NoSuitIs DEF SomeSuit
<1>10. /\ Now(p) = (IF id = NoSuit THEN "unborn" ELSE life[id])
       /\ Now(p)' = (IF id = NoSuit THEN "unborn" ELSE life'[id])
  <2>1. LastSuit(p)' = LastSuit(p)
        BY <1>1 DEF Handled, LastSuit
  <2> QED BY <2>1 DEF Now
<1>11. sleeper[p] = NoSuit => Now(p) = "queued"
  <2>1. \A q \in Pilots : q = p => (pc[q] = "seating" /\ Joining(slot[q]) => (sleeper[q] = NoSuit => Now(q) = "queued"))
        BY DEF FateInv, Fate, SeatFits
  <2> QED BY <1>4, <1>5, <2>1
<1>12. sleeper[p] # NoSuit => Now(p) \in Slept
  <2>1. sleeper[p] # NoSuit => Abed(p)
        BY <1>4, <1>6 DEF Abed
  <2> QED BY <2>1 DEF FateInv, Fate, SeatFits
<1>13. /\ ~Torn /\ life \in [Ids -> Lives] /\ client \in [Slots -> Clients] /\ fates \in Seq(Fates)
       BY DEF Calm, TypeInv, SectorTypes, QueueTypes
<1> DEFINE Said(outcome) == \A i \in DOMAIN todo' : IsStore(todo'[i], s) => todo'[i].val.outcome = outcome
<1>14. ASSUME NEW state \in States, NEW i \in SomeSuit, NEW outcome \in Outcomes,
              todo' = Publish(s, state, i, outcome)
       PROVE  Said(outcome) /\ Noteless
  <2>1. PICK w \in Writes : /\ Publish(s, state, i, outcome) = <<w>> /\ IsStore(w, s)
                            /\ w.val = [suit |-> i, outcome |-> outcome, state |-> state]
        BY <1>13, PublishedWhole
  <2>2. DOMAIN todo' = {1} /\ todo'[1] = w
    <3> HIDE DEF Writes
    <3> QED BY <1>14, <2>1
  <2> QED BY <2>1, <2>2 DEF IsStore, Noteless
<1>15. {"Active", "Refused"} \subseteq States /\ {"Woke", "Fresh"} \subseteq Outcomes /\ NoSuit \in SomeSuit
       /\ Ids \subseteq SomeSuit
       BY DEF States, Outcomes, SomeSuit
<1>16. ASSUME IF client'[s].active
              THEN /\ client'[s].suit = id /\ Now(p)' \in {"cradle", "flying"}
                   /\ \E outcome \in IF sleeper[p] = NoSuit THEN Awake ELSE {"Woke"} : Said(outcome)
              ELSE Now(p)' \in IF sleeper[p] = NoSuit THEN {"unlaunched"} ELSE Slept \ {"asleep"}
       PROVE  Hailed(s)
       BY <1>3, <1>7, <1>16 DEF Hailed
<1> HIDE DEF Said
<1>17. CASE sleeper[p] # NoSuit /\ life[sleeper[p]] = "asleep"
  <2>1. sleeper[p] = id /\ id \in Ids /\ m.wake = id
        BY <1>8, <1>9, <1>17 DEF Is
  <2>2. /\ life' = [life EXCEPT ![id] = "flying"] /\ client' = Seated(s, id)
        /\ todo' = Publish(s, "Active", id, "Woke") /\ fates' = fates
        BY <1>2, <1>6, <1>17, <2>1, SMTT(90) DEF HandleJoin
  <2>3. client'[s].active /\ client'[s].suit = id /\ Now(p)' = "flying"
        BY <1>10, <1>13, <2>1, <2>2, NoSuitIs DEF Seated
  <2>4. Said("Woke") /\ Noteless
        BY <1>14, <1>15, <2>1, <2>2
  <2>5. Hailed(s)
        BY <1>16, <1>17, <2>3, <2>4
  <2>6. Fortunes
        BY <1>3, <1>13, <1>17, <2>1, <2>2, <2>3 DEF Fortunes
  <2>7. Cleared
        BY <2>2 DEF Cleared
  <2>8. Unstruck /\ Dozes
        BY <1>13, <2>2 DEF Unstruck, Dozes
  <2> QED BY <2>4, <2>5, <2>6, <2>7, <2>8
<1>18. CASE sleeper[p] # NoSuit /\ life[sleeper[p]] # "asleep"
  <2>1. sleeper[p] = id /\ id # NoSuit /\ m.launch = NoSuit
        BY <1>8, <1>9, <1>18 DEF Is
  <2>2. life' = life /\ client' = client /\ todo' = Publish(s, "Refused", NoSuit, "Fresh") /\ fates' = fates
        BY <1>2, <1>6, <1>8, <1>18, <2>1, SMTT(90) DEF HandleJoin
  <2>3. ~client'[s].active /\ Now(p)' = Now(p) /\ Now(p) # "asleep"
        BY <1>6, <1>10, <1>18, <2>1, <2>2
  <2>4. Hailed(s)
        BY <1>12, <1>16, <1>18, <2>3
  <2>5. Noteless
        BY <1>14, <1>15, <2>2
  <2> QED BY <2>2, <2>4, <2>5 DEF Fortunes, Cleared, Unstruck, Dozes
<1>19. CASE sleeper[p] = NoSuit
  <2>1. m.wake = NoSuit /\ m.launch = id /\ id \in Ids /\ life[id] = "queued" /\ id # NoSuit
        BY <1>8, <1>9, <1>10, <1>11, <1>19
  <2>2. PICK room \in MadeRoom(life, Cardinality(Held(life)) >= SimCap) :
           /\ fates' = fates \o Evictions(life, room)
           /\ \/ /\ life' = [room EXCEPT ![id] = "cradle"] /\ client' = Seated(s, id)
                 /\ todo' = Publish(s, "Active", id, "Fresh")
              \/ /\ life' = [room EXCEPT ![id] = "unlaunched"] /\ client' = client
                 /\ todo' = Publish(s, "Refused", NoSuit, "Fresh")
        BY <1>2, <1>6, <2>1 DEF HandleJoin
  <2>3. /\ room \in [Ids -> Lives]
        /\ \A i \in Ids : room[i] = life[i] \/ (room[i] = "evicted" /\ life[i] = "asleep")
        BY <1>13, RoomType
  <2>4. \A i \in Ids : i # id => life'[i] = room[i]
        BY <2>2, <2>3
  <2>5. Cleared
        BY <1>13, <2>1, <2>2, <2>3, <2>4, ClearedBy, SMTT(30)
  <2>6. Fortunes
        BY <2>1, <2>3, <2>4 DEF Fortunes
  <2>9. Unstruck /\ Dozes
        BY <2>2, <2>3, <2>4 DEF Unstruck, Dozes
  <2>7. CASE /\ life' = [room EXCEPT ![id] = "cradle"] /\ client' = Seated(s, id)
             /\ todo' = Publish(s, "Active", id, "Fresh")
    <3>1. client'[s].active /\ client'[s].suit = id /\ Now(p)' = "cradle"
          BY <1>10, <1>13, <2>1, <2>3, <2>7 DEF Seated
    <3>2. Said("Fresh") /\ Noteless
          BY <1>14, <1>15, <2>1, <2>7
    <3>3. Hailed(s)
          BY <1>16, <1>19, <3>1, <3>2 DEF Awake
    <3> QED BY <2>5, <2>6, <2>9, <3>2, <3>3
  <2>8. CASE /\ life' = [room EXCEPT ![id] = "unlaunched"] /\ client' = client
             /\ todo' = Publish(s, "Refused", NoSuit, "Fresh")
    <3>1. life'[id] = "unlaunched" /\ ~client'[s].active
          BY <1>6, <2>1, <2>3, <2>8
    <3>2. Hailed(s)
          BY <1>10, <1>16, <1>19, <2>1, <3>1
    <3>3. Noteless
          BY <1>14, <1>15, <2>8
    <3> QED BY <2>5, <2>6, <2>9, <3>2, <3>3
  <2> QED BY <2>2, <2>7, <2>8
<1> QED BY <1>17, <1>18, <1>19

(* Handling any other message. *)
LEMMA SleepFates ==
    ASSUME TypeInv, CalmInv, Calm, HandleSleep
    PROVE  Fortunes /\ Cleared /\ Unstruck /\ Dozes
<1>1. control[1] \in Msgs /\ Head(control) = control[1]
  <2>1. control' = Tail(control) /\ Takes("Sleep")
        BY Zenon DEF HandleSleep
  <2> QED BY <2>1, Taken
<1> PICK s \in Slots : s = control[1].slot
    BY <1>1 DEF Msgs
<1>2. OthersLive(s) /\ Ended(s) /\ Vacated(s)
      BY SleepStep
<1>3. Fortunes
  <2>1. ASSUME client[s].active, life[client[s].suit] = "wreck" PROVE life'[client[s].suit] = "destroyed"
    <3>1. ~\E i \in DOMAIN todo' : Tells(todo'[i], s, {"Home"})
      <4> SUFFICES ASSUME NEW i \in DOMAIN todo', Tells(todo'[i], s, {"Home"}) PROVE FALSE
          OBVIOUS
      <4>1. Farewell(s, i)
            BY <1>2 DEF Vacated, Tells, Says
      <4> QED BY <2>1, <4>1 DEF Farewell, Tells
    <3> QED BY <1>2, <2>1, <3>1 DEF Ended
  <2> QED BY <1>2, <2>1 DEF OthersLive, Fortunes
<1>4. Cleared
  <2>1. /\ life \in [Ids -> Lives] /\ fates \in Seq(Fates)
        /\ client[s].active => client[s].suit \in Ids
        BY DEF TypeInv, SectorTypes, QueueTypes
  <2>2. fates' = fates \/ \E room \in MadeRoom(life, Cardinality({i \in Ids : life[i] = "asleep"}) >= MaxSleepers) :
           /\ life' = [room EXCEPT ![client[s].suit] = "asleep"]
           /\ life[client[s].suit] = "flying" /\ client[s].active
           /\ fates' = fates \o Evictions(life, room)
        BY <1>1, Zenon DEF HandleSleep
  <2>3. CASE fates' = fates
        BY <2>3 DEF Cleared
  <2>4. CASE fates' # fates
    <3>1. PICK room \in MadeRoom(life, Cardinality({i \in Ids : life[i] = "asleep"}) >= MaxSleepers) :
             /\ life' = [room EXCEPT ![client[s].suit] = "asleep"]
             /\ life[client[s].suit] = "flying" /\ client[s].active
             /\ fates' = fates \o Evictions(life, room)
          BY <2>2, <2>4
    <3>2. /\ room \in [Ids -> Lives]
          /\ \A i \in Ids : room[i] = life[i] \/ (room[i] = "evicted" /\ life[i] = "asleep")
          BY <2>1, RoomType
    <3>3. \A i \in Ids : room[i] = "evicted" => life'[i] = "evicted"
          BY <2>1, <3>1, <3>2
    <3> QED BY <2>1, <3>1, <3>2, <3>3, ClearedBy
  <2> QED BY <2>3, <2>4
<1>5. Unstruck
      BY <1>2 DEF OthersLive, Unstruck
<1>6. Dozes
  <2>1. 1 \in DOMAIN control /\ control[1].op = "Sleep"
    <3>1. Takes("Sleep") /\ control' = Tail(control)
          BY Zenon DEF HandleSleep
    <3> QED BY <3>1, Taken
  <2>2. client[s].active => In(s, "freeing")
        BY <2>1 DEF CalmInv, MsgInv
  <2> QED BY <1>2, <2>2 DEF OthersLive, Dozes
<1> QED BY <1>3, <1>4, <1>5, <1>6

LEMMA DockFates ==
    ASSUME TypeInv, CalmInv, Calm, HandleDock
    PROVE  Fortunes /\ Cleared /\ Unstruck /\ Dozes
<1>1. control[1] \in Msgs /\ fates' = fates
  <2>1. control' = Tail(control) /\ Takes("Dock") /\ fates' = fates
        BY Zenon DEF HandleDock
  <2> QED BY <2>1, Taken
<1> PICK s \in Slots : s = control[1].slot
    BY <1>1 DEF Msgs
<1>2. OthersLive(s) /\ ((Ended(s) /\ Vacated(s)) \/ life' = life)
      BY DockStep
<1>3. CASE life' = life
      BY <1>1, <1>3 DEF Fortunes, Cleared, Unstruck, Dozes
<1>4. CASE Ended(s) /\ Vacated(s)
  <2>1. ASSUME client[s].active, life[client[s].suit] = "wreck" PROVE life'[client[s].suit] = "destroyed"
    <3>1. ~\E i \in DOMAIN todo' : Tells(todo'[i], s, {"Home"})
      <4> SUFFICES ASSUME NEW i \in DOMAIN todo', Tells(todo'[i], s, {"Home"}) PROVE FALSE
          OBVIOUS
      <4>1. Farewell(s, i)
            BY <1>4 DEF Vacated, Tells, Says
      <4> QED BY <2>1, <4>1 DEF Farewell, Tells
    <3> QED BY <1>4, <2>1, <3>1 DEF Ended
  <2>2. Fortunes
        BY <1>2, <2>1 DEF OthersLive, Fortunes
  <2>3. ~Takes("Sleep")
        BY Zenon DEF HandleDock, Takes
  <2>4. Unstruck /\ Dozes
    <3>1. client[s].active => life'[client[s].suit] # "asleep"
          BY <1>4, <2>3 DEF Ended
    <3> QED BY <1>2, <3>1 DEF OthersLive, Unstruck, Dozes
  <2> QED BY <1>1, <2>2, <2>4 DEF Cleared
<1> QED BY <1>2, <1>3, <1>4

LEMMA EjectFates ==
    ASSUME TypeInv, CalmInv, Calm, HandleEject \/ HandleTow
    PROVE  Fortunes /\ Cleared /\ Unstruck /\ Dozes
<1>1. fates' = fates
      BY Zenon DEF HandleEject, HandleTow
<1>2. CASE HandleTow
      BY <1>1, <1>2 DEF HandleTow, sim, Fortunes, Cleared, Unstruck, Dozes
<1>3. CASE HandleEject
  <2> DEFINE id == client[Head(control).slot].suit
  <2>1. life' = life \/ (life' = [life EXCEPT ![id] = "wreck"] /\ Flyable(id))
        BY <1>3, Zenon DEF HandleEject
  <2>2. life \in [Ids -> Lives]
        BY DEF TypeInv, SectorTypes
  <2> HIDE DEF id
  <2>3. \A i \in Ids : life'[i] = life[i] \/ (life[i] \in {"cradle", "flying"} /\ life'[i] = "wreck")
        BY <2>1, <2>2 DEF Flyable
  <2> QED BY <1>1, <2>3 DEF Fortunes, Cleared, Unstruck, Dozes
<1> QED BY <1>2, <1>3

LEMMA TicksFortunes ==
    ASSUME Ticked
    PROVE  Fortunes
<1>1. PICK lf \in [Ids -> Lives] : life' = lf /\ Ticks(lf)
      BY DEF Ticked, EndTick
<1> QED BY <1>1 DEF Ticks, Fortunes

(* Whatever the sector does of its own, the pilots' suits fare as they may. *)
Steps == HandleJoin \/ HandleSleep \/ HandleDock \/ HandleEject \/ HandleTow \/ Ticked

(* It has nothing to note but the sleepers it cleared, for the next tick; or it ticks, and
   notes what there is. *)
Striking ==
    /\ control = <<>> /\ fates' = <<>>
    /\ \E fate \in Seq(Fates) : Notices(fates \o fate) /\ Strikes(life', fate)
Turns ==
    /\ SectorStep /\ Fortunes /\ Dozes /\ UNCHANGED <<notes, news, bound, inHand>>
    /\ \A p \in Pilots : Turn(p)
    /\ \A s \in Slots : Left(s) \/ Hailed(s) \/ (Vacated(s) /\ Ended(s))
    /\ (Noteless /\ Cleared /\ Unstruck) \/ Striking

LEMMA TicksNote ==
    ASSUME TypeInv, CalmInv, Calm, Ticked
    PROVE  Striking /\ Dozes
<1>1. PICK lf \in [Ids -> Lives], fate \in Seq(Fates) :
         \E tugs : Ticks(lf) /\ Strikes(lf, fate) /\ EndTick(lf, fate, tugs)
      BY DEF Ticked
<1>2. PICK tugs : EndTick(lf, fate, tugs)
      BY <1>1
<1>3. Notices(fates \o fate)
      BY <1>2, TickWrites DEF Calm
<1>4. life' = lf /\ control = <<>> /\ fates' = <<>>
      BY <1>2, Zenon DEF EndTick
<1>5. Dozes
      BY <1>1, <1>4 DEF Ticks, Dozes
<1> QED BY <1>1, <1>3, <1>4, <1>5 DEF Striking

LEMMA StepsTurn ==
    ASSUME TypeInv, CalmInv, Calm, FateInv, Steps
    PROVE  Turns
<1>1. UNCHANGED <<bay, poll, notes, news, bound, inHand>>
      BY Zenon DEF Steps, HandleJoin, HandleSleep, HandleDock, HandleEject, HandleTow, Ticked, EndTick, record, session,
                   registry
<1>2. /\ SectorStep /\ Fortunes /\ Dozes /\ ((Noteless /\ Cleared /\ Unstruck) \/ Striking)
      /\ \A s \in Slots : Left(s) \/ Hailed(s) \/ (Vacated(s) /\ Ended(s))
  <2>1. CASE Ticked
    <3>1. SectorStep /\ \A s \in Slots : Spared(s) \/ (Vacated(s) /\ Ended(s)) \/ Wrecked(s)
          BY <2>1, EndStep DEF Ticked
    <3> QED BY <2>1, <3>1, TicksFortunes, TicksNote DEF Left
  <2>2. CASE HandleJoin
        BY <2>2, JoinStep, JoinFates DEF Left
  <2>3. CASE HandleSleep
        BY <2>3, SleepStep, SleepFates DEF Left
  <2>4. CASE HandleDock
        BY <2>4, DockStep, DockFates DEF Left
  <2>5. CASE HandleEject \/ HandleTow
        BY <2>5, EjectStep, TowStep, EjectFates DEF Left
  <2> QED BY <2>1, <2>2, <2>3, <2>4, <2>5 DEF Steps
<1>3. ASSUME NEW p \in Pilots PROVE Turn(p)
      BY <1>1, <1>2, GoesOn DEF Turn, FateInv
<1> QED BY <1>1, <1>2, <1>3 DEF Turns

LEMMA StepsFate ==
    ASSUME TypeInv, CalmInv, Calm, FateInv, Steps
    PROVE  SectorStep /\ FateInv'
BY StepsTurn, TurnFate DEF Turns, FateInv

-----------------------------------------------------------------------------
(* The sector makes its next write: what it says, it has said. *)
LEMMA Wrote ==
    ASSUME TypeInv, CalmInv, SectorWrite
    PROVE  /\ todo # <<>> /\ todo' = Tail(todo)
           /\ Head(todo) = todo[1] /\ 1 \in DOMAIN todo /\ todo[1] \in Writes
           /\ \A i \in DOMAIN todo' : todo'[i] = todo[i + 1] /\ i + 1 \in DOMAIN todo /\ 1 < i + 1
           /\ \A i \in DOMAIN todo : i = 1 \/ (i - 1 \in DOMAIN todo' /\ todo'[i - 1] = todo[i])
           /\ UNCHANGED <<control, client, life, owner, launched, sleeper, pc, slot, suit, lost, bay, poll>>
           /\ \A s \in Slots : ~IsStore(todo[1], s) => status'[s] = status[s]
           /\ \A s \in Slots : IsStore(todo[1], s) =>
                 /\ status'[s].state = todo[1].val.state /\ status'[s].suit = todo[1].val.suit
                 /\ status'[s].outcome = todo[1].val.outcome
           /\ \A s \in Slots : \/ reports'[s] = reports[s]
                               \/ /\ todo[1].kind = "report" /\ todo[1].slot = s /\ todo[1].val \in Tellings
                                  /\ reports'[s] = Append(reports[s], todo[1].val)
           /\ \A s \in Slots : todo[1].kind = "report" /\ todo[1].slot = s /\ Len(reports[s]) < ReportCap =>
                 todo[1].val \in Tellings /\ reports'[s] = Append(reports[s], todo[1].val)
<1> DEFINE w == Head(todo)
<1>1. /\ todo' = Tail(todo) /\ todo # <<>>
      /\ status' = IF w.kind = "store" THEN [status EXCEPT ![w.slot] = Stored(@, w)] ELSE status
      /\ reports' = IF w.kind = "report" THEN [reports EXCEPT ![w.slot] = PushReport(@, w.val)]
                    ELSE reports
      /\ UNCHANGED <<control, client, life, owner, launched, sleeper, pc, slot, suit, lost, bay, poll>>
      BY DEF SectorWrite, sim, record, session
<1>2. todo \in Seq(Writes) /\ status \in [Slots -> Statuses] /\ reports \in [Slots -> Seq(Tellings)]
      BY DEF TypeInv, QueueTypes
<1> HIDE DEF Writes, Statuses, Tellings
<1>3. /\ w = todo[1] /\ 1 \in DOMAIN todo /\ w \in Writes
      /\ \A i \in DOMAIN Tail(todo) : Tail(todo)[i] = todo[i + 1] /\ i + 1 \in DOMAIN todo /\ 1 < i + 1
      /\ \A i \in DOMAIN todo : i = 1 \/ (i - 1 \in DOMAIN Tail(todo) /\ Tail(todo)[i - 1] = todo[i])
      BY <1>1, <1>2, TailIs
<1> HIDE DEF w
<1>4. \A s \in Slots : ~IsStore(w, s) => status'[s] = status[s]
  <2>1. w.kind = "store" => w.slot \in Slots
        BY <1>3 DEF Writes, Stores, Reports, Noticed
  <2> QED BY <1>1, <1>2, <2>1 DEF IsStore
<1>5. ASSUME NEW s \in Slots, IsStore(w, s)
      PROVE  /\ status'[s].state = w.val.state /\ status'[s].suit = w.val.suit
             /\ status'[s].outcome = w.val.outcome
  <2>1. w.val \in Whole
        BY <1>3, <1>5 DEF CalmInv, StatusInv
  <2>2. DOMAIN w.val = {"suit", "outcome", "state"}
        BY <2>1 DEF Whole
  <2>3. status[s] \in Statuses
        BY <1>2
  <2>4. DOMAIN status[s] = {"state", "suit", "epoch", "outcome"}
        BY <2>3 DEF Statuses
  <2>5. status'[s] = Stored(status[s], w)
        BY <1>1, <1>2, <1>5 DEF IsStore
  <2> QED BY <2>2, <2>4, <2>5 DEF Stored
<1>6. w.kind = "report" => w.slot \in Slots /\ w.val \in Tellings
      BY <1>3 DEF Writes, Stores, Reports, Noticed
<1>7. \A s \in Slots : w.kind = "report" /\ w.slot = s => reports'[s] = PushReport(reports[s], w.val)
      BY <1>1, <1>2
<1>8. \A s \in Slots : ~(w.kind = "report" /\ w.slot = s) => reports'[s] = reports[s]
      BY <1>1, <1>2, <1>6
<1>9. /\ Tail(todo) = todo' /\ w = todo[1]
      BY <1>1, <1>3
<1>10. \A s \in Slots : ~IsStore(todo[1], s) => status'[s] = status[s]
       BY <1>4, <1>9
<1>11. \A s \in Slots : IsStore(todo[1], s) =>
          /\ status'[s].state = todo[1].val.state /\ status'[s].suit = todo[1].val.suit
          /\ status'[s].outcome = todo[1].val.outcome
       BY <1>5, <1>9
<1>12. \A s \in Slots : \/ reports'[s] = reports[s]
                         \/ /\ w.kind = "report" /\ w.slot = s /\ w.val \in Tellings
                            /\ reports'[s] = Append(reports[s], w.val)
       BY <1>6, <1>7, <1>8 DEF PushReport
<1>13. \A s \in Slots : w.kind = "report" /\ w.slot = s /\ Len(reports[s]) < ReportCap =>
          w.val \in Tellings /\ reports'[s] = Append(reports[s], w.val)
       BY <1>6, <1>7 DEF PushReport
<1>14. /\ Head(todo) = todo[1] /\ 1 \in DOMAIN todo /\ todo[1] \in Writes
       /\ \A i \in DOMAIN todo' : todo'[i] = todo[i + 1] /\ i + 1 \in DOMAIN todo /\ 1 < i + 1
       /\ \A i \in DOMAIN todo : i = 1 \/ (i - 1 \in DOMAIN todo' /\ todo'[i - 1] = todo[i])
  <2>1. Head(todo) = todo[1] /\ 1 \in DOMAIN todo /\ todo[1] \in Writes
        BY <1>3, <1>9 DEF w
  <2>2. \A i \in DOMAIN Tail(todo) : Tail(todo)[i] = todo[i + 1] /\ i + 1 \in DOMAIN todo /\ 1 < i + 1
        BY <1>3
  <2>3. \A i \in DOMAIN todo : i = 1 \/ (i - 1 \in DOMAIN Tail(todo) /\ Tail(todo)[i - 1] = todo[i])
        BY <1>3
  <2> QED BY <1>9, <2>1, <2>2, <2>3, Zenon
<1>15. /\ \A s \in Slots : \/ reports'[s] = reports[s]
                            \/ /\ todo[1].kind = "report" /\ todo[1].slot = s /\ todo[1].val \in Tellings
                               /\ reports'[s] = Append(reports[s], todo[1].val)
       /\ \A s \in Slots : todo[1].kind = "report" /\ todo[1].slot = s /\ Len(reports[s]) < ReportCap =>
             todo[1].val \in Tellings /\ reports'[s] = Append(reports[s], todo[1].val)
       BY <1>9, <1>12, <1>13, Zenon
<1> QED BY <1>1, <1>10, <1>11, <1>14, <1>15, Zenon

LEMMA WroteSays ==
    ASSUME TypeInv, CalmInv, SectorWrite, NEW s \in Slots
    PROVE  /\ \A os : Outcome(s, os) => Outcome(s, os)'
           /\ NotSlept(s) => NotSlept(s)'
           /\ \A id : SaysAsleep(s, id) => SaysAsleep(s, id)'
           /\ \A what : Flying(s, what)' => Flying(s, what)
           /\ HomeFits /\ Flying(s, {"Home"}) => Flying(s, {"Home"})'
<1>1. /\ 1 \in DOMAIN todo
      /\ \A i \in DOMAIN todo' : todo'[i] = todo[i + 1] /\ i + 1 \in DOMAIN todo
      /\ \A i \in DOMAIN todo : i = 1 \/ (i - 1 \in DOMAIN todo' /\ todo'[i - 1] = todo[i])
      /\ ~IsStore(todo[1], s) => status'[s] = status[s]
      /\ IsStore(todo[1], s) =>
            /\ status'[s].state = todo[1].val.state /\ status'[s].suit = todo[1].val.suit
            /\ status'[s].outcome = todo[1].val.outcome
      BY Wrote
<1>2. \A os : Storable(s, os) => Storable(s, os)' /\ (IsStore(todo[1], s) => status'[s].outcome \in os)
      BY <1>1 DEF Storable
<1>3. ~Storing(s)' => IsStore(todo[1], s) \/ ~Storing(s)
      BY <1>1 DEF Storing
<1>4. \A os : Outcome(s, os) => Outcome(s, os)'
      BY <1>1, <1>2, <1>3 DEF Outcome
<1>5. NotSlept(s) => NotSlept(s)'
      BY <1>1, <1>2 DEF NotSlept
<1>6. \A id : SaysAsleep(s, id) => SaysAsleep(s, id)'
  <2> SUFFICES ASSUME NEW id, SaysAsleep(s, id) PROVE SaysAsleep(s, id)'
      OBVIOUS
  <2>1. \A i \in DOMAIN todo : IsStore(todo[i], s) => todo[i].val.outcome = "Asleep" /\ todo[i].val.suit = id
        BY DEF SaysAsleep
  <2>2. \A i \in DOMAIN todo' : IsStore(todo'[i], s) => todo'[i].val.outcome = "Asleep" /\ todo'[i].val.suit = id
        BY <1>1, <2>1
  <2>3. CASE IsStore(todo[1], s)
        BY <1>1, <2>1, <2>2, <2>3 DEF SaysAsleep
  <2>4. CASE ~IsStore(todo[1], s)
        BY <1>1, <1>3, <2>2, <2>4 DEF SaysAsleep
  <2> QED BY <2>3, <2>4
<1>7. QueueTypes /\ reports[s] \in Seq(Tellings)
      BY DEF TypeInv, QueueTypes
<1>8. \/ reports'[s] = reports[s]
      \/ /\ todo[1].kind = "report" /\ todo[1].slot = s
         /\ DOMAIN reports'[s] = 1..(Len(reports[s]) + 1) /\ DOMAIN reports[s] = 1..Len(reports[s])
         /\ Len(reports[s]) \in Nat /\ reports'[s][Len(reports[s]) + 1] = todo[1].val
         /\ \A i \in 1..Len(reports[s]) : reports'[s][i] = reports[s][i]
  <2> HIDE DEF Tellings
  <2>1. CASE todo[1].kind = "report" /\ todo[1].slot = s /\ todo[1].val \in Tellings
             /\ reports'[s] = Append(reports[s], todo[1].val)
        BY <1>7, <2>1, AppendIs
  <2> QED BY <2>1, Wrote
<1>9. \A what : /\ Rung(s, what)' => Rung(s, what) \/ Tells(todo[1], s, what)
                /\ Rung(s, what) => Rung(s, what)'
  <2>1. CASE reports'[s] = reports[s]
        BY <2>1 DEF Rung
  <2>2. CASE reports'[s] # reports[s]
    <3>1. \A i \in DOMAIN reports'[s] : i \in DOMAIN reports[s] \/ i = Len(reports[s]) + 1
          BY <1>8, <2>2
    <3>2. \A i \in DOMAIN reports[s] : i \in DOMAIN reports'[s] /\ reports'[s][i] = reports[s][i]
          BY <1>8, <2>2
    <3> QED BY <1>8, <2>2, <3>1, <3>2 DEF Rung, Tells
  <2> QED BY <2>1, <2>2
<1>10. \A what : /\ Owed(s, what)' => Owed(s, what)
                 /\ Owed(s, what) => Owed(s, what)' \/ Tells(todo[1], s, what)
                 /\ Tells(todo[1], s, what) => Owed(s, what)
       BY <1>1 DEF Owed
<1>11. HomeFits /\ Tells(todo[1], s, {"Home"}) => Rung(s, {"Home"})'
  <2> SUFFICES ASSUME HomeFits, Tells(todo[1], s, {"Home"}) PROVE Rung(s, {"Home"})'
      OBVIOUS
  <2>1. Head(todo) = todo[1] /\ todo # <<>>
        BY Wrote
  <2>2. Len(reports[s]) < ReportCap
        BY <2>1 DEF HomeFits, Tells
  <2>3. todo[1].val \in Tellings /\ reports'[s] = Append(reports[s], todo[1].val)
        BY <2>2, Wrote DEF Tells
  <2>4. Len(reports[s]) + 1 \in DOMAIN reports'[s] /\ reports'[s][Len(reports[s]) + 1] = todo[1].val
    <3> HIDE DEF Tellings
    <3> QED BY <1>7, <2>3, AppendIs
  <2> QED BY <2>4 DEF Rung, Tells
<1> QED BY <1>4, <1>5, <1>6, <1>9, <1>10, <1>11 DEF Flying

LEMMA WriteFate ==
    ASSUME TypeInv, CalmInv, FateInv, SectorWrite, HomeFits
    PROVE  FateInv'
<1> SUFFICES ASSUME NEW p \in Pilots PROVE Fate(p)'
    BY DEF FateInv
<1>1. /\ UNCHANGED <<control, client, life, owner, launched, sleeper, pc, slot, suit, lost, bay, poll>>
      /\ Fate(p) /\ (pc[p] # "away" => slot[p] \in Slots)
      BY Wrote DEF FateInv, TypeInv, LeaseInv
<1>2. LastSuit(p)' = LastSuit(p) /\ Now(p)' = Now(p)
  <2>1. LastSuit(p)' = LastSuit(p)
        BY <1>1 DEF LastSuit
  <2> QED BY <1>1, <2>1 DEF Now
<1>3. /\ \A s : (Joining(s)' <=> Joining(s)) /\ (Sleeping(s)' <=> Sleeping(s))
      /\ Joining(slot[p])' <=> Joining(slot[p])
      BY <1>1 DEF Joining, Sleeping
<1>4. /\ Seat(p)' <=> Seat(p)
      /\ Abed(p)' <=> Abed(p)
      /\ Seat(p) => slot[p] \in Slots
      BY <1>1, <1>3 DEF Seat, Abed
<1>a. LastFits(p)' /\ BayFits(p)' /\ SleepsOnce(p)'
      BY <1>1, <1>2 DEF Fate, LastFits, Is, BayFits, SleepsOnce
<1>c. SeatFits(p)'
  <2>1. Seat(p) /\ client[slot[p]].active => Outcome(slot[p], Awake)' /\ (sleeper[p] # NoSuit => Outcome(slot[p], {"Woke"})')
    <3> SUFFICES ASSUME NEW s \in Slots, s = slot[p], Seat(p), client[s].active
                 PROVE  Outcome(s, Awake)' /\ (sleeper[p] # NoSuit => Outcome(s, {"Woke"})')
        BY <1>1, <1>4
    <3>1. Outcome(s, Awake) /\ (sleeper[p] # NoSuit => Outcome(s, {"Woke"}))
          BY <1>1 DEF Fate, SeatFits
    <3> QED BY <3>1, WroteSays
  <2> QED BY <1>1, <1>2, <1>3, <1>4, <2>1 DEF Fate, SeatFits
<1>d. OutFits(p)'
  <2> SUFFICES ASSUME suit[p] # NoSuit, NEW s \in Slots, s = slot[p] PROVE OutFits(p)'
    <3>1. suit[p] # NoSuit => slot[p] \in Slots
          BY <1>1 DEF CalmInv, PhaseInv
    <3> QED BY <1>1, <3>1 DEF OutFits
  <2>1. Nodding(p) => Nodding(p)'
    <3> SUFFICES ASSUME Nodding(p) PROVE Nodding(p)'
        OBVIOUS
    <3>1. PICK id : id = LastSuit(p)
          OBVIOUS
    <3>2. SaysAsleep(s, id)
          BY <3>1 DEF Nodding
    <3>3. SaysAsleep(s, id)'
          BY <3>2, WroteSays
    <3>4. SaysAsleep(slot[p], LastSuit(p))'
          BY <1>1, <1>2, <3>1, <3>3 DEF SaysAsleep
    <3> QED BY <1>1, <1>2, <1>3, <3>4 DEF Nodding, Sleeping
  <2> QED BY <1>1, <1>2, <2>1, WroteSays DEF Fate, OutFits
<1>e. ToldFits(p)'
      BY <1>1, <1>2, WroteSays DEF Fate, ToldFits
<1> QED BY <1>a, <1>c, <1>d, <1>e DEF Fate

(* What the news of a sleeper rests on, as the sector handles messages and ticks. *)
Tidings == AsleepInv /\ NewsInv
NewsTurns == Turns /\ Tidings

LEMMA LastIs ==
    ASSUME NEW p \in Pilots, LastSuit(p) # NoSuit
    PROVE  LastSuit(p) \in Ids /\ owner[LastSuit(p)] = p /\ Now(p) = life[LastSuit(p)]
BY LastSuitIs DEF Now

(* Nobody asleep is seated, and whoever is newly seated was launched or woke. *)
LEMMA SeatedAre ==
    ASSUME Turns, NEW s \in Slots, client'[s].active
    PROVE  \/ client[s].active /\ client[s].suit = client'[s].suit
           \/ Hailed(s) /\ life'[client'[s].suit] \in {"cradle", "flying"}
<1>1. CASE Left(s)
      BY <1>1, LeftFacts DEF Turns
<1>2. CASE Hailed(s)
  <2>1. PICK p \in Pilots : slot[p] = s
        BY <1>2 DEF Hailed, Answered
  <2>2. client'[s].suit = LastSuit(p) /\ Now(p)' \in {"cradle", "flying"}
        BY <1>2, <2>1 DEF Hailed
  <2>3. LastSuit(p)' = LastSuit(p)
        BY DEF Turns, Turn, Goes
  <2>4. Now(p)' = life'[LastSuit(p)]
        BY <2>2, <2>3 DEF Now
  <2> QED BY <1>2, <2>2, <2>4
<1> QED BY <1>1, <1>2 DEF Turns, Vacated

LEMMA SeatedAwake ==
    ASSUME CalmInv, NEW s \in Slots, client[s].active
    PROVE  life[client[s].suit] \in {"cradle", "flying", "wreck"}
BY DEF CalmInv, ClientInv

LEMMA GoneStays ==
    ASSUME Turns, NEW p \in Pilots, Gone(p)
    PROVE  Gone(p)'
<1>1. UNCHANGED <<suit, pc, slot, sleeper, status>> /\ SectorStep /\ Turn(p) /\ Goes(p)
      BY StepFacts DEF Turns, Turn
<1>2. Now(p)' \in Dead /\ Now(p) \in Dead /\ LastSuit(p)' = LastSuit(p)
      BY <1>1 DEF Gone, Goes
<1>3. CASE Abed(p)
  <2>1. ASSUME pc[p] = "seating", client'[slot[p]].active PROVE FALSE
    <3>1. PICK s \in Slots : s = slot[p]
          BY <1>1, <2>1, StepFacts
    <3>2. Hailed(s)
          BY <1>1, <1>3, <2>1, <3>1, SeatedAre DEF Abed
    <3>3. Now(p)' \in {"cradle", "flying"}
          BY <2>1, <3>1, <3>2 DEF Hailed
    <3> QED BY <1>2, <3>3 DEF Dead
  <2>2. Abed(p)'
        BY <1>1, <1>3, <2>1, AbedStays
  <2> QED BY <1>2, <2>2 DEF Gone
<1>4. CASE suit[p] # NoSuit /\ ~client[slot[p]].active /\ Nodding(p)
  <2>1. pc[p] = "freeing"
        BY <1>4 DEF Nodding
  <2>2. PICK s \in Slots : s = slot[p]
        BY <2>1, <1>1, StepFacts
  <2>3. SaysAsleep(s, LastSuit(p)) /\ ~Sleeping(s)
        BY <1>4, <2>2 DEF Nodding
  <2>4. ~client'[s].active
        BY <1>1, <1>4, <2>1, <2>2, SeatedAre, HailedFacts
  <2>5. Left(s)
    <3>1. ~Hailed(s)
          BY <1>1, <2>1, <2>2, HailedFacts
    <3>2. ~Ended(s)
      <4> SUFFICES ASSUME Ended(s) PROVE FALSE
          OBVIOUS
      <4>1. Takes("Sleep") /\ control[1].slot = s
            BY <1>4, <2>2 DEF Ended
      <4>2. 1 \in DOMAIN control /\ control[1].op = "Sleep"
        <5>1. control \in Seq(Msgs) /\ control # <<>> /\ Head(control).op = "Sleep"
              BY <1>1, <4>1 DEF Takes, SectorStep, TypeInv, QueueTypes
        <5> HIDE DEF Msgs
        <5> QED BY <5>1, TailIs
      <4> QED BY <2>3, <4>1, <4>2 DEF Sleeping
    <3> QED BY <3>1, <3>2 DEF Turns
  <2>6. NotSlept(s)' => NotSlept(s)
        BY <1>1, <2>5, LeftFacts
  <2>7. ~NotSlept(s)
    <3>1. ~Storing(s)
          BY <1>1, StepFacts
    <3> QED BY <2>3, <3>1 DEF SaysAsleep, NotSlept, Awake
  <2>8. OutFits(p)'
        BY <1>1, TurnOut
  <2>9. Nodding(p)'
        BY <1>1, <1>2, <1>4, <2>2, <2>4, <2>6, <2>7, <2>8 DEF OutFits, Dead
  <2> QED BY <1>1, <1>2, <1>4, <2>2, <2>4, <2>9 DEF Gone
<1> QED BY <1>3, <1>4 DEF Gone

(* A pilot's sleeper is gone because it was, or because it slept till now. *)
LEMMA GoneWas ==
    ASSUME Turns, NEW p \in Pilots, Gone(p)'
    PROVE  Gone(p) \/ (Now(p) = "asleep" /\ (Abed(p) \/ pc[p] = "freeing"))
<1>1. UNCHANGED <<suit, pc, slot, sleeper, status>> /\ SectorStep /\ Turn(p) /\ Goes(p)
      BY StepFacts DEF Turns, Turn
<1>2. Now(p)' \in Dead /\ LastSuit(p)' = LastSuit(p)
      BY <1>1 DEF Gone, Goes
<1>3. Now(p) \in Slept => Now(p) \in Dead \/ Now(p) = "asleep"
      BY <1>1, <1>2 DEF Goes, Slept, Sound, Dead
<1>4. CASE Abed(p)'
  <2>1. Abed(p) /\ Now(p) \in Slept
        BY <1>1, <1>4, AbedStays
  <2> QED BY <1>3, <2>1 DEF Gone
<1>5. CASE suit'[p] # NoSuit /\ ~(client'[slot'[p]].active) /\ Nodding(p)'
  <2>1. pc[p] = "freeing"
        BY <1>1, <1>5 DEF Nodding
  <2>2. PICK s \in Slots : s = slot[p]
        BY <2>1, <1>1, StepFacts
  <2>3. SaysAsleep(s, LastSuit(p))'
    <3>1. SaysAsleep(slot[p], LastSuit(p))'
          BY <1>5 DEF Nodding
    <3> QED BY <1>1, <1>2, <2>2, <3>1 DEF SaysAsleep
  <2>4. ~NotSlept(s)'
        BY <2>3 DEF SaysAsleep, NotSlept, Storable, Storing, Awake
  <2>5. CASE Left(s)
    <3>1. ~client[s].active /\ ~NotSlept(s)
          BY <1>1, <1>5, <2>2, <2>4, <2>5, LeftFacts
    <3>2. OutFits(p)
          BY <1>1 DEF Turn, Fate
    <3>3. Nodding(p)
          BY <1>1, <1>5, <2>2, <3>1, <3>2 DEF OutFits
    <3>4. Now(p) \in Slept
          BY <3>3 DEF Nodding
    <3> QED BY <1>1, <1>3, <1>5, <2>1, <2>2, <3>1, <3>3, <3>4 DEF Gone
  <2>6. CASE Hailed(s)
        BY <1>1, <2>1, <2>2, <2>6, HailedFacts
  <2>7. CASE Vacated(s) /\ Ended(s)
    <3>1. PICK i \in DOMAIN todo' : IsStore(todo'[i], s)
          BY <2>7 DEF Vacated
    <3>2. todo'[i].val.outcome = "Asleep"
          BY <2>3, <3>1 DEF SaysAsleep
    <3>3. client[s].active /\ life'[client[s].suit] = "asleep"
          BY <2>7, <3>1, <3>2 DEF Ended
    <3>4. client[s].suit = LastSuit(p) /\ LastSuit(p) # NoSuit
      <4>1. suit[p] = LastSuit(p)
            BY <1>1, <1>5 DEF Turn, Fate, LastFits, Is
      <4> QED BY <1>1, <1>5, <2>2, <3>3, <4>1 DEF Turn, Fate, LastFits
    <3>5. Now(p)' = "asleep"
          BY <1>2, <3>3, <3>4 DEF Now
    <3> QED BY <1>2, <3>5 DEF Dead
  <2> QED BY <2>5, <2>6, <2>7 DEF Turns
<1> QED BY <1>4, <1>5 DEF Gone

(* A sleeper struck is gone. *)
LEMMA StruckGone ==
    ASSUME NewsTurns, NEW p \in Pilots, Now(p) = "asleep", Now(p)' = "wreck"
    PROVE  Gone(p)'
<1>1. UNCHANGED <<suit, pc, slot, sleeper>> /\ SectorStep /\ Turn(p) /\ LastSuit(p)' = LastSuit(p)
      BY StepFacts DEF NewsTurns, Turns, Turn, Goes
<1>2. LastSuit(p) # NoSuit
      BY DEF Now
<1>3. LastSuit(p) \in Ids /\ owner[LastSuit(p)] = p /\ life[LastSuit(p)] = "asleep" /\ life'[LastSuit(p)] = "wreck"
      BY <1>1, <1>2, LastIs DEF Now
<1>4. sleeper[p] # NoSuit \/ suit[p] # NoSuit
  <2> PICK id \in Ids : id = LastSuit(p)
      BY <1>3
  <2> QED BY <1>3 DEF NewsTurns, Tidings, AsleepInv
<1>5. ASSUME NEW s \in Slots, s = slot[p] PROVE ~client[s].active /\ ~client'[s].active
  <2>1. client[s].active => client[s].suit = LastSuit(p)
        BY <1>1, <1>5 DEF Turn, Fate, LastFits
  <2>2. ~client[s].active
        BY <1>1, <1>3, <2>1, SeatedAwake DEF SectorStep
  <2>3. client'[s].active => client'[s].suit = LastSuit(p)
    <3>1. LastFits(p)'
          BY <1>1, TurnLast
    <3> QED BY <1>1, <1>5, <3>1 DEF LastFits
  <2> QED BY <1>3, <2>2, <2>3, SeatedAre DEF NewsTurns
<1>6. CASE suit[p] = NoSuit
  <2>1. pc[p] = "seating" => ~client[slot[p]].active /\ ~client'[slot[p]].active
        BY <1>1, <1>5, StepFacts
  <2>2. Abed(p)
        BY <1>4, <1>6, <2>1 DEF Abed
  <2>3. Abed(p)'
        BY <1>1, <2>1, <2>2, AbedStays
  <2> QED BY <2>3 DEF Gone, Dead
<1>7. CASE suit[p] # NoSuit
  <2>1. PICK s \in Slots : s = slot[p]
    <3>1. pc[p] # "away"
          BY <1>1, <1>7 DEF SectorStep, CalmInv, PhaseInv
    <3> QED BY <1>1, <3>1, StepFacts
  <2>2. OutFits(p)'
        BY <1>1, TurnOut
  <2>3. ~client'[s].active
        BY <1>5, <2>1
  <2>4. Nodding(p)'
        BY <1>1, <1>7, <2>1, <2>2, <2>3 DEF OutFits
  <2> QED BY <1>1, <1>7, <2>1, <2>3, <2>4 DEF Gone, Dead
<1> QED BY <1>6, <1>7

LEMMA NoteStays ==
    ASSUME Turns, NEW n \in Fates, NoteFits(n)
    PROVE  NoteFits(n)'
<1>1. UNCHANGED bound /\ Fortunes /\ n.suit \in Ids
      BY DEF Turns, Fates
<1>2. life'[n.suit] \in IF n.fate = "Lost" THEN {"evicted"} ELSE Dead
      BY <1>1 DEF Fortunes, NoteFits, Dead
<1>3. n.fate = "Destroyed" => \A p \in Pilots : Of(n, p)' => n.suit = LastSuit(p)' /\ Gone(p)'
  <2> SUFFICES ASSUME n.fate = "Destroyed", NEW p \in Pilots, Of(n, p)' PROVE n.suit = LastSuit(p)' /\ Gone(p)'
      OBVIOUS
  <2>1. n.suit = LastSuit(p) /\ Gone(p)
        BY <1>1 DEF Of, NoteFits
  <2>2. LastSuit(p)' = LastSuit(p)
        BY DEF Turns, Turn, Goes
  <2> QED BY <2>1, <2>2, GoneStays
<1>4. \A s \in Slots : client'[s].active => client'[s].suit # n.suit
  <2> SUFFICES ASSUME NEW s \in Slots, client'[s].active, client'[s].suit = n.suit PROVE FALSE
      OBVIOUS
  <2> QED BY <1>2, SeatedAre DEF NoteFits, Dead
<1> QED BY <1>2, <1>3, <1>4 DEF NoteFits

(* The sleepers cleared are noted lost; one struck, destroyed. *)
LEMMA LostNote ==
    ASSUME Turns, NEW n \in Fates, n.fate = "Lost", life'[n.suit] = "evicted"
    PROVE  NoteFits(n)'
<1>1. \A s \in Slots : client'[s].active => life'[client'[s].suit] \in {"cradle", "flying", "wreck"}
      BY DEF Turns, SectorStep, SectorMoves
<1>2. \A s \in Slots : client'[s].active => client'[s].suit # n.suit
      BY <1>1
<1> QED BY <1>2 DEF NoteFits

LEMMA StruckNote ==
    ASSUME NewsTurns, NEW id \in Ids, life[id] = "asleep", life'[id] = "wreck"
    PROVE  NoteFits([suit |-> id, fate |-> "Destroyed"])'
<1> DEFINE n == [suit |-> id, fate |-> "Destroyed"]
<1>1. n.suit = id /\ n.fate = "Destroyed"
      OBVIOUS
<1> HIDE DEF n
<1>2. ASSUME NEW p \in Pilots, Of(n, p)' PROVE n.suit = LastSuit(p)' /\ Gone(p)'
  <2>1. bound[id] = p
        BY <1>1, <1>2 DEF Of, NewsTurns, Turns
  <2>2. owner[id] = p
        BY <2>1, ConstantsAssumption DEF NewsTurns, Tidings, NewsInv
  <2>3. LastSuit(p) = id
        BY <2>2 DEF NewsTurns, Tidings, AsleepInv
  <2>4. LastSuit(p)' = LastSuit(p)
        BY DEF NewsTurns, Turns, Turn, Goes
  <2>5. Now(p) = "asleep" /\ Now(p)' = "wreck"
        BY <2>3, <2>4, NoSuitIs DEF Now
  <2> QED BY <1>1, <2>3, <2>4, <2>5, StruckGone
<1>3. ASSUME NEW s \in Slots, client'[s].active, client'[s].suit = id PROVE FALSE
  <2>1. client[s].active /\ client[s].suit = id
        BY <1>3, SeatedAre DEF NewsTurns
  <2> QED BY <2>1, SeatedAwake DEF NewsTurns, Turns, SectorStep
<1> QED BY <1>1, <1>2, <1>3 DEF NoteFits, Dead, n

(* What a tick notes. *)
LEMMA NotedNow ==
    ASSUME NewsTurns, TypeInv, NEW i \in DOMAIN todo', todo'[i].kind = "note"
    PROVE  /\ Striking
           /\ \/ \E j \in DOMAIN fates : todo'[i].val = fates[j]
              \/ \E id \in Ids : /\ todo'[i].val = [suit |-> id, fate |-> "Destroyed"]
                                 /\ life[id] = "asleep" /\ life'[id] = "wreck"
<1>1. Striking
      BY DEF NewsTurns, Turns, Noteless
<1>2. PICK fate \in Seq(Fates) : Notices(fates \o fate) /\ Strikes(life', fate)
      BY <1>1 DEF Striking
<1>3. fates \in Seq(Fates) /\ life \in [Ids -> Lives]
      BY DEF TypeInv, QueueTypes, SectorTypes
<1>4. i \in DOMAIN (fates \o fate) /\ todo'[i].val = (fates \o fate)[i]
      BY <1>2 DEF Notices
<1>5. \/ \E j \in DOMAIN fates : todo'[i].val = fates[j]
      \/ \E j \in DOMAIN fate : todo'[i].val = fate[j]
  <2> HIDE DEF Fates
  <2> DEFINE k == Len(fates)
             l == Len(fate)
  <2>1. /\ DOMAIN fates = 1..k /\ DOMAIN fate = 1..l /\ k \in Nat /\ l \in Nat /\ DOMAIN (fates \o fate) = 1..(k + l)
        /\ \A j \in 1..k : (fates \o fate)[j] = fates[j]
        /\ \A j \in 1..l : (fates \o fate)[k + j] = fate[j]
        BY <1>2, <1>3, CatIs
  <2> HIDE DEF k, l
  <2>2. i \in 1..k \/ (i - k \in 1..l /\ k + (i - k) = i)
        BY <1>4, <2>1
  <2> QED BY <1>4, <2>1, <2>2
<1>6. \A j \in DOMAIN fate : \E id \in Ids : /\ fate[j] = [suit |-> id, fate |-> "Destroyed"]
                                            /\ life[id] = "asleep" /\ life'[id] = "wreck"
  <2>1. CASE fate = <<>>
        BY <2>1
  <2>2. ASSUME NEW id \in Ids, life[id] = "asleep", life' = [life EXCEPT ![id] = "wreck"],
               fate = <<[suit |-> id, fate |-> "Destroyed"]>>
        PROVE  /\ \A j \in DOMAIN fate : fate[j] = [suit |-> id, fate |-> "Destroyed"]
               /\ life'[id] = "wreck"
        BY <1>3, <2>2
  <2> QED BY <1>2, <2>1, <2>2 DEF Strikes
<1> QED BY <1>1, <1>5, <1>6

LEMMA StruckNoted ==
    ASSUME NewsTurns, TypeInv, TypeInv', NEW p \in Pilots, Gone(p)', ~Gone(p)
    PROVE  Noting(p)'
<1>1. UNCHANGED <<suit, pc, slot, sleeper, notes, bound>> /\ SectorStep /\ Turn(p) /\ LastSuit(p)' = LastSuit(p)
      BY StepFacts DEF NewsTurns, Turns, Turn, Goes
<1>2. Now(p) = "asleep" /\ (Abed(p) \/ pc[p] = "freeing") /\ Now(p)' \in Dead
      BY GoneWas DEF NewsTurns, Gone
<1>3. LastSuit(p) # NoSuit
      BY <1>2 DEF Now
<1> PICK id \in Ids : id = LastSuit(p) /\ owner[id] = p /\ life[id] = "asleep" /\ life'[id] \in Dead
    BY <1>1, <1>2, <1>3, LastIs DEF Now
<1>4. life'[id] = "wreck"
      BY DEF NewsTurns, Turns, Fortunes, Dead
<1>5. Striking
      BY <1>4 DEF NewsTurns, Turns, Unstruck
<1>6. PICK fate \in Seq(Fates) : Notices(fates \o fate) /\ Strikes(life', fate)
      BY <1>5 DEF Striking
<1>7. fates \in Seq(Fates) /\ life \in [Ids -> Lives] /\ notes \in Seq(Fates)
      BY DEF TypeInv, QueueTypes, SectorTypes
<1>8. fate = <<[suit |-> id, fate |-> "Destroyed"]>>
  <2>1. PICK i \in Ids : life' = [life EXCEPT ![i] = "wreck"] /\ fate = <<[suit |-> i, fate |-> "Destroyed"]>>
        BY <1>4, <1>6 DEF Strikes
  <2>2. i = id
        BY <1>4, <1>7, <2>1
  <2> QED BY <2>1, <2>2
<1>9. pc[p] # "entered"
  <2>1. Abed(p) => (pc[p] = "entered" => Now(p) # "asleep")
        BY <1>1 DEF Turn, Fate, SeatFits
  <2> QED BY <1>2, <2>1
<1>10. ~Seat(p)'
  <2> SUFFICES ASSUME Seat(p)' PROVE FALSE
      OBVIOUS
  <2>1. pc[p] = "seating" /\ Abed(p)
        BY <1>1, <1>2, StepFacts DEF Seat
  <2>2. PICK s \in Slots : s = slot[p]
        BY <1>1, <2>1, StepFacts
  <2>3. ~Joining(s)
    <3>1. DOMAIN control = {}
          BY <1>5 DEF Striking
    <3> QED BY <3>1 DEF Joining
  <2>4. Seat(p)
        BY <2>1, <2>2, <2>3 DEF Seat
  <2> QED BY <1>1, <1>2, <2>1, <2>4 DEF Turn, Fate, SeatFits, Abed
<1>11. \A i \in DOMAIN notes' : notes'[i].suit # id
  <2> SUFFICES ASSUME NEW i \in DOMAIN notes PROVE notes[i].suit # id
      BY <1>1
  <2>1. notes[i] \in Fates /\ Posted(notes[i])
        BY <1>7 DEF Posted
  <2>2. life[notes[i].suit] \in IF notes[i].fate = "Lost" THEN {"evicted"} ELSE Dead
        BY <2>1 DEF NewsTurns, Tidings, NewsInv, NoteFits
  <2> QED BY <2>2 DEF Dead
<1>12. bound'[id] = p
      BY <1>1, <1>2, <1>3 DEF NewsTurns, Tidings, NewsInv, BoundFits
<1> DEFINE k == Len(fates) + 1
<1>13. /\ k \in DOMAIN todo' /\ todo'[k].kind = "note" /\ todo'[k].val = [suit |-> id, fate |-> "Destroyed"]
       /\ \A j \in DOMAIN todo' : j < k => todo'[j].kind = "note" /\ todo'[j].val.suit # id
       /\ \A j \in DOMAIN todo' : k < j => todo'[j].kind # "note"
  <2> DEFINE l == Len(fates)
             fs == fates \o fate
             x == [suit |-> id, fate |-> "Destroyed"]
  <2>1. \A j \in DOMAIN fates : fates[j].suit # id
    <3> SUFFICES ASSUME NEW j \in DOMAIN fates PROVE fates[j].suit # id
        OBVIOUS
    <3>1. fates[j] \in Fates /\ Due(fates[j])
          BY <1>7 DEF Due
    <3>2. life[fates[j].suit] \in IF fates[j].fate = "Lost" THEN {"evicted"} ELSE Dead
          BY <3>1 DEF NewsTurns, Tidings, NewsInv, NoteFits
    <3> QED BY <3>2 DEF Dead
  <2>2. /\ l \in Nat /\ DOMAIN fates = 1..l /\ DOMAIN fs = 1..(l + 1)
        /\ \A j \in 1..l : fs[j] = fates[j]
        /\ fs[l + 1] = x
    <3>1. Len(fate) = 1 /\ fate[1] = x
      <4> HIDE DEF x
      <4>1. fate = <<x>>
            BY <1>8 DEF x
      <4> QED BY <4>1
    <3> HIDE DEF Fates, x
    <3>2. /\ l \in Nat /\ DOMAIN fates = 1..l /\ DOMAIN fs = 1..(l + 1)
          /\ \A j \in 1..l : fs[j] = fates[j]
          /\ \A j \in 1..1 : fs[l + j] = fate[j]
      <4> DEFINE m == Len(fate)
      <4>1. fate \in Seq(Fates) /\ fates \in Seq(Fates)
            BY <1>7
      <4>2. /\ l \in Nat /\ DOMAIN fates = 1..l /\ DOMAIN fs = 1..(l + m)
            /\ \A j \in 1..l : fs[j] = fates[j]
            /\ \A j \in 1..m : fs[l + j] = fate[j]
            BY <4>1, CatIs
      <4>3. m = 1
            BY <3>1
      <4> HIDE DEF m, l, fs
      <4> QED BY <4>2, <4>3
    <3> HIDE DEF l, fs
    <3> QED BY <3>1, <3>2
  <2>3. /\ \A j \in DOMAIN todo' : todo'[j].kind = "note" => j \in DOMAIN fs
        /\ \A j \in DOMAIN fs : j \in DOMAIN todo' /\ todo'[j].kind = "note" /\ todo'[j].val = fs[j]
        BY <1>6 DEF Notices
  <2>4. \A j \in DOMAIN todo' : j \in Nat /\ 1 <= j
    <3>1. todo' \in Seq(Writes)
          BY DEF TypeInv, QueueTypes
    <3> HIDE DEF Writes
    <3> QED BY <3>1
  <2>5. k = l + 1
        OBVIOUS
  <2> HIDE DEF l, fs, k
  <2>6. x.suit = id
        OBVIOUS
  <2> HIDE DEF x
  <2>7. k \in DOMAIN todo' /\ todo'[k].kind = "note" /\ todo'[k].val = x
        BY <2>2, <2>3, <2>5
  <2>8. ASSUME NEW j \in DOMAIN todo', j < k PROVE todo'[j].kind = "note" /\ todo'[j].val.suit # id
    <3>1. j \in 1..l /\ j \in 1..(l + 1)
          BY <2>2, <2>4, <2>5, <2>8
    <3>2. todo'[j].kind = "note" /\ todo'[j].val = fates[j] /\ j \in DOMAIN fates
          BY <2>2, <2>3, <3>1
    <3> QED BY <2>1, <3>2
  <2>9. ASSUME NEW j \in DOMAIN todo', k < j PROVE todo'[j].kind # "note"
    <3>1. ~(j \in 1..(l + 1))
          BY <2>2, <2>4, <2>5, <2>9
    <3> QED BY <2>2, <2>3, <3>1
  <2> QED BY <2>7, <2>8, <2>9 DEF x
<1> HIDE DEF k
<1> QED BY <1>1, <1>9, <1>10, <1>11, <1>12, <1>13 DEF Noting

(* A sleeper gone keeps its news; one newly gone has a note on its way. *)
LEMMA TurnsNews ==
    ASSUME NewsTurns, TypeInv, TypeInv', NEW p \in Pilots
    PROVE  NewsFits(p)' /\ BoundFits(p)'
<1>1. UNCHANGED <<suit, pc, slot, sleeper, notes, news, bound>> /\ SectorStep /\ Turn(p) /\ LastSuit(p)' = LastSuit(p)
      /\ todo = <<>>
      BY StepFacts DEF NewsTurns, Turns, Turn, Goes, SectorStep, SectorMoves
<1>2. NewsFits(p) /\ BoundFits(p) /\ \A q \in Pilots : bound[LastSuit(q)] = p /\ LastSuit(q) \in Ids => owner[LastSuit(q)] = p
      BY ConstantsAssumption DEF NewsTurns, Tidings, NewsInv
<1>3. \A id \in Ids : life[id] = "asleep" /\ bound[id] = p => ~Gone(p)
  <2> SUFFICES ASSUME NEW id \in Ids, life[id] = "asleep", bound[id] = p PROVE ~Gone(p)
      OBVIOUS
  <2>1. owner[id] = p
        BY ConstantsAssumption DEF NewsTurns, Tidings, NewsInv
  <2>2. LastSuit(p) = id
        BY <2>1 DEF NewsTurns, Tidings, AsleepInv
  <2>3. Now(p) = "asleep"
        BY <2>2, NoSuitIs DEF Now
  <2> QED BY <2>3 DEF Gone, Dead
<1>4. ASSUME Gone(p) PROVE (Known(p) \/ Noted(p) \/ Noting(p))'
  <2>1. Known(p) \/ Noted(p)
    <3>1. ~Noting(p)
          BY <1>1 DEF Noting
    <3> QED BY <1>2, <1>4, <3>1 DEF NewsFits
  <2>2. Unnoted(p)'
    <3> SUFFICES ASSUME NEW i \in DOMAIN todo', todo'[i].kind = "note", bound[todo'[i].val.suit] = p PROVE FALSE
        BY <1>1 DEF Unnoted, Of
    <3>1. CASE \E j \in DOMAIN fates : todo'[i].val = fates[j]
          BY <1>2, <1>4, <3>1 DEF NewsFits, Of
    <3>2. CASE \E id \in Ids : /\ todo'[i].val = [suit |-> id, fate |-> "Destroyed"]
                               /\ life[id] = "asleep" /\ life'[id] = "wreck"
          BY <1>3, <1>4, <3>2
    <3> QED BY <3>1, <3>2, NotedNow
  <2> QED BY <1>1, <2>1, <2>2 DEF Known, Noted, Of
<1>5. ASSUME Gone(p)' PROVE \A i \in DOMAIN fates' : bound'[fates'[i].suit] # p
  <2> SUFFICES ASSUME NEW i \in DOMAIN fates', bound[fates'[i].suit] = p PROVE FALSE
      BY <1>1
  <2>1. ~Striking
        BY DEF Striking
  <2>2. Cleared /\ Unstruck
        BY <2>1 DEF NewsTurns, Turns
  <2>3. Gone(p)
    <3> SUFFICES ASSUME ~Gone(p) PROVE FALSE
        OBVIOUS
    <3>1. Now(p) = "asleep" /\ Now(p)' \in Dead
          BY <1>5, GoneWas DEF NewsTurns, Gone
    <3>2. LastSuit(p) # NoSuit
          BY <3>1 DEF Now
    <3>3. LastSuit(p) \in Ids /\ life[LastSuit(p)] = "asleep" /\ life'[LastSuit(p)] \in Dead
          BY <1>1, <3>1, <3>2, LastIs DEF Now
    <3> QED BY <2>2, <3>3 DEF Unstruck, NewsTurns, Turns, Fortunes, Dead
  <2> QED BY <1>2, <1>3, <2>2, <2>3 DEF Cleared, NewsFits, Of
<1>6. NewsFits(p)'
  <2>1. news'[p] = "Destroyed" => Gone(p)'
        BY <1>1, <1>2, GoneStays DEF NewsFits, NewsTurns
  <2>2. Gone(p)' => (Known(p) \/ Noted(p) \/ Noting(p))'
    <3>1. Gone(p)' /\ ~Gone(p) => Noting(p)'
          BY StruckNoted
    <3> QED BY <1>4, <3>1
  <2> QED BY <1>5, <2>1, <2>2 DEF NewsFits, Of
<1>7. Now(p)' = "asleep" => bound'[LastSuit(p)] = p
  <2> SUFFICES ASSUME Now(p)' = "asleep" PROVE bound[LastSuit(p)] = p
      BY <1>1
  <2>1. LastSuit(p) # NoSuit
        BY <1>1 DEF Now
  <2> PICK id \in Ids : id = LastSuit(p) /\ owner[id] = p /\ Now(p) = life[id] /\ life'[id] = "asleep"
      BY <1>1, <2>1, LastIs DEF Now
  <2>2. CASE life[id] = "asleep"
        BY <1>2, <2>2 DEF BoundFits
  <2>3. CASE life[id] # "asleep"
    <3>1. PICK s \in Slots : client[s].active /\ client[s].suit = id /\ In(s, "freeing")
          BY <2>3 DEF NewsTurns, Turns, Dozes
    <3>2. PICK q \in Pilots : Seats(q, s)
          BY <1>1, <3>1 DEF SectorStep, CalmInv, ClientInv
    <3>3. q = p /\ slot[p] = s
          BY <3>1, <3>2 DEF Seats
    <3>4. pc[p] = "freeing"
          BY <1>1, <3>1, <3>3, StepFacts DEF In
    <3>5. suit[p] # NoSuit
          BY <1>1, <3>4 DEF SectorStep, CalmInv, PhaseInv
    <3> QED BY <1>2, <3>1, <3>3, <3>5 DEF BoundFits
  <2> QED BY <2>2, <2>3
<1>8. suit'[p] # NoSuit /\ client'[slot'[p]].active => bound'[LastSuit(p)] = p
  <2> SUFFICES ASSUME suit[p] # NoSuit, client'[slot[p]].active PROVE bound[LastSuit(p)] = p
      BY <1>1
  <2>1. PICK s \in Slots : s = slot[p]
    <3>1. pc[p] # "away"
          BY <1>1 DEF SectorStep, CalmInv, PhaseInv
    <3> QED BY <1>1, <3>1, StepFacts
  <2>2. client[s].active
        BY <1>1, <2>1, SeatedAre, HailedFacts DEF NewsTurns
  <2> QED BY <1>2, <2>1, <2>2 DEF BoundFits
<1>9. BoundFits(p)'
      BY <1>1, <1>7, <1>8 DEF BoundFits
<1> QED BY <1>6, <1>9

LEMMA TurnsTidings ==
    ASSUME NewsTurns, TypeInv, TypeInv'
    PROVE  Tidings'
<1>1. UNCHANGED <<suit, pc, slot, sleeper, notes, news, bound, owner, inHand>> /\ SectorStep
      /\ \A p \in Pilots : LastSuit(p)' = LastSuit(p)
      BY StepFacts DEF NewsTurns, Turns, Turn, Goes
<1>2. /\ notes \in Seq(Fates) /\ fates \in Seq(Fates) /\ fates' \in Seq(Fates)
      BY DEF TypeInv, QueueTypes
<1>3. ASSUME NEW n \in Fates, Due(n)' PROVE NoteFits(n)' /\ n.fate = "Lost"
  <2>1. PICK i \in DOMAIN fates' : fates'[i] = n
        BY <1>3 DEF Due
  <2>2. Cleared
        BY <2>1 DEF NewsTurns, Turns, Striking
  <2>3. CASE i \in DOMAIN fates /\ fates'[i] = fates[i]
    <3>1. Due(n)
          BY <2>1, <2>3 DEF Due
    <3>2. NoteFits(n) /\ n.fate = "Lost"
          BY <3>1 DEF NewsTurns, Tidings, NewsInv
    <3> QED BY <3>2, NoteStays DEF NewsTurns
  <2>4. CASE n.fate = "Lost" /\ life'[n.suit] = "evicted"
        BY <2>4, LostNote DEF NewsTurns
  <2> QED BY <2>1, <2>2, <2>3, <2>4 DEF Cleared
<1>4. ASSUME NEW n \in Fates, Posting(n)' PROVE NoteFits(n)'
  <2>1. PICK i \in DOMAIN todo' : todo'[i].kind = "note" /\ todo'[i].val = n
        BY <1>4 DEF Posting
  <2>2. CASE \E j \in DOMAIN fates : todo'[i].val = fates[j]
    <3>1. Due(n)
          BY <2>1, <2>2 DEF Due
    <3>2. NoteFits(n)
          BY <3>1 DEF NewsTurns, Tidings, NewsInv
    <3> QED BY <3>2, NoteStays DEF NewsTurns
  <2>3. ASSUME NEW id \in Ids, todo'[i].val = [suit |-> id, fate |-> "Destroyed"],
               life[id] = "asleep", life'[id] = "wreck"
        PROVE  NoteFits(n)'
    <3>1. n = [suit |-> id, fate |-> "Destroyed"]
          BY <2>1, <2>3
    <3> HIDE DEF NoteFits
    <3>2. NoteFits([suit |-> id, fate |-> "Destroyed"])'
          BY <2>3, StruckNote
    <3> QED BY <3>1, <3>2
  <2> QED BY <2>1, <2>2, <2>3, NotedNow
<1>5. ASSUME NEW n \in Fates, Posted(n)' PROVE NoteFits(n)'
  <2>1. Posted(n)
        BY <1>1, <1>5 DEF Posted
  <2>2. NoteFits(n)
        BY <2>1 DEF NewsTurns, Tidings, NewsInv
  <2> QED BY <2>2, NoteStays DEF NewsTurns
<1>7. AsleepInv'
  <2> SUFFICES ASSUME NEW id \in Ids, life'[id] = "asleep"
               PROVE  /\ owner[id] \in Pilots /\ LastSuit(owner[id]) = id
                      /\ sleeper[owner[id]] # NoSuit \/ suit[owner[id]] # NoSuit
      BY <1>1 DEF AsleepInv
  <2>1. CASE life[id] = "asleep"
        BY <2>1 DEF NewsTurns, Tidings, AsleepInv
  <2>2. CASE life[id] # "asleep"
    <3>1. PICK s \in Slots : client[s].active /\ client[s].suit = id /\ In(s, "freeing")
          BY <2>2 DEF NewsTurns, Turns, Dozes
    <3>2. PICK q \in Pilots : Seats(q, s)
          BY <1>1, <3>1 DEF SectorStep, CalmInv, ClientInv
    <3>3. owner[id] = q /\ slot[q] = s
          BY <3>1, <3>2 DEF Seats
    <3>4. pc[q] = "freeing"
          BY <1>1, <3>1, <3>3, StepFacts DEF In
    <3>5. suit[q] # NoSuit
          BY <1>1, <3>4 DEF SectorStep, CalmInv, PhaseInv
    <3>6. client[s].suit = LastSuit(q)
          BY <3>1, <3>3 DEF NewsTurns, Turns, Turn, Fate, LastFits
    <3> QED BY <3>1, <3>3, <3>5, <3>6
  <2> QED BY <2>1, <2>2
<1>8. inHand' = <<>> /\ \A id \in Ids : bound'[id] # NoPilot => bound'[id] = owner'[id]
      BY <1>1 DEF NewsTurns, Tidings, NewsInv
<1> QED BY <1>3, <1>4, <1>5, <1>7, <1>8, TurnsNews DEF Tidings, NewsInv

-----------------------------------------------------------------------------
(* A note written is the last posted. *)
LEMMA WroteNotes ==
    ASSUME TypeInv, SectorWrite
    PROVE  \E l \in Nat :
              /\ DOMAIN notes = 1..l
              /\ \/ todo[1].kind # "note" /\ notes' = notes
                 \/ /\ todo[1].kind = "note" /\ todo[1].val \in Fates /\ DOMAIN notes' = 1..(l + 1)
                    /\ notes'[l + 1] = todo[1].val /\ \A i \in 1..l : notes'[i] = notes[i]
<1>1. todo \in Seq(Writes) /\ notes \in Seq(Fates) /\ todo # <<>>
      BY DEF TypeInv, QueueTypes, SectorWrite
<1>2. todo[1] \in Writes /\ Head(todo) = todo[1]
  <2> HIDE DEF Writes
  <2> QED BY <1>1, TailIs
<1> PICK w \in Writes : w = todo[1]
    BY <1>2
<1>3. notes' = IF w.kind = "note" THEN Append(notes, w.val) ELSE notes
      BY <1>2 DEF SectorWrite
<1>4. w.kind = "note" => w.val \in Fates
      BY DEF Writes, Stores, Reports, Noticed
<1> HIDE DEF Fates, Writes
<1>5. Len(notes) \in Nat /\ DOMAIN notes = 1..Len(notes)
      BY <1>1
<1>6. ASSUME w.kind = "note"
      PROVE  /\ DOMAIN notes' = 1..(Len(notes) + 1) /\ notes'[Len(notes) + 1] = w.val
             /\ \A i \in 1..Len(notes) : notes'[i] = notes[i]
      BY <1>1, <1>3, <1>4, <1>6, AppendIs
<1> QED BY <1>3, <1>4, <1>5, <1>6

LEMMA WriteGone ==
    ASSUME TypeInv, CalmInv, FateInv, SectorWrite, NEW p \in Pilots
    PROVE  Gone(p)' <=> Gone(p)
<1>1. /\ UNCHANGED <<control, client, life, owner, sleeper, pc, slot, suit, lost>>
      /\ Fate(p) /\ (pc[p] # "away" => slot[p] \in Slots)
      BY Wrote DEF FateInv, TypeInv, LeaseInv
<1>2. LastSuit(p)' = LastSuit(p) /\ Now(p)' = Now(p)
  <2>1. LastSuit(p)' = LastSuit(p)
        BY <1>1 DEF LastSuit
  <2> QED BY <1>1, <2>1 DEF Now
<1>3. Abed(p)' <=> Abed(p)
      BY <1>1 DEF Abed
<1>4. ASSUME suit[p] # NoSuit, ~client[slot[p]].active, Now(p) \in Dead
      PROVE  Nodding(p)' <=> Nodding(p)
  <2>1. PICK s \in Slots : s = slot[p]
    <3>1. pc[p] # "away"
          BY <1>4 DEF CalmInv, PhaseInv
    <3> QED BY <1>1, <3>1
  <2> PICK id : id = LastSuit(p)
      OBVIOUS
  <2>2. ~(NotSlept(s) /\ SaysAsleep(s, id)) /\ ~(NotSlept(s)' /\ SaysAsleep(s, id)')
    <3>1. ~(NotSlept(s) /\ SaysAsleep(s, id))
          BY DEF NotSlept, SaysAsleep, Storable, Storing, Awake
    <3>2. ~(NotSlept(s)' /\ SaysAsleep(s, id)')
          BY DEF NotSlept, SaysAsleep, Storable, Storing, Awake
    <3> QED BY <3>1, <3>2
  <2>3. /\ Nodding(p) <=> pc[p] = "freeing" /\ ~lost[p] /\ SaysAsleep(s, id) /\ ~Sleeping(s)
        /\ Nodding(p)' <=> pc[p] = "freeing" /\ ~lost[p] /\ SaysAsleep(s, id)' /\ ~Sleeping(s)
    <3>1. Sleeping(s)' <=> Sleeping(s)
          BY <1>1 DEF Sleeping
    <3>2. SaysAsleep(slot[p], LastSuit(p))' <=> SaysAsleep(s, id)'
          BY <1>1, <1>2, <2>1 DEF SaysAsleep
    <3>3. Sleeping(slot[p])' <=> Sleeping(s)
          BY <1>1, <2>1, <3>1 DEF Sleeping
    <3> QED BY <1>1, <1>2, <1>4, <2>1, <3>2, <3>3 DEF Nodding, Slept, Dead
  <2>4. NotSlept(s) \/ Nodding(p)
        BY <1>1, <1>4, <2>1 DEF Fate, OutFits
  <2> QED BY <2>2, <2>3, <2>4, WroteSays
<1> QED BY <1>1, <1>2, <1>3, <1>4 DEF Gone

LEMMA WriteTidings ==
    ASSUME TypeInv, CalmInv, FateInv, Tidings, SectorWrite
    PROVE  Tidings'
<1>1. UNCHANGED <<control, client, fates, life, owner, bound, news, inHand, sleeper, pc, slot, suit, lost>>
      BY DEF SectorWrite, sim, record, session, registry
<1>2. \A p \in Pilots : LastSuit(p)' = LastSuit(p) /\ Now(p)' = Now(p) /\ (Gone(p)' <=> Gone(p))
  <2>1. \A p \in Pilots : LastSuit(p)' = LastSuit(p)
        BY <1>1 DEF LastSuit
  <2> QED BY <1>1, <2>1, WriteGone DEF Now
<1>3. \A n : /\ NoteFits(n)' <=> NoteFits(n)
             /\ \A p \in Pilots : Of(n, p)' <=> Of(n, p)
      BY <1>1, <1>2 DEF NoteFits, Of
<1>4. /\ todo \in Seq(Writes) /\ 1 \in DOMAIN todo
      /\ \A i \in DOMAIN todo' : todo'[i] = todo[i + 1] /\ i + 1 \in DOMAIN todo /\ 1 < i + 1
      /\ \A i \in DOMAIN todo : i = 1 \/ (i - 1 \in DOMAIN todo' /\ todo'[i - 1] = todo[i])
      BY Wrote DEF TypeInv, QueueTypes
<1>5. PICK l \in Nat :
         /\ DOMAIN notes = 1..l
         /\ \/ todo[1].kind # "note" /\ notes' = notes
            \/ /\ todo[1].kind = "note" /\ todo[1].val \in Fates /\ DOMAIN notes' = 1..(l + 1)
               /\ notes'[l + 1] = todo[1].val /\ \A i \in 1..l : notes'[i] = notes[i]
      BY WroteNotes
<1>6. /\ \A i \in DOMAIN notes : i \in DOMAIN notes' /\ notes'[i] = notes[i]
      /\ \A i \in DOMAIN notes' : \/ i \in DOMAIN notes
                                  \/ i = l + 1 /\ todo[1].kind = "note" /\ notes'[i] = todo[1].val
      BY <1>5
<1>7. \A n \in Fates : /\ Due(n)' <=> Due(n)
                       /\ Posting(n)' => Posting(n)
                       /\ Posted(n)' => Posted(n) \/ Posting(n)
  <2>1. \A n : Due(n)' <=> Due(n)
        BY <1>1 DEF Due
  <2>2. \A n : Posting(n)' => Posting(n)
        BY <1>4 DEF Posting
  <2>3. \A n : Posted(n)' => Posted(n) \/ Posting(n)
        BY <1>4, <1>6 DEF Posted, Posting
  <2> QED BY <2>1, <2>2, <2>3
<1>8. AsleepInv'
      BY <1>1, <1>2 DEF Tidings, AsleepInv
<1>9. ASSUME NEW p \in Pilots PROVE BoundFits(p)' /\ NewsFits(p)'
  <2>1. NewsFits(p) /\ BoundFits(p)
        BY DEF Tidings, NewsInv
  <2>2. BoundFits(p)'
        BY <1>1, <1>2, <2>1 DEF BoundFits
  <2>3. ASSUME Known(p) PROVE Known(p)'
    <3>1. Unnoted(p)'
          BY <1>1, <1>4, <2>3 DEF Known, Unnoted, Of
    <3>2. \A i \in DOMAIN notes' : bound[notes'[i].suit] # p
          BY <1>4, <1>6, <2>3 DEF Known, Unnoted, Of
    <3> QED BY <1>1, <2>3, <3>1, <3>2 DEF Known, Of
  <2>4. ASSUME Noted(p) PROVE Noted(p)'
    <3>1. Unnoted(p)'
          BY <1>1, <1>4, <2>4 DEF Noted, Unnoted, Of
    <3>2. PICK k \in DOMAIN notes : /\ bound[notes[k].suit] = p /\ notes[k].fate = "Destroyed"
                                    /\ \A j \in DOMAIN notes : k < j => bound[notes[j].suit] # p
          BY <2>4 DEF Noted, Of
    <3>3. \A j \in DOMAIN notes' : k < j => bound[notes'[j].suit] # p
          BY <1>4, <1>6, <2>4, <3>2 DEF Noted, Unnoted, Of
    <3> QED BY <1>1, <1>6, <3>1, <3>2, <3>3 DEF Noted, Of
  <2>5. ASSUME Noting(p) PROVE Noting(p)' \/ Noted(p)'
    <3> PICK id : id = LastSuit(p)
        OBVIOUS
    <3>1. /\ pc[p] # "entered" /\ ~Seat(p) /\ bound[id] = p
          /\ \A i \in DOMAIN notes : notes[i].suit # id
          BY <2>5 DEF Noting
    <3>2. PICK k \in DOMAIN todo :
             /\ todo[k].kind = "note" /\ todo[k].val = [suit |-> id, fate |-> "Destroyed"]
             /\ \A j \in DOMAIN todo : j < k => todo[j].kind = "note" /\ todo[j].val.suit # id
             /\ \A j \in DOMAIN todo : k < j => todo[j].kind # "note"
          BY <2>5 DEF Noting
    <3>0. \A i \in DOMAIN todo : i \in Int /\ 1 <= i
      <4> HIDE DEF Writes
      <4> QED BY <1>4
    <3>a. \A i \in DOMAIN todo' : i \in Int /\ 1 <= i
      <4>1. todo' = Tail(todo)
            BY Wrote
      <4> HIDE DEF Writes
      <4> QED BY <1>4, <4>1
    <3>3. ~Seat(p)'
          BY <1>1, <3>1 DEF Seat, Joining
    <3>4. CASE k = 1
      <4>1. \A j \in DOMAIN todo' : todo'[j].kind # "note"
            BY <1>4, <3>2, <3>4
      <4>2. todo[1].val = [suit |-> id, fate |-> "Destroyed"] /\ todo[1].kind = "note"
            BY <3>2, <3>4
      <4>3. /\ l + 1 \in DOMAIN notes' /\ notes'[l + 1].suit = id /\ notes'[l + 1].fate = "Destroyed"
            /\ \A j \in DOMAIN notes' : ~(l + 1 < j)
            BY <1>5, <4>2
      <4>4. Unnoted(p)'
            BY <4>1 DEF Unnoted
      <4> QED BY <1>1, <3>1, <4>3, <4>4 DEF Noted, Of
    <3>5. CASE k # 1
      <4>0. 1 < k
            BY <3>0, <3>5
      <4>1. todo[1].kind = "note" /\ todo[1].val.suit # id
            BY <1>4, <3>2, <4>0
      <4>2. \A i \in DOMAIN notes' : notes'[i].suit # id
            BY <1>6, <3>1, <4>1
      <4>3. k - 1 \in DOMAIN todo' /\ todo'[k - 1] = todo[k]
            BY <1>4, <3>5
      <4>4. \A j \in DOMAIN todo' : /\ j < k - 1 => todo'[j].kind = "note" /\ todo'[j].val.suit # id
                                    /\ k - 1 < j => todo'[j].kind # "note"
        <5> SUFFICES ASSUME NEW j \in DOMAIN todo'
                     PROVE  /\ j < k - 1 => todo'[j].kind = "note" /\ todo'[j].val.suit # id
                            /\ k - 1 < j => todo'[j].kind # "note"
            OBVIOUS
        <5>1. todo'[j] = todo[j + 1] /\ j + 1 \in DOMAIN todo /\ j \in Int /\ k \in Int
              BY <1>4, <3>0, <3>a
        <5>2. (j < k - 1 => j + 1 < k) /\ (k - 1 < j => k < j + 1)
              BY <5>1
        <5> QED BY <3>2, <5>1, <5>2
      <4> QED BY <1>1, <1>2, <3>1, <3>2, <3>3, <4>2, <4>3, <4>4 DEF Noting
    <3> QED BY <3>4, <3>5
  <2>6. Gone(p)' => (Known(p)' \/ Noted(p)' \/ Noting(p)') /\ \A i \in DOMAIN fates' : bound'[fates'[i].suit] # p
        BY <1>1, <1>2, <2>1, <2>3, <2>4, <2>5 DEF NewsFits, Of
  <2>7. NewsFits(p)'
        BY <1>1, <1>2, <2>1, <2>6 DEF NewsFits, Of
  <2> QED BY <2>2, <2>7
<1>10. /\ \A n \in Fates : /\ Posted(n)' \/ Posting(n)' \/ Due(n)' => NoteFits(n)'
                           /\ Due(n)' => n.fate = "Lost"
       BY <1>3, <1>7 DEF Tidings, NewsInv
<1>11. inHand' = <<>> /\ \A id \in Ids : bound'[id] # NoPilot => bound'[id] = owner'[id]
       BY <1>1 DEF Tidings, NewsInv
<1> QED BY <1>8, <1>9, <1>10, <1>11 DEF Tidings, NewsInv

-----------------------------------------------------------------------------
(* The notes told: whoever's sleeper is gone hears of it, and nobody else does. *)
LEMMA TellNews ==
    ASSUME TypeInv, Tidings, NEW q \in Pilots
    PROVE  /\ NewsAfter(notes)[q] = "Destroyed" => Gone(q)
           /\ Known(q) \/ Noted(q) => NewsAfter(notes)[q] = "Destroyed"
<1> DEFINE theirs == {i \in DOMAIN notes : bound[notes[i].suit] = q}
<1>1. NewsAfter(notes)[q] = IF theirs = {} THEN news[q] ELSE notes[Max(theirs)].fate
      BY DEF NewsAfter
<1>2. notes \in Seq(Fates)
      BY DEF TypeInv, QueueTypes
<1>3. theirs # {} => Max(theirs) \in theirs /\ \A y \in theirs : y <= Max(theirs)
  <2>1. theirs \subseteq 0..Len(notes) /\ Len(notes) \in Nat
        BY <1>2
  <2> HIDE DEF theirs
  <2> QED BY <2>1, MaxIs
<1>4. \A i \in DOMAIN notes : i \in Nat /\ notes[i] \in Fates
  <2> HIDE DEF Fates
  <2> QED BY <1>2
<1>5. ASSUME NewsAfter(notes)[q] = "Destroyed" PROVE Gone(q)
  <2>1. CASE theirs = {}
        BY <1>1, <1>5, <2>1 DEF Tidings, NewsInv, NewsFits
  <2>2. CASE theirs # {}
    <3>1. PICK i \in DOMAIN notes : bound[notes[i].suit] = q /\ notes[i].fate = "Destroyed"
          BY <1>1, <1>3, <1>5, <2>2
    <3>2. PICK n \in Fates : n = notes[i]
          BY <1>4
    <3>3. Posted(n) /\ Of(n, q) /\ n.fate = "Destroyed"
          BY <3>1, <3>2 DEF Posted, Of
    <3>4. NoteFits(n)
          BY <3>3 DEF Tidings, NewsInv
    <3> QED BY <3>3, <3>4 DEF NoteFits
  <2> QED BY <2>1, <2>2
<1>6. ASSUME Known(q) PROVE NewsAfter(notes)[q] = "Destroyed"
  <2>1. theirs = {}
        BY <1>6 DEF Known, Of
  <2> QED BY <1>1, <1>6, <2>1 DEF Known
<1>7. ASSUME Noted(q) PROVE NewsAfter(notes)[q] = "Destroyed"
  <2>1. PICK k \in DOMAIN notes : /\ bound[notes[k].suit] = q /\ notes[k].fate = "Destroyed"
                                  /\ \A j \in DOMAIN notes : k < j => bound[notes[j].suit] # q
        BY <1>7 DEF Noted, Of
  <2>2. k \in theirs
        BY <2>1
  <2>3. Max(theirs) \in theirs /\ k <= Max(theirs) /\ theirs # {}
        BY <1>3, <2>2
  <2>4. Max(theirs) \in DOMAIN notes /\ bound[notes[Max(theirs)].suit] = q
        BY <2>3
  <2>5. Max(theirs) = k
    <3> DEFINE m == Max(theirs)
    <3>1. m \in Nat /\ k \in Nat /\ k <= m /\ ~(k < m)
          BY <1>4, <2>1, <2>3, <2>4
    <3> HIDE DEF m
    <3>2. m = k
          BY <3>1
    <3> QED BY <3>2 DEF m
  <2> QED BY <1>1, <2>1, <2>3, <2>5
<1> QED BY <1>5, <1>6, <1>7

(* And nobody asleep, or seated, is lost sight of. *)
LEMMA TellBound ==
    ASSUME TypeInv, CalmInv, FateInv, Tidings, NEW q \in Pilots
    PROVE  /\ \A id \in Ids : BoundAfter(notes)[id] \in {bound[id], NoPilot}
           /\ \A id \in Ids : (\A i \in DOMAIN notes : notes[i].suit # id) => BoundAfter(notes)[id] = bound[id]
           /\ Now(q) = "asleep" => BoundAfter(notes)[LastSuit(q)] = q
           /\ suit[q] # NoSuit /\ client[slot[q]].active => BoundAfter(notes)[LastSuit(q)] = q
<1>1. \A id \in Ids : BoundAfter(notes)[id] = IF \E i \in DOMAIN notes : notes[i].suit = id THEN NoPilot ELSE bound[id]
      BY DEF BoundAfter
<1>2. \A i \in DOMAIN notes : notes[i] \in Fates
  <2>1. notes \in Seq(Fates)
        BY DEF TypeInv, QueueTypes
  <2> HIDE DEF Fates
  <2> QED BY <2>1
<1>3. \A i \in DOMAIN notes : NoteFits(notes[i])
  <2> SUFFICES ASSUME NEW i \in DOMAIN notes PROVE NoteFits(notes[i])
      OBVIOUS
  <2>1. Posted(notes[i])
        BY DEF Posted
  <2> QED BY <1>2, <2>1 DEF Tidings, NewsInv
<1>4. BoundFits(q)
      BY DEF Tidings, NewsInv
<1>5. ASSUME Now(q) = "asleep" PROVE BoundAfter(notes)[LastSuit(q)] = q
  <2>1. LastSuit(q) # NoSuit
        BY <1>5 DEF Now
  <2>2. PICK id \in Ids : id = LastSuit(q) /\ life[id] = "asleep"
        BY <1>5, <2>1, LastIs
  <2>3. \A i \in DOMAIN notes : notes[i].suit # id
        BY <1>3, <2>2 DEF NoteFits, Dead
  <2> QED BY <1>1, <1>4, <1>5, <2>2, <2>3 DEF BoundFits
<1>6. ASSUME suit[q] # NoSuit, client[slot[q]].active PROVE BoundAfter(notes)[LastSuit(q)] = q
  <2>1. PICK s \in Slots : s = slot[q]
        BY <1>6 DEF CalmInv, PhaseInv, TypeInv, LeaseInv
  <2>2. client[s].suit = LastSuit(q) /\ suit[q] = LastSuit(q)
        BY <1>6, <2>1 DEF FateInv, Fate, LastFits, Is
  <2>3. PICK id \in Ids : id = LastSuit(q)
        BY <1>6, <2>2, LastIs
  <2>4. \A i \in DOMAIN notes : notes[i].suit # id
        BY <1>3, <1>6, <2>1, <2>2, <2>3 DEF NoteFits
  <2> QED BY <1>1, <1>4, <1>6, <2>3, <2>4 DEF BoundFits
<1> QED BY <1>1, <1>5, <1>6

(* What a suit's fate rests on, unchanged. *)
LEMMA FateKept ==
    ASSUME FateInv,
           UNCHANGED <<control, status, reports, todo, client, life, owner, bay, sleeper, pc, slot, suit, lost, poll>>
    PROVE  /\ FateInv'
           /\ \A p \in Pilots : /\ LastSuit(p)' = LastSuit(p) /\ Now(p)' = Now(p)
                               /\ (Gone(p)' <=> Gone(p)) /\ (Seat(p)' <=> Seat(p))
<1>1. UNCHANGED <<control, status, reports, todo, client, life, owner, bay, sleeper, pc, slot, suit, lost, poll>>
      OBVIOUS
<1>2. \A p \in Pilots : LastSuit(p)' = LastSuit(p) /\ Now(p)' = Now(p)
  <2>1. \A p \in Pilots : LastSuit(p)' = LastSuit(p)
        BY <1>1 DEF LastSuit
  <2> QED BY <1>1, <2>1 DEF Now
<1>3. \A s : /\ \A what : Flying(s, what)' <=> Flying(s, what)
             /\ (Joining(s)' <=> Joining(s)) /\ (Sleeping(s)' <=> Sleeping(s))
             /\ \A os : Outcome(s, os)' <=> Outcome(s, os)
             /\ NotSlept(s)' <=> NotSlept(s)
             /\ \A id : SaysAsleep(s, id)' <=> SaysAsleep(s, id)
      BY <1>1, StaysSaid DEF Flying, Owed, Rung, Joining, Sleeping
<1>4. ASSUME NEW p \in Pilots PROVE Fate(p)' /\ (Gone(p)' <=> Gone(p)) /\ (Seat(p)' <=> Seat(p))
  <2> DEFINE s == slot[p]
  <2>1. Fate(p)
        BY DEF FateInv
  <2>2. slot'[p] = s
        BY <1>1
  <2>3. /\ \A what : Flying(slot[p], what)' <=> Flying(s, what)
        /\ (Joining(slot[p])' <=> Joining(s)) /\ (Sleeping(slot[p])' <=> Sleeping(s))
        /\ \A os : Outcome(slot[p], os)' <=> Outcome(s, os)
        /\ NotSlept(slot[p])' <=> NotSlept(s)
    <3>1. \A what : Flying(slot[p], what)' <=> Flying(s, what)
          BY <1>1 DEF Flying, Owed, Rung
    <3>2. (Joining(slot[p])' <=> Joining(s)) /\ (Sleeping(slot[p])' <=> Sleeping(s))
          BY <1>1 DEF Joining, Sleeping
    <3>3. \A os : Outcome(slot[p], os)' <=> Outcome(s, os)
          BY <1>1 DEF Outcome, Storable, Storing
    <3>4. NotSlept(slot[p])' <=> NotSlept(s)
          BY <1>1 DEF NotSlept, Storable
    <3> QED BY <3>1, <3>2, <3>3, <3>4
  <2>4. SaysAsleep(slot[p], LastSuit(p))' <=> SaysAsleep(s, LastSuit(p))
        BY <1>1, <1>2 DEF SaysAsleep, Storing
  <2> HIDE DEF s
  <2>5. (Abed(p)' <=> Abed(p)) /\ (Nodding(p)' <=> Nodding(p)) /\ (Seat(p)' <=> Seat(p))
    <3>1. Abed(p)' <=> Abed(p)
          BY <1>1 DEF Abed
    <3>2. Nodding(p)' <=> Nodding(p)
          BY <1>1, <1>2, <2>3, <2>4 DEF Nodding, s
    <3>3. Seat(p)' <=> Seat(p)
          BY <1>1, <2>3 DEF Seat, s
    <3> QED BY <3>1, <3>2, <3>3
  <2>6. Gone(p)' <=> Gone(p)
        BY <1>1, <1>2, <2>5 DEF Gone
  <2>a. LastFits(p)' /\ BayFits(p)' /\ SleepsOnce(p)'
        BY <1>1, <1>2, <2>1 DEF Fate, LastFits, Is, BayFits, SleepsOnce
  <2>b. SeatFits(p)'
        BY <1>1, <1>2, <2>1, <2>3, <2>5 DEF Fate, SeatFits, s
  <2>c. OutFits(p)' /\ ToldFits(p)'
        BY <1>1, <1>2, <2>1, <2>3, <2>5 DEF Fate, OutFits, ToldFits, s
  <2> QED BY <2>5, <2>6, <2>a, <2>b, <2>c DEF Fate
<1> QED BY <1>2, <1>4 DEF FateInv

(* The notes task tells all there is. *)
LEMMA NotesFate ==
    ASSUME TypeInv, CalmInv, FateInv, Tidings, ~SplitNotes, Notes
    PROVE  FateInv' /\ Tidings'
<1>1. /\ UNCHANGED <<control, status, reports, todo, client, claim, fates, life, owner, launched,
                     bay, sleeper, pc, slot, suit, lost, poll, inHand>>
      /\ notes' = <<>> /\ bound' = BoundAfter(notes) /\ news' = NewsAfter(notes)
      BY DEF Notes, NotesTask, Told, sector, sim, record, session, Tidings, NewsInv
<1>2. \A p \in Pilots : LastSuit(p)' = LastSuit(p) /\ Now(p)' = Now(p)
      BY <1>1, FateKept
<1>4. FateInv' /\ \A p \in Pilots : (Gone(p)' <=> Gone(p)) /\ (Seat(p)' <=> Seat(p))
      BY <1>1, FateKept
<1>5. \A id \in Ids : bound'[id] \in {bound[id], NoPilot}
  <2>1. CASE Pilots = {}
        BY <1>1, <2>1 DEF BoundAfter
  <2> QED BY <1>1 DEF BoundAfter
<1>6. \A n \in Fates : \A p \in Pilots : Of(n, p)' => Of(n, p)
      BY <1>5, ConstantsAssumption DEF Of, Fates
<1>7. \A n \in Fates : ~Posted(n)' /\ (Posting(n)' <=> Posting(n)) /\ (Due(n)' <=> Due(n))
  <2>1. DOMAIN notes' = {}
        BY <1>1
  <2> QED BY <1>1, <2>1 DEF Posted, Posting, Due
<1>8. ASSUME NEW n \in Fates, NoteFits(n) PROVE NoteFits(n)'
      BY <1>1, <1>2, <1>4, <1>6, <1>8 DEF NoteFits
<1>9. ASSUME NEW p \in Pilots PROVE BoundFits(p)' /\ NewsFits(p)'
  <2>1. BoundFits(p)'
        BY <1>1, <1>2, TellBound DEF BoundFits
  <2>2. news'[p] = NewsAfter(notes)[p] /\ NewsFits(p)
        BY <1>1 DEF Tidings, NewsInv
  <2>3. news'[p] = "Destroyed" => Gone(p)'
        BY <1>4, <2>2, TellNews
  <2>4. \A i \in DOMAIN todo : todo[i].kind = "note" => todo[i].val \in Fates
    <3>1. todo \in Seq(Writes)
          BY DEF TypeInv, QueueTypes
    <3>2. \A i \in DOMAIN todo : todo[i] \in Writes
      <4> HIDE DEF Writes
      <4> QED BY <3>1
    <3> QED BY <3>2 DEF Writes, Stores, Reports, Noticed
  <2>5. DOMAIN notes' = {}
        BY <1>1
  <2>6. ASSUME Known(p) \/ Noted(p) PROVE Known(p)'
    <3>1. news'[p] = "Destroyed"
          BY <2>2, <2>6, TellNews
    <3>2. Unnoted(p)'
      <4>1. Unnoted(p)
            BY <2>6 DEF Known, Noted
      <4> QED BY <1>1, <1>6, <2>4, <4>1 DEF Unnoted, Of
    <3> QED BY <2>5, <3>1, <3>2 DEF Known
  <2>7. ASSUME Noting(p) PROVE Noting(p)'
    <3>1. PICK id : id = LastSuit(p)
          OBVIOUS
    <3>2. bound[id] = p /\ \A i \in DOMAIN notes : notes[i].suit # id
          BY <2>7, <3>1 DEF Noting
    <3>3. id \in Ids
      <4>1. PICK k \in DOMAIN todo : todo[k].kind = "note" /\ todo[k].val = [suit |-> id, fate |-> "Destroyed"]
            BY <2>7, <3>1 DEF Noting
      <4> QED BY <2>4, <4>1 DEF Fates
    <3>4. bound'[id] = p
          BY <1>1, <3>2, <3>3 DEF BoundAfter
    <3> QED BY <1>1, <1>2, <1>4, <2>5, <2>7, <3>1, <3>4 DEF Noting
  <2>8. Gone(p) => \A i \in DOMAIN fates' : bound'[fates'[i].suit] # p
    <3>1. fates \in Seq(Fates)
          BY DEF TypeInv, QueueTypes
    <3>2. \A i \in DOMAIN fates : fates[i] \in Fates
      <4> HIDE DEF Fates
      <4> QED BY <3>1
    <3> QED BY <1>1, <1>6, <2>2, <3>2 DEF NewsFits, Of
  <2> QED BY <1>4, <2>1, <2>2, <2>3, <2>6, <2>7, <2>8 DEF NewsFits, Of
<1>10. AsleepInv'
       BY <1>1, <1>2 DEF Tidings, AsleepInv
<1>11. inHand' = <<>> /\ \A id \in Ids : bound'[id] # NoPilot => bound'[id] = owner'[id]
       BY <1>1, <1>5 DEF Tidings, NewsInv
<1>12. \A n \in Fates : /\ Posted(n)' \/ Posting(n)' \/ Due(n)' => NoteFits(n)'
                        /\ Due(n)' => n.fate = "Lost"
       BY <1>7, <1>8 DEF Tidings, NewsInv
<1> QED BY <1>4, <1>9, <1>10, <1>11, <1>12 DEF FateInv, Tidings, NewsInv

-----------------------------------------------------------------------------
(* A step of a session that reads no notes: no sleeper comes or goes, and no suit is bound
   to its pilot but one that is seated. *)
Holds(p) ==
    /\ UNCHANGED <<notes, inHand, fates>>
    /\ \A q \in Pilots : q # p => news'[q] = news[q]
    /\ news'[p] = news[p] \/ (news'[p] = "none" /\ ~Gone(p))
    /\ \A id \in Ids :
          \/ bound'[id] = bound[id]
          \/ owner[id] = p /\ bound'[id] = NoPilot
          \/ owner[id] = p /\ bound'[id] = p /\ \E s \in Slots : client[s].active /\ client[s].suit = id
    /\ BoundFits(p)'
    /\ Gone(p)' <=> Gone(p)
    /\ Gone(p) => /\ LastSuit(p)' = LastSuit(p) /\ UNCHANGED bound
                  /\ Noting(p) => pc'[p] # "entered"
    /\ UNCHANGED <<life, owner>> \/ (sleeper[p] = NoSuit /\ suit[p] = NoSuit)
    /\ sleeper[p] # NoSuit \/ suit[p] # NoSuit =>
          (Now(p) = "asleep" => sleeper'[p] # NoSuit \/ suit'[p] # NoSuit)

LEMMA OthersGone ==
    ASSUME NEW p \in Pilots, SessionStep(p), NEW q \in Pilots, q # p
    PROVE  /\ Gone(q)' <=> Gone(q)
           /\ Seat(q)' <=> Seat(q)
           /\ LastSuit(q)' = LastSuit(q) /\ Now(q)' = Now(q)
           /\ pc'[q] = pc[q] /\ suit'[q] = suit[q] /\ sleeper'[q] = sleeper[q] /\ slot'[q] = slot[q]
<1>1. LastSuit(q)' = LastSuit(q) /\ Now(q)' = Now(q)
      BY LastStays
<1>2. /\ pc'[q] = pc[q] /\ slot'[q] = slot[q] /\ suit'[q] = suit[q] /\ lost'[q] = lost[q]
      /\ sleeper'[q] = sleeper[q] /\ client' = client /\ status' = status /\ todo' = todo
      BY OthersAre DEF SessionStep, SessionMoves
<1>3. Abed(q)' <=> Abed(q)
      BY <1>2 DEF Abed
<1>4. pc[q] # "away" => slot[q] \in Slots
      BY SessionFacts
<1>5. pc[q] = "freeing" => (Nodding(q)' <=> Nodding(q))
  <2> SUFFICES ASSUME pc[q] = "freeing" PROVE Nodding(q)' <=> Nodding(q)
      OBVIOUS
  <2>1. PICK s \in Slots : s = slot[q]
        BY <1>4
  <2>2. Sleeping(slot[q])' <=> Sleeping(slot[q])
    <3>1. Sleeping(s)' <=> Sleeping(s)
          BY <2>1, OtherSlots
    <3>2. Sleeping(slot[q])' <=> Sleeping(s)'
          BY <1>2, <2>1 DEF Sleeping
    <3> QED BY <2>1, <3>1, <3>2
  <2>3. SaysAsleep(slot[q], LastSuit(q))' <=> SaysAsleep(slot[q], LastSuit(q))
        BY <1>1, <1>2 DEF SaysAsleep, Storing
  <2> QED BY <1>1, <1>2, <2>2, <2>3 DEF Nodding
<1>6. Nodding(q)' <=> Nodding(q)
      BY <1>2, <1>5 DEF Nodding
<1>7. Gone(q)' <=> Gone(q)
      BY <1>1, <1>2, <1>3, <1>6 DEF Gone
<1>8. Seat(q)' <=> Seat(q)
  <2>1. pc[q] # "seating" => ~Seat(q) /\ ~Seat(q)'
        BY <1>2 DEF Seat
  <2>2. pc[q] = "seating" => (Seat(q)' <=> Seat(q))
        BY <1>4, SessionFacts
  <2> QED BY <2>1, <2>2
<1> QED BY <1>1, <1>2, <1>7, <1>8

LEMMA HoldTidings ==
    ASSUME NEW p \in Pilots, SessionStep(p), Tidings, Holds(p)
    PROVE  Tidings'
<1>1. /\ UNCHANGED <<notes, inHand, fates, todo, client, status>>
      /\ bound \in [Ids -> Anyone] /\ owner \in [Ids -> Anyone]
      BY DEF Holds, SessionStep, SessionMoves, TypeInv, TaskTypes, SectorTypes
<1>2. \A id \in Ids : life[id] # "unborn" \/ owner[id] \in Pilots => life'[id] = life[id] /\ owner'[id] = owner[id]
      BY LaunchFacts
<1>3. /\ \A i \in DOMAIN todo : todo[i].kind = "note" => todo[i].val \in Fates
      /\ \A i \in DOMAIN notes : notes[i] \in Fates
      /\ \A i \in DOMAIN fates : fates[i] \in Fates
  <2>1. todo \in Seq(Writes) /\ notes \in Seq(Fates) /\ fates \in Seq(Fates)
        BY DEF SessionStep, TypeInv, QueueTypes
  <2>2. \A i \in DOMAIN todo : todo[i] \in Writes
    <3> HIDE DEF Writes, Fates
    <3> QED BY <2>1
  <2>3. (\A i \in DOMAIN notes : notes[i] \in Fates) /\ (\A i \in DOMAIN fates : fates[i] \in Fates)
    <3> HIDE DEF Writes, Fates
    <3> QED BY <2>1
  <2> QED BY <2>2, <2>3 DEF Writes, Stores, Reports, Noticed
<1>4. \A id \in Ids : bound[id] # NoPilot => bound[id] = owner[id] /\ owner[id] \in Pilots
      BY <1>1 DEF Tidings, NewsInv, Anyone
<1>5. \A id \in Ids, q \in Pilots : q # p => (bound'[id] = q <=> bound[id] = q)
  <2> SUFFICES ASSUME NEW id \in Ids, NEW q \in Pilots, q # p PROVE bound'[id] = q <=> bound[id] = q
      OBVIOUS
  <2> QED BY <1>4, ConstantsAssumption DEF Holds
<1>6. \A n \in Fates : (Posted(n)' <=> Posted(n)) /\ (Posting(n)' <=> Posting(n)) /\ (Due(n)' <=> Due(n))
      BY <1>1 DEF Posted, Posting, Due
<1>7. ASSUME NEW n \in Fates, NoteFits(n) PROVE NoteFits(n)'
  <2>1. n.suit \in Ids
        BY DEF Fates
  <2>2. life[n.suit] # "unborn"
        BY <1>7 DEF NoteFits, Dead
  <2>3. life'[n.suit] = life[n.suit]
        BY <1>2, <2>1, <2>2
  <2>4. ASSUME n.fate = "Destroyed", NEW q \in Pilots, bound'[n.suit] = q
        PROVE  n.suit = LastSuit(q)' /\ Gone(q)'
    <3>1. bound[n.suit] = q
      <4>1. CASE q # p
            BY <1>5, <2>1, <2>4, <4>1
      <4>2. CASE q = p
        <5>1. \A s \in Slots : client[s].active => client[s].suit # n.suit
              BY <1>7 DEF NoteFits
        <5> QED BY <2>1, <2>4, <4>2, <5>1, ConstantsAssumption DEF Holds
      <4> QED BY <4>1, <4>2
    <3>2. n.suit = LastSuit(q) /\ Gone(q)
          BY <1>7, <2>4, <3>1 DEF NoteFits, Of
    <3>3. CASE q # p
          BY <3>2, <3>3, OthersGone
    <3>4. CASE q = p
          BY <3>2, <3>4 DEF Holds
    <3> QED BY <3>3, <3>4
  <2> QED BY <1>1, <1>7, <2>3, <2>4 DEF NoteFits, Of
<1>8. AsleepInv'
  <2> SUFFICES ASSUME NEW id \in Ids, life'[id] = "asleep"
               PROVE  /\ owner'[id] \in Pilots /\ (LastSuit(owner[id]) = id)'
                      /\ sleeper'[owner'[id]] # NoSuit \/ suit'[owner'[id]] # NoSuit
      BY DEF AsleepInv
  <2>1. life[id] = "asleep" /\ owner'[id] = owner[id]
    <3>1. CASE UNCHANGED <<life, owner, launched>>
          BY <3>1
    <3>2. CASE Launches(p)
      <4>1. id # launched + 1
            BY <3>2 DEF Launches, SessionStep, TypeInv, SectorTypes
      <4> QED BY <3>2, <4>1 DEF Launches, SessionStep, TypeInv, SectorTypes
    <3> QED BY <3>1, <3>2 DEF SessionStep, SessionMoves
  <2> PICK q \in Pilots : owner[id] = q /\ LastSuit(q) = id /\ (sleeper[q] # NoSuit \/ suit[q] # NoSuit)
      BY <2>1 DEF Tidings, AsleepInv
  <2>2. CASE q # p
    <3>1. LastSuit(q)' = id /\ (sleeper'[q] # NoSuit \/ suit'[q] # NoSuit)
          BY <2>2, OthersGone
    <3> QED BY <2>1, <3>1
  <2>3. CASE q = p
    <3>1. UNCHANGED <<life, owner>>
          BY <2>3 DEF Holds
    <3>2. LastSuit(p)' = id
          BY <2>3, <3>1 DEF LastSuit
    <3>3. Now(p) = "asleep"
          BY <2>1, <2>3, NoSuitIs DEF Now
    <3> QED BY <2>1, <2>3, <3>2, <3>3 DEF Holds
  <2> QED BY <2>2, <2>3
<1>9. ASSUME NEW q \in Pilots, q # p PROVE BoundFits(q)' /\ NewsFits(q)'
  <2>1. /\ Gone(q)' <=> Gone(q)
        /\ Seat(q)' <=> Seat(q)
        /\ LastSuit(q)' = LastSuit(q) /\ Now(q)' = Now(q)
        /\ pc'[q] = pc[q] /\ suit'[q] = suit[q] /\ slot'[q] = slot[q] /\ news'[q] = news[q]
        BY <1>9, OthersGone DEF Holds
  <2>2. BoundFits(q) /\ NewsFits(q)
        BY DEF Tidings, NewsInv
  <2>3. LastSuit(q) # NoSuit => LastSuit(q) \in Ids
        BY LastIs
  <2>4. BoundFits(q)'
    <3>1. Now(q) = "asleep" => LastSuit(q) # NoSuit
          BY DEF Now
    <3>2. suit[q] # NoSuit => LastSuit(q) \in Ids
      <4>1. suit[q] # NoSuit => owner[suit[q]] = q /\ suit[q] \in Ids
            BY DEF SessionStep, CalmInv, OwnInv, Own, TypeInv, TaskTypes, SomeSuit, LeaseInv
      <4> QED BY <4>1, LastSuitIs
    <3> QED BY <1>1, <1>5, <1>9, <2>1, <2>2, <2>3, <3>1, <3>2 DEF BoundFits
  <2>5. Known(q) => Known(q)'
        BY <1>1, <1>3, <1>5, <1>9, <2>1 DEF Known, Unnoted, Of, Fates
  <2>6. Noted(q) => Noted(q)'
        BY <1>1, <1>3, <1>5, <1>9, <2>1 DEF Noted, Unnoted, Of, Fates
  <2>7. ASSUME Noting(q) PROVE Noting(q)'
    <3>1. PICK id : id = LastSuit(q) /\ LastSuit(q)' = id
          BY <2>1
    <3>2. /\ pc[q] # "entered" /\ ~Seat(q)
          /\ \A i \in DOMAIN notes : notes[i].suit # id
          BY <2>7, <3>1 DEF Noting
    <3>3. PICK k \in DOMAIN todo :
            /\ todo[k].kind = "note" /\ todo[k].val = [suit |-> id, fate |-> "Destroyed"]
            /\ bound[id] = q
            /\ \A j \in DOMAIN todo : j < k => todo[j].kind = "note" /\ todo[j].val.suit # id
            /\ \A j \in DOMAIN todo : k < j => todo[j].kind # "note"
          BY <2>7, <3>1 DEF Noting
    <3>4. id \in Ids
          BY <1>3, <3>3 DEF Fates
    <3>5. bound'[id] = q
          BY <1>5, <1>9, <3>3, <3>4
    <3> QED BY <1>1, <2>1, <3>1, <3>2, <3>3, <3>5 DEF Noting
  <2>8. Gone(q) => \A i \in DOMAIN fates' : bound'[fates'[i].suit] # q
        BY <1>1, <1>3, <1>5, <1>9, <2>2 DEF NewsFits, Of, Fates
  <2> QED BY <2>1, <2>2, <2>4, <2>5, <2>6, <2>7, <2>8 DEF NewsFits, Of
<1>10. NewsFits(p)'
  <2>1. news'[p] = "Destroyed" => Gone(p)'
        BY DEF Holds, Tidings, NewsInv, NewsFits
  <2>2. ASSUME Gone(p) PROVE (Known(p)' \/ Noted(p)' \/ Noting(p)') /\ \A i \in DOMAIN fates' : bound'[fates'[i].suit] # p
    <3>1. /\ UNCHANGED bound /\ news'[p] = news[p] /\ LastSuit(p)' = LastSuit(p)
          /\ Noting(p) => pc'[p] # "entered"
          BY <2>2 DEF Holds
    <3>2. ~Seat(p)'
          BY DEF SessionStep, PilotFits
    <3>3. NewsFits(p)
          BY DEF Tidings, NewsInv
    <3>4. Known(p) => Known(p)'
          BY <1>1, <3>1 DEF Known, Unnoted, Of
    <3>5. Noted(p) => Noted(p)'
          BY <1>1, <3>1 DEF Noted, Unnoted, Of
    <3>6. Noting(p) => Noting(p)'
          BY <1>1, <3>1, <3>2 DEF Noting
    <3> QED BY <1>1, <2>2, <3>1, <3>3, <3>4, <3>5, <3>6 DEF NewsFits, Of
  <2> QED BY <2>1, <2>2 DEF NewsFits, Of, Holds
<1>11. inHand' = <<>> /\ \A id \in Ids : bound'[id] # NoPilot => bound'[id] = owner'[id]
  <2>1. ASSUME NEW id \in Ids, bound'[id] # NoPilot PROVE bound'[id] = owner'[id]
    <3>1. bound'[id] = owner[id] /\ owner[id] \in Pilots
          BY <1>4, <2>1 DEF Holds
    <3> QED BY <1>2, <3>1
  <2> QED BY <1>1, <2>1 DEF Tidings, NewsInv
<1>12. \A n \in Fates : /\ Posted(n)' \/ Posting(n)' \/ Due(n)' => NoteFits(n)'
                        /\ Due(n)' => n.fate = "Lost"
       BY <1>6, <1>7 DEF Tidings, NewsInv
<1>13. BoundFits(p)'
       BY DEF Holds
<1> QED BY <1>8, <1>9, <1>10, <1>11, <1>12, <1>13 DEF Tidings, NewsInv

-----------------------------------------------------------------------------
(* The steps of a session that touch nothing of the registry. *)
Unbound == UNCHANGED <<notes, inHand, fates, news, bound>>

(* Nobody at play, or waiting for the dock, has a sleeper; what is said of a suit seated,
   or gone from its seat any other way, isn't that it sleeps. *)
LEMMA WakeIs ==
    ASSUME TypeInv, CalmInv, NEW p \in Pilots, Fate(p), pc[p] \in {"play", "docking"} \/ (pc[p] = "entered" /\ suit[p] # NoSuit)
    PROVE  ~Gone(p) /\ (suit[p] # NoSuit => NotSlept(slot[p]))
<1>1. ~Nodding(p)
      BY DEF Nodding
<1>2. ~Abed(p)
      BY DEF Fate, BayFits, Abed
<1>3. suit[p] # NoSuit => NotSlept(slot[p])
      BY <1>1 DEF Fate, OutFits
<1> QED BY <1>1, <1>2, <1>3 DEF Gone

LEMMA AwakeIsnt ==
    ASSUME NEW s, NEW id, NotSlept(s) PROVE ~SaysAsleep(s, id)
BY DEF NotSlept, SaysAsleep, Storable, Storing, Awake

LEMMA QuietHolds ==
    ASSUME NEW p \in Pilots, SessionStep(p), Fate(p), Tidings, Quiet(p), Unbound
    PROVE  Holds(p)
<1>1. LastSuit(p)' = LastSuit(p) /\ Now(p)' = Now(p)
      BY LastStays DEF Quiet
<1>2. client' = client /\ status' = status /\ todo' = todo /\ slot[p] \in Slots /\ slot'[p] = slot[p]
      /\ sleeper'[p] = sleeper[p] /\ suit'[p] = suit[p]
      BY SessionFacts DEF Quiet, SessionStep, SessionMoves, Outdoors
<1>3. pc[p] \in {"play", "docking", "towing", "awaitTow"} /\ pc'[p] \notin {"seating", "entered", "asking"}
      BY DEF Quiet, Outdoors
<1>4. Abed(p)' <=> Abed(p)
      BY <1>2, <1>3 DEF Abed
<1>5. ASSUME suit[p] # NoSuit PROVE ~Nodding(p) /\ ~Nodding(p)'
  <2>1. ~Nodding(p)
        BY <1>3 DEF Nodding
  <2>2. pc[p] \in {"play", "docking"}
        BY <1>3, <1>5 DEF SessionStep, CalmInv, PhaseInv
  <2>3. NotSlept(slot[p])
        BY <1>5, <2>2, WakeIs DEF SessionStep
  <2>4. NotSlept(slot[p])'
        BY <1>2, <2>3 DEF NotSlept, Storable
  <2>5. ~SaysAsleep(slot[p], LastSuit(p))'
        BY <2>4 DEF NotSlept, SaysAsleep, Storable, Storing, Awake
  <2> QED BY <2>1, <2>5 DEF Nodding
<1>6. Gone(p)' <=> Gone(p)
      BY <1>1, <1>2, <1>4, <1>5 DEF Gone
<1>7. BoundFits(p)'
      BY <1>1, <1>2 DEF BoundFits, Unbound, Tidings, NewsInv
<1> QED BY <1>1, <1>2, <1>3, <1>6, <1>7 DEF Holds, Unbound, Quiet

LEMMA IdleHolds ==
    ASSUME NEW p \in Pilots, SessionStep(p), Tidings, Unbound, UNCHANGED <<life, owner, launched>>,
           suit[p] = NoSuit, suit'[p] = NoSuit, sleeper'[p] = sleeper[p],
           ~(pc[p] = "seating" /\ client[slot[p]].active), ~(pc'[p] = "seating" /\ client[slot'[p]].active),
           Noting(p) /\ sleeper[p] # NoSuit => pc'[p] # "entered"
    PROVE  Holds(p)
<1>1. LastSuit(p)' = LastSuit(p) /\ Now(p)' = Now(p) /\ client' = client
      BY LastStays DEF SessionStep, SessionMoves
<1>2. Abed(p)' <=> Abed(p)
      BY <1>1 DEF Abed
<1>3. (Gone(p)' <=> Gone(p)) /\ (Gone(p) => sleeper[p] # NoSuit)
      BY <1>1, <1>2 DEF Gone, Abed
<1>4. BoundFits(p)'
      BY <1>1 DEF BoundFits, Unbound, Tidings, NewsInv
<1> QED BY <1>1, <1>3, <1>4 DEF Holds, Unbound

LEMMA PlainHolds ==
    ASSUME NEW p \in Pilots, SessionStep(p), Calm, Fate(p), Tidings,
           \/ Dock(p) \/ Eject(p) \/ Leave(p) \/ AskTow(p) \/ AwaitTow(p) \/ GiveUpTow(p) \/ GiveUpDock(p)
           \/ Refit(p) \/ Return(p) \/ Connect(p) \/ Ask(p)
    PROVE  Holds(p)
<1>1. Unbound
      BY DEF Unbound, Dock, Eject, Leave, AskTow, AwaitTow, GiveUpTow, GiveUpDock, Refit, Return, Connect, Ask,
             registry, shared, sector
<1>2. CASE \/ Dock(p) \/ Eject(p) \/ Leave(p) \/ AskTow(p) \/ AwaitTow(p) \/ GiveUpTow(p) \/ GiveUpDock(p)
           \/ Refit(p)
      BY <1>1, <1>2, QuietSteps, QuietHolds
<1>3. CASE Return(p) \/ Connect(p) \/ Ask(p)
  <2>1. /\ UNCHANGED <<life, owner, launched, suit, sleeper>> /\ pc[p] \in {"returning", "away", "asking"}
        /\ pc[p] # "asking" => pc'[p] # "seating"
        /\ pc[p] = "asking" => pc'[p] = "seating" /\ slot'[p] = slot[p] /\ ~client[slot[p]].active
        /\ pc'[p] = "entered" => pc[p] = "away" /\ ~(bay[p] = "out" /\ sleeper[p] # NoSuit)
    <3>1. SeatInv /\ pc \in [Pilots -> PCs]
          BY DEF SessionStep, CalmInv, TypeInv, LeaseInv
    <3>2. CASE Return(p)
          BY <3>1, <3>2 DEF Return, sim, record
    <3>3. CASE Connect(p)
          BY <3>1, <3>3 DEF Connect, sim, record
    <3>4. CASE Ask(p)
          BY <3>1, <3>4 DEF Ask, sim, record, SeatInv
    <3> QED BY <1>3, <3>2, <3>3, <3>4
  <2>2. suit[p] = NoSuit
        BY <2>1 DEF SessionStep, CalmInv, PhaseInv
  <2>3. sleeper[p] # NoSuit => bay[p] = "out"
        BY DEF Fate, BayFits
  <2> QED BY <1>1, <2>1, <2>2, <2>3, IdleHolds
<1> QED BY <1>2, <1>3

LEMMA LaunchHolds ==
    ASSUME NEW p \in Pilots, SessionStep(p), Fate(p), Fate(p)', Tidings, Launch(p)
    PROVE  Holds(p)
<1>1. /\ pc[p] = "play" /\ suit[p] = NoSuit /\ pc'[p] = "asking" /\ sleeper' = sleeper /\ suit' = suit
      /\ UNCHANGED <<notes, inHand, fates, news, bound>>
      BY DEF Launch, shared, sector, registry, SessionStep, TypeInv, LeaseInv
<1>2. sleeper[p] = NoSuit
      BY <1>1 DEF Fate, BayFits
<1>3. ~Gone(p) /\ ~Gone(p)'
      BY <1>1, <1>2 DEF Gone, Abed
<1>4. Now(p)' = "queued"
      BY <1>1, <1>2 DEF Fate, SeatFits
<1>5. BoundFits(p)'
      BY <1>1, <1>4 DEF BoundFits
<1> QED BY <1>1, <1>2, <1>3, <1>5 DEF Holds

LEMMA AnswerHolds ==
    ASSUME NEW p \in Pilots, SessionStep(p), Fate(p), Fate(p)', Tidings, AwaitSeat(p)
    PROVE  Holds(p)
<1>1. PICK s \in Slots : s = slot[p]
      BY DEF AwaitSeat, SessionStep, TypeInv, LeaseInv
<1> DEFINE seated == status[s].state = "Active" /\ status[s].suit # NoSuit
<1>2. /\ pc[p] = "seating" /\ status[s].epoch # seen[p] /\ s = slot[p]
      /\ UNCHANGED <<life, owner, launched, sleeper, slot, notes, inHand, fates, news>>
      /\ client' = client /\ pc'[p] # "seating"
      /\ suit'[p] = IF seated THEN status[s].suit ELSE suit[p]
      /\ bound' = IF seated THEN [bound EXCEPT ![status[s].suit] = p] ELSE bound
      BY <1>1 DEF AwaitSeat, Answer, shared, sector, sim, SessionStep, TypeInv, LeaseInv, TaskTypes
<1>3. Seat(p) /\ ~Storing(s) /\ client[s].active = seated
      BY <1>1, <1>2, SeatIs DEF SessionStep
<1>4. suit[p] = NoSuit
      BY <1>2 DEF SessionStep, CalmInv, PhaseInv
<1>5. client[s].active => status[s].suit = client[s].suit
      BY <1>3 DEF SessionStep, CalmInv, StatusInv, Shows
<1>6. LastSuit(p)' = LastSuit(p) /\ Now(p)' = Now(p)
      BY <1>2, LastStays
<1>7. CASE ~client[s].active
  <2>1. suit'[p] = NoSuit /\ bound' = bound
        BY <1>2, <1>3, <1>4, <1>7
  <2>2. ~Noting(p)
        BY <1>3 DEF Noting
  <2> QED BY <1>1, <1>2, <1>4, <1>7, <2>1, <2>2, IdleHolds DEF Unbound
<1>8. CASE client[s].active
  <2>1. suit'[p] = LastSuit(p) /\ suit'[p] # NoSuit /\ seated
        BY <1>1, <1>2, <1>3, <1>5, <1>8 DEF Fate, LastFits
  <2>2. ~Gone(p) /\ ~Gone(p)'
        BY <1>1, <1>2, <1>4, <1>8, <2>1 DEF Gone, Abed
  <2>3. PICK id \in Ids : id = LastSuit(p) /\ owner[id] = p
        BY <2>1, LastIs
  <2>4. bound' = [bound EXCEPT ![id] = p] /\ client[s].suit = id
        BY <1>2, <1>5, <1>8, <2>1, <2>3
  <2>5. bound'[id] = p /\ \A i \in Ids : i # id => bound'[i] = bound[i]
    <3>1. bound \in [Ids -> Anyone]
          BY DEF SessionStep, TypeInv, TaskTypes
    <3> QED BY <2>3, <2>4, <3>1
  <2>6. BoundFits(p)'
        BY <1>6, <2>3, <2>5 DEF BoundFits
  <2> QED BY <1>2, <1>8, <2>1, <2>2, <2>3, <2>4, <2>5, <2>6 DEF Holds
<1> QED BY <1>7, <1>8

-----------------------------------------------------------------------------
(* A pilot with no suit out, and none asleep by their record, has none asleep. *)
LEMMA HomeIs ==
    ASSUME NEW p \in Pilots, Fate(p)', sleeper'[p] = NoSuit, suit'[p] = NoSuit, pc'[p] \notin {"asking", "seating"},
           TypeInv'
    PROVE  Now(p)' # "asleep" /\ ~Gone(p)'
<1>1. bay'[p] # "out" /\ bay'[p] \in {"new", "docked", "out", "empty"}
      BY DEF Fate, BayFits, TypeInv, TaskTypes
<1>2. CASE bay'[p] = "docked"
      BY <1>2 DEF Fate, BayFits, Sound, Gone, Abed
<1>3. CASE bay'[p] \in {"new", "empty"}
  <2>1. LastSuit(p)' = NoSuit \/ Now(p)' \in Dead
        BY <1>3 DEF Fate, BayFits
  <2>2. LastSuit(p)' = NoSuit => Now(p)' = "unborn"
        BY DEF Now
  <2> QED BY <2>1, <2>2 DEF Dead, Gone, Abed
<1> QED BY <1>1, <1>2, <1>3

(* A suit let go is its pilot's. *)
LEMMA LetsGo ==
    ASSUME NEW p \in Pilots, SessionStep(p), suit[p] # NoSuit, bound' = [bound EXCEPT ![suit[p]] = NoPilot]
    PROVE  \A id \in Ids : bound'[id] = bound[id] \/ (owner[id] = p /\ bound'[id] = NoPilot)
<1>1. suit[p] \in Ids /\ owner[suit[p]] = p /\ bound \in [Ids -> Anyone]
      BY DEF SessionStep, CalmInv, OwnInv, Own, TypeInv, TaskTypes, SomeSuit
<1> QED BY <1>1

LEMMA ReadHolds ==
    ASSUME NEW p \in Pilots, SessionStep(p), Fate(p), Fate(p)', Tidings, ReadReport(p)
    PROVE  Holds(p)
<1>1. PICK s \in Slots : s = slot[p]
      BY DEF ReadReport, SessionStep, TypeInv, LeaseInv
<1> DEFINE what == Head(reports[s]).what
<1>2. /\ pc[p] \in {"play", "docking"} /\ pc'[p] \in {"play", "docking"}
      /\ UNCHANGED <<life, owner, launched, sleeper, slot, notes, inHand, fates, news>>
      /\ client' = client
      /\ suit'[p] = IF what = "Home" THEN NoSuit ELSE suit[p]
      /\ bound' = IF what = "Home" /\ suit[p] # NoSuit THEN [bound EXCEPT ![suit[p]] = NoPilot] ELSE bound
      BY <1>1 DEF ReadReport, OnReport, sector, sim, SessionStep, TypeInv, LeaseInv, TaskTypes
<1> HIDE DEF what
<1>3. LastSuit(p)' = LastSuit(p) /\ Now(p)' = Now(p)
      BY <1>2, LastStays
<1>4. sleeper[p] = NoSuit /\ ~Gone(p)
      BY <1>2, WakeIs DEF Fate, BayFits, SessionStep
<1>5. ~Gone(p)'
      BY <1>2, <1>4 DEF Gone, Abed, Nodding
<1>6. CASE what = "Home"
  <2>1. Now(p)' # "asleep"
        BY <1>2, <1>4, <1>6, HomeIs DEF SessionStep
  <2>2. \A id \in Ids : bound'[id] = bound[id] \/ (owner[id] = p /\ bound'[id] = NoPilot)
        BY <1>2, LetsGo
  <2>3. BoundFits(p)'
        BY <1>2, <1>6, <2>1 DEF BoundFits
  <2> QED BY <1>2, <1>3, <1>4, <1>5, <2>1, <2>2, <2>3 DEF Holds
<1>7. CASE what # "Home"
  <2>1. bound' = bound /\ suit'[p] = suit[p]
        BY <1>2, <1>7
  <2>2. BoundFits(p)'
        BY <1>2, <1>3, <2>1 DEF BoundFits, Tidings, NewsInv
  <2> QED BY <1>2, <1>4, <1>5, <2>1, <2>2 DEF Holds
<1> QED BY <1>6, <1>7

LEMMA WreckHolds ==
    ASSUME NEW p \in Pilots, SessionStep(p), Fate(p), Fate(p)', Tidings, WreckGone(p)
    PROVE  Holds(p)
<1>1. /\ pc[p] = "play" /\ pc'[p] = "play" /\ suit'[p] = NoSuit /\ lost[p]
      /\ UNCHANGED <<life, owner, launched, sleeper, notes, inHand, fates, news>>
      /\ bound' = IF suit[p] # NoSuit THEN [bound EXCEPT ![suit[p]] = NoPilot] ELSE bound
      BY DEF WreckGone, shared, sector, sim, SessionStep, TypeInv, LeaseInv, TaskTypes
<1>2. LastSuit(p)' = LastSuit(p) /\ Now(p)' = Now(p)
      BY <1>1, LastStays
<1>3. sleeper[p] = NoSuit /\ ~Gone(p)
      BY <1>1, WakeIs DEF Fate, BayFits, SessionStep
<1>4. Now(p)' # "asleep" /\ ~Gone(p)'
      BY <1>1, <1>3, HomeIs DEF SessionStep
<1>5. \A id \in Ids : bound'[id] = bound[id] \/ (owner[id] = p /\ bound'[id] = NoPilot)
      BY <1>1, LetsGo
<1>6. BoundFits(p)'
      BY <1>1, <1>4 DEF BoundFits
<1> QED BY <1>1, <1>2, <1>3, <1>4, <1>5, <1>6 DEF Holds

LEMMA FreeHolds ==
    ASSUME NEW p \in Pilots, SessionStep(p), Fate(p), Fate(p)', Tidings, AwaitFree(p)
    PROVE  Holds(p)
<1>1. PICK s \in Slots : s = slot[p]
      BY DEF AwaitFree, SessionStep, TypeInv, LeaseInv
<1> DEFINE asleep == status[s].outcome = "Asleep" /\ status[s].suit # NoSuit
<1>2. /\ pc[p] = "freeing" /\ status[s].state = "Free" /\ s = slot[p]
      /\ UNCHANGED <<life, owner, launched, notes, inHand, fates, news>>
      /\ pc'[p] \in {"towing", "returning"} /\ suit'[p] = NoSuit
      /\ sleeper'[p] = IF asleep THEN status[s].suit ELSE NoSuit
      /\ bound' = IF asleep THEN bound ELSE [bound EXCEPT ![suit[p]] = NoPilot]
      BY <1>1, SMTT(90) DEF AwaitFree, Settle, sector, sim, SessionStep, TypeInv, LeaseInv, TaskTypes
<1>3. LastSuit(p)' = LastSuit(p) /\ Now(p)' = Now(p)
      BY <1>2, LastStays
<1>4. suit[p] # NoSuit /\ suit[p] = LastSuit(p) /\ ~Abed(p)
      BY <1>2 DEF SessionStep, CalmInv, PhaseInv, Fate, LastFits, Is, Abed
<1>5. ~client[s].active
      BY <1>2, FreeIs DEF SessionStep
<1>6. CASE asleep
  <2>1. ~NotSlept(s)
        BY <1>6 DEF NotSlept, Awake
  <2>2. Nodding(p)
        BY <1>2, <1>4, <1>5, <2>1 DEF Fate, OutFits
  <2>3. sleeper'[p] # NoSuit /\ bound' = bound
        BY <1>2, <1>6
  <2>4. Gone(p)' <=> Gone(p)
        BY <1>2, <1>3, <1>4, <1>5, <2>2, <2>3 DEF Gone, Abed
  <2>5. BoundFits(p)'
        BY <1>2, <1>3, <2>3 DEF BoundFits, Tidings, NewsInv
  <2> HIDE DEF asleep
  <2> QED BY <1>2, <1>3, <2>3, <2>4, <2>5 DEF Holds
<1>7. CASE ~asleep
  <2>1. sleeper'[p] = NoSuit /\ bound' = [bound EXCEPT ![suit[p]] = NoPilot]
        BY <1>2, <1>7
  <2>2. Now(p)' # "asleep" /\ ~Gone(p)'
        BY <1>2, <2>1, HomeIs DEF SessionStep
  <2>3. ~Gone(p)
    <3>1. Nodding(p) => asleep
          BY <1>2, <1>4 DEF Nodding, SaysAsleep
    <3> QED BY <1>4, <1>7, <3>1 DEF Gone
  <2>4. \A id \in Ids : bound'[id] = bound[id] \/ (owner[id] = p /\ bound'[id] = NoPilot)
        BY <1>4, <2>1, LetsGo
  <2>5. BoundFits(p)'
        BY <1>2, <2>2 DEF BoundFits
  <2> HIDE DEF asleep
  <2> QED BY <1>2, <1>3, <2>2, <2>3, <2>4, <2>5 DEF Holds
<1> QED BY <1>6, <1>7

(* A session entering, whose pilot has no sleeper that didn't wake. *)
LEMMA EnterHolds ==
    ASSUME NEW p \in Pilots, SessionStep(p), Fate(p), Fate(p)', Tidings, Enter(p),
           sleeper[p] = NoSuit \/ suit[p] # NoSuit
    PROVE  Holds(p)
<1>1. /\ pc[p] = "entered" /\ pc'[p] = "play" /\ sleeper'[p] = NoSuit
      /\ UNCHANGED <<life, owner, launched, suit, slot, inHand, fates>>
      /\ client' = client
      BY DEF Enter, shared, sector, sim, SessionStep, TypeInv, LeaseInv, TaskTypes
<1> DEFINE asks == sleeper[p] # NoSuit /\ ~(poll[p] = "Woke")
<1>2. asks = FALSE
      BY <1>1 DEF Fate, BayFits
<1>3. NotesRead(asks) = <<>>
      BY <1>2 DEF NotesRead
<1>4. /\ notes' = IF NotesRead(asks) = notes THEN <<>> ELSE notes
      /\ bound' = BoundAfter(NotesRead(asks))
      /\ news' = [NewsAfter(NotesRead(asks)) EXCEPT ![p] = "none"]
      BY DEF Enter
<1> HIDE DEF asks
<1>5. notes' = notes
      BY <1>3, <1>4
<1>6. \A id \in Ids : bound'[id] = bound[id]
      BY <1>3, <1>4 DEF BoundAfter
<1>7. news'[p] = "none" /\ \A q \in Pilots : q # p => news'[q] = news[q]
      BY <1>3, <1>4 DEF NewsAfter
<1>8. LastSuit(p)' = LastSuit(p) /\ Now(p)' = Now(p)
      BY <1>1, LastStays
<1>9. ~Gone(p) /\ ~Gone(p)'
      BY <1>1 DEF Gone, Abed, Nodding
<1>10. BoundFits(p)'
  <2>1. BoundFits(p)
        BY DEF Tidings, NewsInv
  <2>2. Now(p) = "asleep" \/ suit[p] # NoSuit => LastSuit(p) \in Ids
    <3>1. suit[p] # NoSuit => suit[p] = LastSuit(p)
          BY DEF Fate, LastFits, Is
    <3> QED BY <3>1, LastIs DEF Now
  <2> QED BY <1>1, <1>6, <1>8, <2>1, <2>2 DEF BoundFits
<1>11. sleeper[p] # NoSuit \/ suit[p] # NoSuit => suit'[p] # NoSuit
      BY <1>1
<1> QED BY <1>1, <1>5, <1>6, <1>7, <1>9, <1>10, <1>11 DEF Holds

(* A session entering whose pilot's sleeper didn't wake: it reads what is noted, and tells
   them by it. *)
LEMMA EnterHears ==
    ASSUME TypeInv, Tidings, NEW p \in Pilots, pc[p] = "entered"
    PROVE  NewsTells(p)
<1> SUFFICES ASSUME sleeper[p] # NoSuit, suit[p] = NoSuit
             PROVE  NewsAfter(notes)[p] = "Destroyed" <=> Now(p) \in Dead
    BY DEF NewsTells, NotesRead
<1>1. Gone(p) <=> Now(p) \in Dead
      BY DEF Gone, Abed
<1>2. ~Noting(p)
      BY DEF Noting
<1>3. Gone(p) => Known(p) \/ Noted(p)
      BY <1>2 DEF Tidings, NewsInv, NewsFits
<1> QED BY <1>1, <1>3, TellNews

LEMMA EnterTidings ==
    ASSUME NEW p \in Pilots, SessionStep(p), FateInv, Tidings, Enter(p),
           sleeper[p] # NoSuit, suit[p] = NoSuit
    PROVE  Tidings'
<1>0. Fate(p)
      BY DEF FateInv
<1>1. /\ pc[p] = "entered" /\ pc'[p] = "play" /\ sleeper'[p] = NoSuit /\ suit'[p] = NoSuit
      /\ UNCHANGED <<life, owner, launched, suit, slot, inHand, fates>>
      /\ client' = client /\ todo' = todo
      BY DEF Enter, shared, sector, sim, SessionStep, TypeInv, LeaseInv, TaskTypes
<1> DEFINE asks == sleeper[p] # NoSuit /\ ~(poll[p] = "Woke")
<1>2. asks = TRUE
      BY <1>0, <1>1 DEF Fate, BayFits
<1>3. NotesRead(asks) = notes
      BY <1>2 DEF NotesRead
<1>4. /\ notes' = IF NotesRead(asks) = notes THEN <<>> ELSE notes
      /\ bound' = BoundAfter(NotesRead(asks))
      /\ news' = [NewsAfter(NotesRead(asks)) EXCEPT ![p] = "none"]
      BY DEF Enter
<1> HIDE DEF asks
<1>5. DOMAIN notes' = {} /\ bound' = BoundAfter(notes)
      BY <1>3, <1>4
<1>6. news'[p] = "none" /\ \A q \in Pilots : q # p => news'[q] = NewsAfter(notes)[q]
      BY <1>3, <1>4 DEF NewsAfter
<1>7. LastSuit(p)' = LastSuit(p) /\ Now(p)' = Now(p)
      BY <1>1, LastStays
<1>8. Now(p) # "asleep" /\ ~Gone(p)'
  <2>1. Abed(p)
        BY <1>1 DEF Abed
  <2> QED BY <1>0, <1>1, <2>1 DEF Fate, SeatFits, Gone, Abed, Nodding
<1>9. \A id \in Ids : bound'[id] \in {bound[id], NoPilot}
      BY <1>5, TellBound DEF SessionStep
<1>10. \A n \in Fates : \A q \in Pilots : Of(n, q)' => Of(n, q)
       BY <1>9, ConstantsAssumption DEF Of, Fates
<1>11. /\ \A i \in DOMAIN todo : todo[i].kind = "note" => todo[i].val \in Fates
       /\ \A i \in DOMAIN fates : fates[i] \in Fates
  <2>1. todo \in Seq(Writes) /\ fates \in Seq(Fates)
        BY DEF SessionStep, TypeInv, QueueTypes
  <2>2. \A i \in DOMAIN todo : todo[i] \in Writes
    <3> HIDE DEF Writes, Fates
    <3> QED BY <2>1
  <2>3. \A i \in DOMAIN fates : fates[i] \in Fates
    <3> HIDE DEF Writes, Fates
    <3> QED BY <2>1
  <2> QED BY <2>2, <2>3 DEF Writes, Stores, Reports, Noticed
<1>12. \A n \in Fates : ~Posted(n)' /\ (Posting(n)' <=> Posting(n)) /\ (Due(n)' <=> Due(n))
       BY <1>1, <1>5 DEF Posted, Posting, Due
<1>13. ASSUME NEW n \in Fates, Posting(n) \/ Due(n) PROVE NoteFits(n)'
  <2>1. NoteFits(n) /\ (Due(n) => n.fate = "Lost")
        BY <1>13 DEF Tidings, NewsInv
  <2>2. ASSUME NEW q \in Pilots, n.fate = "Destroyed", Of(n, q)' PROVE n.suit = LastSuit(q)' /\ Gone(q)'
    <3>1. Of(n, q) /\ Gone(q) /\ n.suit = LastSuit(q)
          BY <1>10, <2>1, <2>2 DEF NoteFits
    <3>2. q # p
      <4> SUFFICES ASSUME q = p PROVE FALSE
          OBVIOUS
      <4>1. Known(p) \/ Noted(p)
            BY <1>1, <3>1 DEF Tidings, NewsInv, NewsFits, Noting
      <4>2. Unnoted(p)
            BY <4>1 DEF Known, Noted
      <4>3. PICK i \in DOMAIN todo : todo[i].kind = "note" /\ todo[i].val = n
            BY <1>13, <2>1, <2>2 DEF Posting
      <4> QED BY <3>1, <4>2, <4>3 DEF Unnoted
    <3> QED BY <3>1, <3>2, OthersGone
  <2> QED BY <1>1, <2>1, <2>2 DEF NoteFits
<1>14. ASSUME NEW q \in Pilots, q # p PROVE BoundFits(q)' /\ NewsFits(q)'
  <2>1. /\ Gone(q)' <=> Gone(q)
        /\ Seat(q)' <=> Seat(q)
        /\ LastSuit(q)' = LastSuit(q) /\ Now(q)' = Now(q)
        /\ pc'[q] = pc[q] /\ suit'[q] = suit[q] /\ slot'[q] = slot[q]
        BY <1>14, OthersGone
  <2>2. BoundFits(q)'
        BY <1>1, <1>5, <2>1, TellBound DEF BoundFits, SessionStep
  <2>3. NewsFits(q)
        BY DEF Tidings, NewsInv
  <2>4. news'[q] = "Destroyed" => Gone(q)'
        BY <1>6, <1>14, <2>1, TellNews DEF SessionStep
  <2>5. ASSUME Known(q) \/ Noted(q) PROVE Known(q)'
    <3>1. news'[q] = "Destroyed"
          BY <1>6, <1>14, <2>5, TellNews DEF SessionStep
    <3>2. Unnoted(q)'
      <4>1. Unnoted(q)
            BY <2>5 DEF Known, Noted
      <4> QED BY <1>1, <1>10, <1>11, <4>1 DEF Unnoted, Of
    <3> QED BY <1>5, <3>1, <3>2 DEF Known
  <2>6. ASSUME Noting(q) PROVE Noting(q)'
    <3>1. PICK id : id = LastSuit(q)
          OBVIOUS
    <3>2. bound[id] = q /\ \A i \in DOMAIN notes : notes[i].suit # id
          BY <2>6, <3>1 DEF Noting
    <3>3. id \in Ids
      <4>1. PICK k \in DOMAIN todo : todo[k].kind = "note" /\ todo[k].val = [suit |-> id, fate |-> "Destroyed"]
            BY <2>6, <3>1 DEF Noting
      <4> QED BY <1>11, <4>1 DEF Fates
    <3>4. bound'[id] = q
          BY <1>5, <3>2, <3>3, TellBound DEF SessionStep
    <3> QED BY <1>1, <1>5, <2>1, <2>6, <3>1, <3>4 DEF Noting
  <2>7. Gone(q) => \A i \in DOMAIN fates' : bound'[fates'[i].suit] # q
        BY <1>1, <1>10, <1>11, <2>3 DEF NewsFits, Of
  <2> QED BY <2>1, <2>2, <2>3, <2>4, <2>5, <2>6, <2>7 DEF NewsFits, Of
<1>15. BoundFits(p)' /\ NewsFits(p)'
       BY <1>1, <1>6, <1>7, <1>8 DEF BoundFits, NewsFits
<1>16. AsleepInv'
  <2> SUFFICES ASSUME NEW id \in Ids, life[id] = "asleep"
               PROVE  /\ owner[id] \in Pilots /\ (LastSuit(owner[id]) = id)'
                      /\ sleeper'[owner[id]] # NoSuit \/ suit'[owner[id]] # NoSuit
      BY <1>1 DEF AsleepInv
  <2> PICK q \in Pilots : owner[id] = q /\ LastSuit(q) = id /\ (sleeper[q] # NoSuit \/ suit[q] # NoSuit)
      BY DEF Tidings, AsleepInv
  <2>1. q # p
        BY <1>8, NoSuitIs DEF Now
  <2>2. LastSuit(q)' = id /\ (sleeper'[q] # NoSuit \/ suit'[q] # NoSuit)
        BY <2>1, OthersGone
  <2> QED BY <1>1, <2>2
<1>17. inHand' = <<>> /\ \A id \in Ids : bound'[id] # NoPilot => bound'[id] = owner'[id]
       BY <1>1, <1>9 DEF Tidings, NewsInv
<1>18. \A n \in Fates : /\ Posted(n)' \/ Posting(n)' \/ Due(n)' => NoteFits(n)'
                        /\ Due(n)' => n.fate = "Lost"
       BY <1>12, <1>13 DEF Tidings, NewsInv
<1> QED BY <1>14, <1>15, <1>16, <1>17, <1>18 DEF Tidings, NewsInv

LEMMA SessionsTidings ==
    ASSUME TypeInv, CalmInv, Calm, FateInv, Tidings, NEW p \in Pilots, Progress(p) \/ Whim(p)
    PROVE  FateInv' /\ Tidings'
<1>1. FateInv' /\ SessionStep(p)
      BY SessionsFate, EnterHears DEF Enter
<1>2. Fate(p) /\ Fate(p)'
      BY <1>1 DEF FateInv
<1>3. ~PollState(p) /\ ~PollEpoch(p) /\ ~GiveUpSeat(p) /\ ~GiveUpFree(p)
      BY DEF Calm, PollState, PollEpoch, GiveUpSeat, GiveUpFree
<1>4. CASE Enter(p) /\ sleeper[p] # NoSuit /\ suit[p] = NoSuit
      BY <1>1, <1>4, EnterTidings
<1>5. CASE ~(Enter(p) /\ sleeper[p] # NoSuit /\ suit[p] = NoSuit)
  <2>1. Holds(p)
        BY <1>1, <1>2, <1>3, <1>5, PlainHolds, LaunchHolds, AnswerHolds, ReadHolds, WreckHolds, FreeHolds, EnterHolds
        DEF Progress, Whim
  <2> QED BY <1>1, <2>1, HoldTidings
<1> QED BY <1>1, <1>4, <1>5

-----------------------------------------------------------------------------
(* Where nothing goes wrong between tasks and every homecoming finds room, every step
   keeps what is told of suits true. *)
Faultless == faults = {}

LEMMA FaultlessIs == Faultless => Calm /\ ~SplitNotes
BY DEF Faultless, Calm, Impatient, Torn, SplitNotes

LEMMA StillTidings ==
    ASSUME FateInv, Tidings, UNCHANGED vars
    PROVE  FateInv' /\ Tidings'
<1>1. UNCHANGED <<control, status, reports, todo, client, life, owner, bay, sleeper, pc, slot, suit, lost, poll,
                  notes, fates, bound, news, inHand>>
      BY DEF vars, shared, sector, sim, registry, record, session
<1>2. FateInv' /\ \A p \in Pilots : /\ LastSuit(p)' = LastSuit(p) /\ Now(p)' = Now(p)
                                    /\ (Gone(p)' <=> Gone(p)) /\ (Seat(p)' <=> Seat(p))
      BY <1>1, FateKept
<1>3. \A p \in Pilots : BoundFits(p)' /\ NewsFits(p)'
  <2> SUFFICES ASSUME NEW p \in Pilots PROVE BoundFits(p)' /\ NewsFits(p)'
      OBVIOUS
  <2>1. BoundFits(p) /\ NewsFits(p)
        BY DEF Tidings, NewsInv
  <2>2. (Known(p)' <=> Known(p)) /\ (Noted(p)' <=> Noted(p))
        BY <1>1 DEF Known, Noted, Unnoted, Of
  <2>3. Noting(p)' <=> Noting(p)
        BY <1>1, <1>2 DEF Noting
  <2> QED BY <1>1, <1>2, <2>1, <2>2, <2>3 DEF BoundFits, NewsFits, Of
<1>4. \A n \in Fates : /\ (Posted(n)' <=> Posted(n)) /\ (Posting(n)' <=> Posting(n)) /\ (Due(n)' <=> Due(n))
                       /\ NoteFits(n) => NoteFits(n)'
      BY <1>1, <1>2 DEF Posted, Posting, Due, NoteFits, Of
<1>5. AsleepInv'
      BY <1>1, <1>2 DEF Tidings, AsleepInv
<1>6. inHand' = <<>> /\ \A id \in Ids : bound'[id] # NoPilot => bound'[id] = owner'[id]
      BY <1>1 DEF Tidings, NewsInv
<1> QED BY <1>2, <1>3, <1>4, <1>5, <1>6 DEF Tidings, NewsInv

LEMMA FatesStep ==
    ASSUME TypeInv, CalmInv, Faultless, FateInv, Tidings, HomeFits, [Next]_vars
    PROVE  FateInv' /\ Tidings'
<1>1. Calm /\ ~SplitNotes /\ TypeInv'
      BY FaultlessIs, TypeInvStep
<1>2. CASE SectorWrite
      BY <1>2, WriteFate, WriteTidings
<1>3. CASE Steps
  <2>1. Turns /\ FateInv'
        BY <1>1, <1>3, StepsTurn, StepsFate
  <2> QED BY <1>1, <2>1, TurnsTidings DEF NewsTurns
<1>4. CASE Sector
      BY <1>1, <1>2, <1>3, <1>4, TicksAre DEF Sector, Steps
<1>5. CASE Notes
      BY <1>1, <1>5, NotesFate
<1>6. ASSUME NEW p \in Pilots, Progress(p) \/ Whim(p) PROVE FateInv' /\ Tidings'
      BY <1>1, <1>6, SessionsTidings
<1> QED BY <1>4, <1>5, <1>6, StillTidings DEF Next

LEMMA FatesInit == Init => FateInv /\ Tidings
<1> SUFFICES ASSUME Init PROVE FateInv /\ Tidings
    OBVIOUS
<1>1. /\ DOMAIN todo = {} /\ DOMAIN control = {} /\ DOMAIN notes = {} /\ DOMAIN fates = {} /\ inHand = <<>>
      /\ \A p \in Pilots : /\ pc[p] = "away" /\ suit[p] = NoSuit /\ ~lost[p] /\ sleeper[p] = NoSuit
                           /\ slot[p] = NoSlot /\ bay[p] = "new" /\ poll[p] = "none" /\ news[p] = "none"
      /\ \A id \in Ids : life[id] = "unborn" /\ owner[id] = NoPilot /\ bound[id] = NoPilot
      BY DEF Init
<1>2. \A p \in Pilots : LastSuit(p) = NoSuit /\ Now(p) = "unborn"
  <2>1. ASSUME NEW p \in Pilots PROVE LastSuit(p) = NoSuit
        BY <1>1, LastSuitIs, ConstantsAssumption
  <2> QED BY <2>1 DEF Now
<1>3. \A p \in Pilots : ~Seat(p) /\ ~Abed(p) /\ ~Gone(p) /\ slot[p] \notin Slots
      BY <1>1, <1>2, ConstantsAssumption DEF Seat, Abed, Gone, Dead
<1>4. ASSUME NEW p \in Pilots PROVE Fate(p)
  <2>1. LastFits(p) /\ BayFits(p)
        BY <1>1, <1>2, <1>3 DEF LastFits, BayFits, Is
  <2>2. SeatFits(p) /\ OutFits(p) /\ ToldFits(p) /\ SleepsOnce(p)
        BY <1>1, <1>2, <1>3 DEF SeatFits, OutFits, ToldFits, SleepsOnce
  <2> QED BY <2>1, <2>2 DEF Fate
<1>5. AsleepInv
      BY <1>1 DEF AsleepInv
<1>6. NewsInv
  <2>1. \A n \in Fates : ~Posted(n) /\ ~Posting(n) /\ ~Due(n)
        BY <1>1 DEF Posted, Posting, Due
  <2>2. \A p \in Pilots : BoundFits(p) /\ NewsFits(p)
        BY <1>1, <1>2, <1>3 DEF BoundFits, NewsFits
  <2> QED BY <1>1, <2>1, <2>2 DEF NewsInv
<1> QED BY <1>4, <1>5, <1>6 DEF FateInv, Tidings

-----------------------------------------------------------------------------
(* A session told that its suit is in a hide spot is told of one that sleeps. *)
ParkedFits(p) == slot[p] \in Slots => (Flying(slot[p], {"Parked"}) => Now(p) \in Slept)
ParkedInv == \A p \in Pilots : ParkedFits(p)

LEMMA ParkedIsSaid ==
    ASSUME NEW s PROVE Flying(s, {"Parked"}) => Flying(s, Says)
BY DEF Flying, Owed, Rung, Tells, Says

LEMMA ParkedSaid ==
    ASSUME TypeInv, CalmInv, NEW p \in Pilots, NEW s \in Slots, slot[p] = s, Flying(s, {"Parked"})
    PROVE  pc[p] = "freeing"
<1>1. PICK q \in Pilots : slot[q] = s /\ pc[q] = "freeing"
      BY DEF CalmInv, FlightInv, In
<1> QED BY <1>1, OneSession DEF TypeInv

LEMMA TurnParked ==
    ASSUME TypeInv, CalmInv, NEW p \in Pilots, Turn(p), ParkedFits(p)
    PROVE  ParkedFits(p)'
<1>1. UNCHANGED <<pc, slot, reports>> /\ Goes(p) /\ SectorStep
      BY StepFacts DEF Turn
<1> SUFFICES ASSUME NEW s \in Slots, s = slot[p], Flying(s, {"Parked"})' PROVE Now(p)' \in Slept
    BY <1>1 DEF ParkedFits
<1>2. CASE Flying(s, {"Parked"})
  <2>1. Now(p) \in Slept /\ pc[p] = "freeing"
        BY <1>2, ParkedSaid DEF ParkedFits
  <2> QED BY <1>1, <2>1 DEF Goes
<1>3. CASE ~Flying(s, {"Parked"})
  <2>1. PICK i \in DOMAIN todo' : Tells(todo'[i], s, {"Parked"})
        BY <1>1, <1>3, StepFacts DEF Flying, Owed
  <2>2. Tells(todo'[i], s, Says) /\ ~Tells(todo'[i], s, Losses) /\ ~Tells(todo'[i], s, {"DockRefused"})
        BY <2>1 DEF Tells, Says, Losses
  <2>3. CASE Left(s)
    <3>1. CASE Spared(s)
          BY <2>2, <3>1 DEF Spared, Silent
    <3>2. CASE Wrecked(s)
          BY <2>2, <3>2 DEF Wrecked
    <3>3. CASE Denied(s)
      <4>1. PICK w \in Writes : todo' = <<w>> /\ Tells(w, s, {"DockRefused"})
            BY <3>3 DEF Denied
      <4>2. DOMAIN todo' = {1} /\ todo'[1] = w
        <5> HIDE DEF Writes
        <5> QED BY <4>1
      <4> QED BY <2>2, <4>1, <4>2
    <3> QED BY <2>3, <3>1, <3>2, <3>3 DEF Left
  <2>4. CASE Hailed(s)
    <3>1. Silent(s)
          BY <1>1, <2>4, EffectFacts DEF Hailed, Answered
    <3> QED BY <2>2, <3>1 DEF Silent
  <2>5. CASE Vacated(s) /\ Ended(s)
    <3>1. Farewell(s, i)
          BY <2>2, <2>5 DEF Vacated
    <3>2. client[s].active /\ ~Tells(todo'[i], s, {"Home"})
          BY <2>1, <3>1 DEF Farewell, Tells
    <3>3. \A j \in DOMAIN todo' : ~Tells(todo'[j], s, {"Home"})
      <4>1. \A j \in DOMAIN todo' : Tells(todo'[j], s, {"Home"}) => Tells(todo'[j], s, Says)
            BY DEF Tells, Says
      <4> QED BY <2>2, <2>5, <3>2, <4>1 DEF Vacated
    <3>4. life'[client[s].suit] \in {"destroyed", "asleep"}
          BY <2>5, <3>2, <3>3 DEF Ended
    <3>5. Now(p)' = life'[client[s].suit]
      <4>1. client[s].suit \in Ids /\ client[s].suit = LastSuit(p) /\ LastSuit(p) # NoSuit
            BY <3>2, NoSuitIs DEF Turn, Fate, LastFits, SectorStep, TypeInv, SectorTypes
      <4> QED BY <1>1, <4>1 DEF Now, Goes
    <3> QED BY <3>4, <3>5 DEF Slept
  <2> QED BY <2>3, <2>4, <2>5 DEF Turn
<1> QED BY <1>2, <1>3

LEMMA SessionsParked ==
    ASSUME TypeInv, CalmInv, Calm, NEW p \in Pilots, Progress(p) \/ Whim(p), SessionStep(p), ParkedInv
    PROVE  ParkedInv'
<1> SUFFICES ASSUME NEW q \in Pilots, NEW s \in Slots, slot'[q] = s, Flying(s, {"Parked"})'
             PROVE  Now(q)' \in Slept
    BY DEF ParkedInv, ParkedFits
<1>1. Flying(s, {"Parked"}) /\ Flying(s, Says)
      BY SessionFacts, ParkedIsSaid
<1>2. slot[q] = s
  <2>1. CASE q = p
        BY <1>1, <2>1 DEF SessionStep, PilotFits
  <2>2. CASE q # p
        BY <2>2, OthersAre
  <2> QED BY <2>1, <2>2
<1>3. pc[q] = "freeing" /\ Now(q) \in Slept
      BY <1>1, <1>2, ParkedSaid DEF ParkedInv, ParkedFits
<1>4. q # p \/ UNCHANGED <<life, owner, launched>>
  <2> SUFFICES ASSUME q = p PROVE UNCHANGED <<life, owner, launched>>
      OBVIOUS
  <2>1. ~Launch(p)
        BY <1>3 DEF Launch
  <2>2. AwaitFree(p)
        BY <1>3, <2>1 DEF Calm, Progress, Whim, Ask, AwaitSeat, PollState, PollEpoch, GiveUpSeat, Enter, ReadReport,
           GiveUpDock, WreckGone, GiveUpFree, AskTow, AwaitTow, GiveUpTow, Return, Connect, Dock, Eject, Refit, Leave
  <2> QED BY <2>2, Zenon DEF AwaitFree, Settle, sim
<1> QED BY <1>3, <1>4, LastStays

LEMMA ParkedStep ==
    ASSUME TypeInv, CalmInv, Faultless, FateInv, ParkedInv, [Next]_vars
    PROVE  ParkedInv'
<1>1. Calm /\ TypeInv'
      BY FaultlessIs, TypeInvStep
<1>2. CASE SectorWrite
  <2> SUFFICES ASSUME NEW p \in Pilots PROVE ParkedFits(p)'
      BY DEF ParkedInv
  <2>1. UNCHANGED <<life, owner, slot>> /\ ParkedFits(p)
        BY <1>2, Wrote DEF ParkedInv
  <2>2. LastSuit(p)' = LastSuit(p)
        BY <2>1 DEF LastSuit
  <2>3. Now(p)' = Now(p)
        BY <2>1, <2>2 DEF Now
  <2>4. \A s \in Slots : Flying(s, {"Parked"})' => Flying(s, {"Parked"})
        BY <1>2, WroteSays
  <2> QED BY <2>1, <2>3, <2>4 DEF ParkedFits
<1>3. CASE Steps
  <2>1. \A p \in Pilots : Turn(p)
        BY <1>1, <1>3, StepsTurn DEF Turns
  <2> QED BY <2>1, TurnParked DEF ParkedInv
<1>4. CASE Sector
      BY <1>1, <1>2, <1>3, <1>4, TicksAre DEF Sector, Steps
<1>5. CASE Notes \/ UNCHANGED vars
  <2>1. UNCHANGED <<control, status, reports, todo, client, life, owner, bay, sleeper, pc, slot, suit, lost, poll>>
        BY <1>5 DEF Notes, vars, shared, sector, sim, record, session
  <2>2. \A p \in Pilots : Now(p)' = Now(p)
        BY <2>1, FateKept
  <2>3. \A s : Flying(s, {"Parked"})' <=> Flying(s, {"Parked"})
        BY <2>1 DEF Flying, Owed, Rung
  <2> QED BY <2>1, <2>2, <2>3 DEF ParkedInv, ParkedFits
<1>6. ASSUME NEW p \in Pilots, Progress(p) \/ Whim(p) PROVE ParkedInv'
  <2>1. SessionStep(p)
        BY <1>1, <1>6, SessionsFit DEF SessionStep
  <2> QED BY <1>1, <1>6, <2>1, SessionsParked
<1> QED BY <1>4, <1>5, <1>6 DEF Next

(* Where nobody ejects, a homecoming is told to an empty ring. *)
LEMMA RoomForHome ==
    ASSUME TypeInv, CalmInv, FateInv, ParkedInv, ~Ejects
    PROVE  HomeFits
<1> SUFFICES ASSUME todo # <<>>, Head(todo).kind = "report", Head(todo).val.what = "Home"
             PROVE  Len(reports[Head(todo).slot]) < ReportCap
    BY DEF HomeFits
<1>1. todo \in Seq(Writes) /\ reports \in [Slots -> Seq(Tellings)]
      BY DEF TypeInv, QueueTypes
<1>2. Head(todo) = todo[1] /\ 1 \in DOMAIN todo /\ todo[1] \in Writes
  <2> HIDE DEF Writes
  <2> QED BY <1>1
<1>3. PICK s \in Slots : s = Head(todo).slot
      BY <1>2 DEF Writes, Stores, Reports, Noticed
<1>4. Owed(s, {"Home"}) /\ Owed(s, Answers)
      BY <1>2, <1>3 DEF Owed, Tells, Answers
<1>5. /\ ~Flying(s, Losses) /\ (In(s, "docking") \/ In(s, "freeing"))
      /\ ~Rung(s, Answers)
      BY <1>4 DEF CalmInv, FlightInv, Flying, OnceInv, Once
<1>6. PICK p \in Pilots : slot[p] = s
      BY <1>5 DEF In
<1>7. Now(p) = "docked"
      BY <1>4, <1>6 DEF FateInv, Fate, ToldFits, Flying
<1>8. ~Flying(s, {"Parked"})
      BY <1>6, <1>7 DEF ParkedInv, ParkedFits, Slept
<1>9. \A i \in DOMAIN reports[s] : FALSE
      BY <1>5, <1>8 DEF Flying, Rung, Answers, Losses, Says, CalmInv, ClaimInv
<1>10. Len(reports[s]) = 0
  <2> HIDE DEF Tellings
  <2>1. reports[s] \in Seq(Tellings)
        BY <1>1
  <2>2. DOMAIN reports[s] = 1..Len(reports[s]) /\ Len(reports[s]) \in Nat
        BY <2>1
  <2>3. Len(reports[s]) # 0 => 1 \in DOMAIN reports[s]
        BY <2>2
  <2> QED BY <1>9, <2>3
<1> QED BY <1>3, <1>10, ConstantsAssumption

LEMMA FatesAreJust ==
    ASSUME FateInv
    PROVE  NoUnjustLoss /\ DestroyedStaysLost
<1>1. \A p \in Pilots : bay[p] \in {"empty", "new"} => LastSuit(p) = NoSuit \/ Now(p) \in Dead
      BY DEF FateInv, Fate, BayFits
<1>2. \A p \in Pilots : bay[p] = "docked" => LastSuit(p) # NoSuit /\ Now(p) \in Sound
      BY DEF FateInv, Fate, BayFits, Now, Sound
<1> QED BY <1>1, <1>2 DEF NoUnjustLoss, DestroyedStaysLost, Now, Dead, Sound

(* What becomes of suits is as the records have it, at every state of a run in which every
   homecoming finds room. *)
Justice ==
    /\ TypeInv /\ (Calm => CalmInv)
    /\ Faultless => FateInv /\ Tidings /\ ParkedInv

LEMMA JusticeStep ==
    ASSUME Justice, Ejects => HomeFits, [Next]_vars
    PROVE  Justice'
<1>1. TypeInv' /\ faults' = faults
      BY TypeInvStep, FaultsStay DEF Justice
<1>2. ASSUME Calm' PROVE CalmInv'
      BY <1>1, <1>2, CalmStep DEF Justice, Calm, Impatient, Torn
<1>3. ASSUME Faultless' PROVE (FateInv /\ Tidings /\ ParkedInv)'
  <2>1. Faultless /\ Calm
        BY <1>1, <1>3, FaultlessIs DEF Faultless
  <2>2. TypeInv /\ CalmInv /\ FateInv /\ Tidings /\ ParkedInv
        BY <2>1 DEF Justice
  <2>3. HomeFits
        BY <2>2, RoomForHome
  <2> QED BY <2>1, <2>2, <2>3, FatesStep, ParkedStep
<1> QED BY <1>1, <1>2, <1>3 DEF Justice

LEMMA JusticeInit == Init => Justice
<1> SUFFICES ASSUME Init PROVE Justice
    OBVIOUS
<1>1. DOMAIN todo = {} /\ \A s \in Slots : DOMAIN reports[s] = {}
      BY DEF Init
<1>2. ParkedInv
      BY <1>1 DEF ParkedInv, ParkedFits, Flying, Owed, Rung
<1> QED BY <1>2, TypeInvInit, CalmInit, FatesInit DEF Justice

(* Nobody stops waiting, no atomic is torn and no note is held back: then a suit is written
   off only if the simulation destroyed it, and one it destroyed is never back in the bay
   (Session::on_report, enter and leave), as long as every homecoming finds room in its
   slot's report ring; and where nobody ejects it always does. *)
THEOREM HomecomingsMakeLossesJust == Spec /\ [](Ejects => HomeFits) => []LossesAreJust
<1>1. Justice => LossesAreJust
      BY FatesAreJust DEF Justice, LossesAreJust, Faultless
<1>2. Justice /\ (Ejects => HomeFits) /\ [Next]_vars => Justice'
      BY JusticeStep
<1> QED BY <1>1, <1>2, JusticeInit, PTL DEF Spec

(* Where nobody ejects, what the records say of a suit is what the simulation made of it:
   none is written off because its homecoming was read too late (Session::leave), and none
   that was destroyed asleep is recovered (Session::enter). *)
THEOREM LossesAreJustWithoutEjects ==
    ASSUME ~Ejects
    PROVE  Spec => []LossesAreJust
<1>1. Ejects => HomeFits
      OBVIOUS
<1> QED BY <1>1, HomecomingsMakeLossesJust, PTL

-----------------------------------------------------------------------------
(* Where suits are (Sortie).  What may become of one, in a step of the sector's. *)
LifeGoes(id) ==
    \/ life'[id] = life[id]
    \/ life[id] = "queued" /\ life'[id] \in {"cradle", "unlaunched"}
    \/ life[id] \in {"cradle", "flying"} /\ life'[id] \in {"flying", "asleep", "wreck", "docked"}
    \/ life[id] = "asleep" /\ life'[id] \in {"flying", "wreck", "evicted"}
    \/ life[id] = "wreck" /\ life'[id] = "destroyed"
LivesGo == \A id \in Ids : LifeGoes(id)

LEMMA JoinGoes ==
    ASSUME TypeInv, CalmInv, HandleJoin
    PROVE  LivesGo
<1>1. control' = Tail(control) /\ Takes("Join")
      BY Zenon DEF HandleJoin
<1>2. Head(control) = control[1] /\ 1 \in DOMAIN control /\ control[1] \in Msgs /\ control[1].op = "Join"
      BY <1>1, Taken
<1> PICK m \in Msgs : m = control[1]
    BY <1>2
<1> PICK s \in Slots : s = m.slot
    BY DEF Msgs
<1>3. ~client[s].active
  <2>1. m.who \in Pilots /\ slot[m.who] = s /\ pc[m.who] = "seating" /\ Joining(s)
        BY <1>2 DEF CalmInv, JoinInv, Msgs, Joining
  <2> QED BY <2>1 DEF CalmInv, SeatInv
<1>4. m.launch # NoSuit => life[m.launch] = "queued"
      BY <1>2 DEF CalmInv, JoinInv
<1>5. life \in [Ids -> Lives]
      BY DEF TypeInv, SectorTypes
<1>6. \/ life' = life
      \/ life[m.wake] = "asleep" /\ life' = [life EXCEPT ![m.wake] = "flying"]
      \/ /\ m.launch # NoSuit
         /\ \E room \in MadeRoom(life, Cardinality(Held(life)) >= SimCap), l \in {"cradle", "unlaunched"} :
               life' = [room EXCEPT ![m.launch] = l]
  <2>1. Head(control) = m /\ m.slot = s
        BY <1>2
  <2> QED BY <1>3, <2>1, Zenon DEF HandleJoin
<1>7. CASE life[m.wake] = "asleep" /\ life' = [life EXCEPT ![m.wake] = "flying"]
      BY <1>5, <1>7 DEF LivesGo, LifeGoes
<1>8. ASSUME m.launch # NoSuit, NEW full, NEW room \in MadeRoom(life, full), NEW l \in {"cradle", "unlaunched"},
             life' = [room EXCEPT ![m.launch] = l]
      PROVE  LivesGo
  <2>1. /\ room \in [Ids -> Lives]
        /\ \A id \in Ids : room[id] = life[id] \/ (room[id] = "evicted" /\ life[id] = "asleep")
        BY <1>5, <1>8, RoomType
  <2> QED BY <1>4, <1>8, <2>1 DEF LivesGo, LifeGoes
<1> QED BY <1>6, <1>7, <1>8 DEF LivesGo, LifeGoes

LEMMA SleepGoes ==
    ASSUME TypeInv, CalmInv, HandleSleep
    PROVE  LivesGo
<1>1. control' = Tail(control) /\ Takes("Sleep")
      BY Zenon DEF HandleSleep
<1>2. Head(control) = control[1] /\ control[1] \in Msgs
      BY <1>1, Taken
<1> PICK s \in Slots : s = Head(control).slot
    BY <1>2 DEF Msgs
<1>3. life \in [Ids -> Lives] /\ (client[s].active => client[s].suit \in Ids)
      BY DEF TypeInv, SectorTypes
<1>4. client[s].active => life[client[s].suit] \in {"cradle", "flying", "wreck"}
      BY DEF CalmInv, ClientInv
<1> PICK id : id = client[s].suit
    OBVIOUS
<1>5. \/ life' = life
      \/ client[s].active /\ life[id] = "cradle" /\ life' = [life EXCEPT ![id] = "docked"]
      \/ /\ client[s].active /\ life[id] = "flying"
         /\ \E room \in MadeRoom(life, Cardinality({i \in Ids : life[i] = "asleep"}) >= MaxSleepers) :
               life' = [room EXCEPT ![id] = "asleep"]
      \/ /\ client[s].active /\ life[id] \notin {"cradle", "flying"}
         /\ life' = [life EXCEPT ![id] = Released(@)]
      BY Zenon DEF HandleSleep
<1>6. ASSUME client[s].active, life[id] = "flying", NEW full, NEW room \in MadeRoom(life, full),
             life' = [room EXCEPT ![id] = "asleep"]
      PROVE  LivesGo
  <2>1. /\ room \in [Ids -> Lives]
        /\ \A i \in Ids : room[i] = life[i] \/ (room[i] = "evicted" /\ life[i] = "asleep")
        BY <1>3, <1>6, RoomType
  <2> QED BY <1>3, <1>6, <2>1 DEF LivesGo, LifeGoes
<1>7. CASE client[s].active /\ life[id] = "cradle" /\ life' = [life EXCEPT ![id] = "docked"]
      BY <1>3, <1>7 DEF LivesGo, LifeGoes
<1>8. CASE client[s].active /\ life[id] \notin {"cradle", "flying"} /\ life' = [life EXCEPT ![id] = Released(@)]
      BY <1>3, <1>4, <1>8 DEF LivesGo, LifeGoes, Released
<1> QED BY <1>5, <1>6, <1>7, <1>8 DEF LivesGo, LifeGoes

LEMMA SectorGoes ==
    ASSUME TypeInv, CalmInv, Calm, Sector
    PROVE  LivesGo
<1>1. life \in [Ids -> Lives]
      BY DEF TypeInv, SectorTypes
<1>2. CASE SectorWrite \/ HandleTow
  <2>1. life' = life
        BY <1>2, Zenon DEF SectorWrite, HandleTow, sim
  <2> QED BY <2>1 DEF LivesGo, LifeGoes
<1>3. ASSUME NEW id, NEW l \in {"docked", "wreck"}, Flyable(id), life' = [life EXCEPT ![id] = l]
      PROVE  LivesGo
      BY <1>1, <1>3 DEF Flyable, LivesGo, LifeGoes
<1>4. CASE HandleDock \/ HandleEject
  <2>1. \/ life' = life
        \/ \E l \in {"docked", "wreck"} : /\ Flyable(client[Head(control).slot].suit)
                                          /\ life' = [life EXCEPT ![client[Head(control).slot].suit] = l]
    <3>1. CASE HandleDock
          BY <3>1, Zenon DEF HandleDock
    <3>2. CASE HandleEject
          BY <3>2, Zenon DEF HandleEject
    <3> QED BY <1>4, <3>1, <3>2
  <2> QED BY <1>3, <2>1 DEF LivesGo, LifeGoes
<1>5. CASE Ticked
  <2>1. PICK lf \in [Ids -> Lives] : life' = lf /\ Ticks(lf)
        BY <1>5 DEF Ticked, EndTick
  <2> QED BY <2>1 DEF Ticks, LivesGo, LifeGoes
<1> QED BY <1>2, <1>4, <1>5, JoinGoes, SleepGoes, TicksAre DEF Sector

(* A suit comes out of the bay only when it is launched; what is in the bay is no longer,
   only if it is replaced. *)
BayGoes(p) ==
    /\ bay'[p] = bay[p] \/ bay[p] = "out" \/ (bay[p] = "empty" /\ bay'[p] = "new")
    /\ UNCHANGED <<life, owner, launched>>

LEMMA SessionBay ==
    ASSUME NEW p \in Pilots, SessionStep(p), Calm, Fate(p), Progress(p) \/ Whim(p), ~Launch(p)
    PROVE  BayGoes(p)
<1>1. /\ bay \in [Pilots -> {"new", "docked", "out", "empty"}]
      /\ \A q \in Pilots : pc[q] # "away" => slot[q] \in Slots
      BY SessionFacts DEF SessionStep, TypeInv, TaskTypes
<1>2. ~PollState(p) /\ ~PollEpoch(p) /\ ~GiveUpSeat(p) /\ ~GiveUpFree(p)
      BY DEF Calm, PollState, PollEpoch, GiveUpSeat, GiveUpFree
<1>3. UNCHANGED <<life, owner, launched>>
      BY <1>2, Zenon DEF Progress, Whim, Ask, AwaitSeat, Answer, Enter, ReadReport, GiveUpDock, WreckGone, AwaitFree,
         Settle, AskTow, AwaitTow, GiveUpTow, Return, Connect, Dock, Eject, Refit, Leave, sim
<1>4. CASE bay' = bay
      BY <1>3, <1>4 DEF BayGoes
<1>5. CASE AwaitSeat(p)
  <2>1. pc[p] = "seating" /\ bay' = [bay EXCEPT ![p] = bay'[p]]
        BY <1>1, <1>5 DEF AwaitSeat, Answer
  <2>2. bay[p] = "out"
        BY <2>1 DEF Fate, BayFits
  <2> QED BY <1>3, <2>2 DEF BayGoes
<1>6. ASSUME NEW b, b = bay[p] \/ bay[p] = "out", \E c \in Reissued(b) : bay' = [bay EXCEPT ![p] = c]
      PROVE  BayGoes(p)
      BY <1>1, <1>3, <1>6 DEF BayGoes, Reissued
<1>7. CASE Enter(p)
  <2> DEFINE woke == poll[p] = "Woke"
             asks == sleeper[p] # NoSuit /\ ~woke
             told == NotesRead(asks)
             fate == IF asks /\ NewsAfter(told)[p] = "none" THEN "Lost" ELSE NewsAfter(told)[p]
             back == IF bay[p] # "out" \/ woke THEN bay[p]
                     ELSE IF asks /\ fate = "Destroyed" THEN "empty" ELSE "docked"
  <2>1. \E c \in Reissued(back) : bay' = [bay EXCEPT ![p] = c]
        BY <1>7 DEF Enter
  <2>2. back = bay[p] \/ bay[p] = "out"
        OBVIOUS
  <2> HIDE DEF back
  <2> QED BY <1>6, <2>1, <2>2
<1>8. CASE ReadReport(p)
  <2>1. PICK s \in Slots : s = slot[p]
        BY <1>1, <1>8 DEF ReadReport
  <2>2. reports[s] # <<>> /\ pc[p] \in {"play", "docking"} /\ OnReport(p, Head(reports[s]))
        BY <1>8, <2>1 DEF ReadReport
  <2> PICK what : what = Head(reports[s]).what
      OBVIOUS
  <2>3. \/ what \notin {"Home", "Lost", "LostEjected"} /\ \E c \in Reissued(bay[p]) \cup {bay[p]} : bay' = [bay EXCEPT ![p] = c]
        \/ what \in {"Home", "Lost", "LostEjected"}
        BY <2>2 DEF OnReport
  <2>4. ASSUME what \in {"Home", "Lost", "LostEjected"} PROVE bay[p] = "out"
    <3>1. Rung(s, {what})
      <4>1. reports[s] \in Seq(Tellings)
            BY DEF SessionStep, TypeInv, QueueTypes
      <4>2. 1 \in DOMAIN reports[s] /\ Head(reports[s]) = reports[s][1]
        <5> HIDE DEF Tellings
        <5> QED BY <2>2, <4>1
      <4> QED BY <4>2 DEF Rung
    <3>2. Flying(s, Says) /\ (Flying(s, {"Home"}) \/ Flying(s, Losses))
          BY <2>4, <3>1 DEF Flying, Rung, Says, Losses
    <3>3. PICK q \in Pilots : slot[q] = s /\ Aboard(q)
          BY <3>2 DEF SessionStep, CalmInv, FlightInv
    <3>4. q = p
          BY <2>1, <3>3, SessionFacts
    <3>5. suit[p] # NoSuit /\ ~lost[p]
          BY <2>1, <2>2, <3>2, <3>3, <3>4 DEF Aboard, Seat, SessionStep, CalmInv, FlightInv
    <3> QED BY <3>5 DEF Fate, BayFits
  <2>5. CASE what \in {"Home", "Lost", "LostEjected"}
        BY <1>3, <2>4, <2>5 DEF BayGoes
  <2>6. CASE what \notin {"Home", "Lost", "LostEjected"}
        BY <1>1, <1>3, <2>3, <2>6 DEF BayGoes, Reissued
  <2> QED BY <2>5, <2>6
<1>9. CASE WreckGone(p)
  <2>1. \E c \in Reissued(bay[p]) \cup {bay[p]} : bay' = [bay EXCEPT ![p] = c]
        BY <1>9 DEF WreckGone
  <2> QED BY <1>1, <1>3, <2>1 DEF BayGoes, Reissued
<1>10. CASE AwaitFree(p)
  <2>1. bay[p] # "out" => bay'[p] = bay[p]
        BY <1>1, <1>10 DEF AwaitFree, Settle, BayLeft
  <2> QED BY <1>3, <2>1 DEF BayGoes
<1>11. CASE Refit(p)
       BY <1>1, <1>3, <1>11 DEF Refit, BayGoes
<1> QED BY <1>2, <1>4, <1>5, <1>7, <1>8, <1>9, <1>10, <1>11, Zenon
    DEF Progress, Whim, Ask, GiveUpDock, AskTow, AwaitTow, GiveUpTow, Return, Connect, Dock, Eject, Leave, record

(* Where a suit is, by what its record and the sector say. *)
Place(b, l) ==
    CASE b \in {"new", "docked"} -> b
      [] b = "empty" -> "none"
      [] b = "out" /\ l \in {"queued", "unlaunched"} -> "leaving"
      [] b = "out" /\ l \in {"cradle", "flying"} -> "flying"
      [] b = "out" /\ l = "asleep" -> "asleep"
      [] b = "out" /\ l \in Dead -> "lost"
      [] OTHER -> "homeward"
Bays == {"new", "docked", "out", "empty"}

Way(a, b) ==
    \/ a \in {"new", "docked"} /\ b = "leaving"
    \/ a = "leaving" /\ b \in {"flying", "docked"}
    \/ a = "flying" /\ b \in {"asleep", "homeward", "lost"}
    \/ a = "asleep" /\ b \in {"flying", "homeward", "lost"}
    \/ a = "homeward" /\ b = "docked"
    \/ a = "lost" /\ b \in {"none", "new"}
    \/ a = "none" /\ b = "new"

LEMMA WaysAre == \A a, b : Way(a, b) => <<a, b>> \in Suits!Ways
BY DEF Way, Suits!Ways, Suits!Launched, Suits!Seated, Suits!Slept, Suits!Woke, Suits!CameIn, Suits!Destroyed,
       Suits!Docked, Suits!WrittenOff, Suits!Replaced

LEMMA PlacesAre == \A b \in Bays : \A l : Place(b, l) \in Suits!Places
BY DEF Place, Bays, Suits!Places

(* A suit that is out is the last that was launched. *)
LEMMA OutIsLaunched ==
    ASSUME TypeInv, FateInv, NEW p \in Pilots, bay[p] = "out"
    PROVE  LastSuit(p) # NoSuit
<1>1. Fate(p)
      BY DEF FateInv
<1>2. CASE sleeper[p] # NoSuit \/ suit[p] # NoSuit
      BY <1>1, <1>2 DEF Fate, LastFits, Is
<1>3. CASE sleeper[p] = NoSuit /\ suit[p] = NoSuit
  <2>1. pc[p] \in {"asking", "seating"}
        BY <1>1, <1>3 DEF Fate, BayFits
  <2>2. PICK s \in Slots : s = slot[p]
        BY <2>1 DEF TypeInv, LeaseInv
  <2>3. client[s].active => client[s].suit \in Ids /\ client[s].suit = LastSuit(p)
        BY <1>1, <2>2 DEF TypeInv, SectorTypes, Fate, LastFits
  <2>4. client[s].active \/ Now(p) \in {"queued", "unlaunched"}
        BY <1>1, <1>3, <2>1, <2>2 DEF Fate, SeatFits, Seat
  <2> QED BY <2>3, <2>4, NoSuitIs DEF Now
<1> QED BY <1>2, <1>3

WhereFits == Where = [p \in Pilots |-> Place(bay[p], Now(p))] /\ bay \in [Pilots -> Bays]

LEMMA WhereIs == TypeInv /\ FateInv => WhereFits
<1> SUFFICES ASSUME TypeInv, FateInv PROVE WhereFits
    OBVIOUS
<1>1. bay \in [Pilots -> Bays]
      BY DEF TypeInv, TaskTypes, Bays
<1>2. ASSUME NEW p \in Pilots PROVE Where[p] = Place(bay[p], Now(p))
  <2>1. CASE bay[p] # "out"
        BY <1>1, <2>1 DEF Where, Place, Bays
  <2>2. CASE bay[p] = "out"
    <3>1. PICK l : l = life[LastSuit(p)] /\ l = Now(p)
          BY <2>2, OutIsLaunched DEF Now
    <3> QED BY <2>2, <3>1 DEF Where, Place, Dead
  <2> QED BY <2>1, <2>2
<1>3. Where = [p \in Pilots |-> Where[p]]
      BY DEF Where
<1> QED BY <1>1, <1>2, <1>3 DEF WhereFits

LEMMA SectorWay ==
    ASSUME TypeInv, CalmInv, Calm, FateInv, Sector, NEW p \in Pilots
    PROVE  LET a == Place(bay[p], Now(p))
               b == Place(bay[p], Now(p)')
           IN  bay' = bay /\ (a = b \/ Way(a, b))
<1>1. bay' = bay /\ owner' = owner
      BY Zenon DEF Sector, SectorWrite, HandleJoin, HandleSleep, HandleDock, HandleEject, HandleTow, QuietTick, Thrown,
         Struck, WreckCleared, SleeperStruck, TugsArrive, EndTick, record, sim
<1>2. LastSuit(p)' = LastSuit(p) /\ bay[p] \in Bays
      BY <1>1, WhereIs DEF LastSuit, WhereFits
<1>3. CASE bay[p] # "out"
      BY <1>1, <1>2, <1>3 DEF Place, Bays
<1>4. CASE bay[p] = "out"
  <2>1. PICK id \in Ids : id = LastSuit(p)
        BY <1>4, OutIsLaunched, LastSuitIs
  <2>2. Now(p) = life[id] /\ Now(p)' = life'[id]
        BY <1>2, <1>4, <2>1, OutIsLaunched DEF Now
  <2>3. LifeGoes(id)
        BY SectorGoes DEF LivesGo
  <2> QED BY <1>1, <1>4, <2>2, <2>3 DEF LifeGoes, Place, Way, Dead
<1> QED BY <1>3, <1>4

LEMMA SessionWay ==
    ASSUME TypeInv, CalmInv, Calm, FateInv, FateInv', NEW p \in Pilots, Progress(p) \/ Whim(p), SessionStep(p),
           NEW q \in Pilots
    PROVE  LET a == Place(bay[q], Now(q))
               b == Place(bay'[q], Now(q)')
           IN  a = b \/ Way(a, b)
<1>1. bay[q] \in Bays /\ bay'[q] \in Bays /\ Fate(q) /\ BayFits(q)' /\ SeatFits(q)'
      BY DEF SessionStep, TypeInv, TaskTypes, Bays, FateInv, Fate
<1>2. CASE q # p
      BY <1>2, LastStays, RecordsApart
<1>3. CASE q = p /\ Launch(p)
  <2>1. /\ bay[p] \in {"new", "docked"} /\ bay'[p] = "out" /\ pc'[p] = "asking" /\ sleeper'[p] = sleeper[p]
        /\ pc[p] = "play"
        BY <1>3 DEF Launch, SessionStep, TypeInv, LeaseInv, TaskTypes
  <2>2. sleeper'[p] = NoSuit
        BY <1>1, <1>3, <2>1 DEF Fate, BayFits
  <2>3. Now(q)' = "queued"
        BY <1>1, <1>3, <2>1, <2>2 DEF SeatFits
  <2>4. Place(bay[q], Now(q)) = bay[q]
        BY <1>3, <2>1 DEF Place
  <2>5. Place(bay'[q], Now(q)') = "leaving"
        BY <1>3, <2>1, <2>3 DEF Place, Dead
  <2> QED BY <1>3, <2>1, <2>4, <2>5 DEF Way
<1>4. CASE q = p /\ ~Launch(p)
  <2>1. BayGoes(p)
        BY <1>1, <1>4, SessionBay
  <2>2. LastSuit(p)' = LastSuit(p) /\ Now(p)' = Now(p)
        BY <2>1, LastStays DEF BayGoes
  <2>3. CASE bay'[p] = bay[p] \/ (bay[p] = "empty" /\ bay'[p] = "new")
        BY <1>4, <2>2, <2>3 DEF Place, Way
  <2>4. CASE bay[p] = "out" /\ bay'[p] # "out"
    <3>1. LastSuit(p) # NoSuit
          BY <2>4, OutIsLaunched
    <3>2. IF bay'[p] = "docked" THEN Now(p) \in Sound ELSE Now(p) \in Dead
          BY <1>1, <1>4, <2>2, <2>4, <3>1 DEF BayFits, Bays
    <3>3. bay'[p] \in {"new", "docked", "empty"}
          BY <1>1, <1>4, <2>4 DEF Bays
    <3> QED BY <1>4, <2>2, <2>4, <3>2, <3>3 DEF Place, Way, Dead, Sound
  <2> QED BY <2>1, <2>3, <2>4 DEF BayGoes
<1> QED BY <1>2, <1>3, <1>4

LEMMA WhereGoes ==
    ASSUME TypeInv, CalmInv, Faultless, FateInv, FateInv', WhereFits, WhereFits', [Next]_vars
    PROVE  [Suits!Next]_Where
<1> DEFINE a(p) == Place(bay[p], Now(p))
           b(p) == Place(bay'[p], Now(p)')
<1>1. Calm /\ TypeInv'
      BY FaultlessIs, TypeInvStep
<1>2. \A p \in Pilots : Where[p] = a(p) /\ Where'[p] = b(p) /\ b(p) \in Suits!Places
      BY PlacesAre DEF WhereFits
<1>3. Where' \in [Pilots -> Suits!Places]
      BY PlacesAre DEF WhereFits
<1>4. ASSUME NEW p \in Pilots PROVE a(p) = b(p) \/ Way(a(p), b(p))
  <2>1. CASE Sector
        BY <1>1, <2>1, SectorWay
  <2>2. CASE Notes \/ UNCHANGED vars
    <3>1. UNCHANGED <<bay, life, owner>>
          BY <2>2 DEF Notes, sim, record, vars
    <3>2. LastSuit(p)' = LastSuit(p)
          BY <3>1 DEF LastSuit
    <3> QED BY <3>1, <3>2 DEF Now
  <2>3. ASSUME NEW q \in Pilots, Progress(q) \/ Whim(q) PROVE a(p) = b(p) \/ Way(a(p), b(p))
    <3>1. SessionStep(q)
          BY <1>1, <2>3, SessionsFit DEF SessionStep
    <3> QED BY <1>1, <2>3, <3>1, SessionWay
  <2> QED BY <2>1, <2>2, <2>3 DEF Next
<1> HIDE DEF a, b
<1> QED BY <1>2, <1>3, <1>4, WaysAre DEF Suits!Next

(* Where nothing goes wrong between tasks and every homecoming finds room, the sector, the
   sessions and the records they save implement Sortie: a suit is in one place at a time,
   is in the bay again only once it is out of the sector whole (Hangar::came_home, recover)
   and is written off only once it was destroyed (Hangar::lost). *)
THEOREM SuitsAreInOnePlace == Spec /\ Faultless /\ [](Ejects => HomeFits) => OnePlace
<1>1. Justice /\ Faultless => TypeInv /\ CalmInv /\ FateInv
      BY FaultlessIs DEF Justice
<1>2. Justice /\ Faultless => WhereFits
      BY <1>1, WhereIs
<1>3. Init => Suits!Init
      BY DEF Init, Suits!Init, Where
<1>4. Justice /\ (Ejects => HomeFits) /\ [Next]_vars => Justice'
      BY JusticeStep
<1>5. Faultless /\ [Next]_vars => Faultless'
      BY FaultsStay DEF Faultless
<1>6. /\ Justice /\ Faultless /\ WhereFits /\ [Next]_vars
      /\ Justice' /\ Faultless' /\ WhereFits'
      => [Suits!Next]_Where
  <2> SUFFICES ASSUME Justice, Faultless, WhereFits, [Next]_vars, Justice', Faultless', WhereFits'
               PROVE  [Suits!Next]_Where
      OBVIOUS
  <2>1. FateInv'
        BY DEF Justice
  <2> QED BY <1>1, <2>1, WhereGoes
<1> QED BY <1>2, <1>3, <1>4, <1>5, <1>6, JusticeInit, PTL DEF Spec, OnePlace, Suits!Spec

(* Where nobody ejects, they do so for any number of pilots, slots and suits. *)
THEOREM SuitsAreInOnePlaceWithoutEjects ==
    ASSUME ~Ejects, Faults = {{}}
    PROVE  Spec => OnePlace
<1>1. Init => Faultless
      BY DEF Init, Faultless
<1>2. Ejects => HomeFits
      OBVIOUS
<1> QED BY <1>1, <1>2, SuitsAreInOnePlace, PTL DEF Spec
=============================================================================
