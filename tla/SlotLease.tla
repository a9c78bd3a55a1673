----------------------------- MODULE SlotLease -----------------------------
(***************************************************************************)
(* A pilot's sorties under survival rules: the session tasks of bc-server  *)
(* (net/session.rs), the sector thread of bc-sector (sector.rs) and what   *)
(* they share (queues.rs): the control queue, each slot's status (four     *)
(* atomics), each slot's report ring, the free leases, and the notes of    *)
(* what became of sleepers.                                                *)
(*                                                                         *)
(* The sector is one thread.  What it does to the simulation while it      *)
(* handles a message nobody else sees, so that is one step; the writes     *)
(* other threads do see come after it one at a time, in program order,     *)
(* from `todo`.  A session is an async task: a step ends wherever it waits *)
(* or reads what the sector may change.                                    *)
(*                                                                         *)
(* Of a suit the model keeps whose it is and what has become of it; of     *)
(* messages and reports, what they are and whom they are about.  Fed,      *)
(* UseKit, Respawn, AceDown, Course and Drill change none of that, and are *)
(* left out.                                                               *)
(***************************************************************************)
EXTENDS Integers, Sequences, FiniteSets, SequencesExt

CONSTANTS
    Pilots,       \* signed-in pilots, each with a record
    NoPilot,
    Slots,        \* client slots of the sector
    NoSlot,
    MaxLaunches,  \* bound: launches in a behaviour...
    MaxHasty,     \* ...and in one whose sessions are impatient
    SimCap,       \* suits the simulation holds (drones aside)
    MaxSleepers,  \* SimConfig::max_sleepers
    ControlCap,   \* room in the control queue
    EpochMod,     \* an epoch wraps (2^32 in the code)
    ReportCap,    \* room in a slot's report ring (REPORTS)
    Ejects,       \* pilots eject from their suits
    Faults        \* the sets of faults a behaviour may have, of "impatient", "torn", "split"

ASSUME ConstantsAssumption ==
    /\ MaxLaunches \in Nat /\ MaxHasty \in 0..MaxLaunches /\ SimCap \in Nat /\ MaxSleepers \in Nat \ {0}
    /\ ControlCap \in Nat \ {0} /\ ReportCap \in Nat \ {0} /\ EpochMod \in Nat \ {0, 1}
    /\ Ejects \in BOOLEAN /\ Faults \subseteq SUBSET {"impatient", "torn", "split"}
    /\ NoPilot \notin Pilots /\ NoSlot \notin Slots /\ IsFiniteSet(Slots)

NoSuit == 0
Ids == 1..MaxLaunches

VARIABLES
    \* shared: queues.rs
    leases,    \* SectorShared::leases, oldest first
    control,   \* SectorShared::control
    status,    \* SectorShared::slots: state, suit, epoch, outcome of each slot
    reports,   \* each slot's report ring
    notes,     \* SectorShared::notes
    \* the sector thread
    todo,      \* visible writes it has still to make
    client,    \* Sector::clients: active, suit, lost, loss
    claim,     \* Sector::claims: whose wreck the tugs are out for
    fates,     \* the simulation's sleepers lost since the notes went out
    \* the simulation
    life,      \* what has become of each suit launched
    owner,     \* whose it is
    launched,  \* suits launched so far
    \* the network side, shared by sessions: pilots.rs
    bound,     \* Pilots::by_suit, the pilot bound to each suit
    news,      \* Pilots::news
    inHand,    \* notes the notes task has popped and not yet told
    faults,    \* what may go wrong between tasks, from first to last
    \* a pilot's record, and their session
    bay,       \* Hangar::bay: "out", "empty", "new" (docked, and never out), "docked" (back)
    sleeper,   \* PilotRecord::sleeper
    pc, slot, suit, lost, towing, seen, poll

shared   == <<leases, control, status, reports, notes>>
sector   == <<todo, client, claim, fates>>
sim      == <<life, owner, launched>>
registry == <<bound, news, inHand, faults>>
record   == <<bay, sleeper>>
session  == <<pc, slot, suit, lost, towing, seen, poll>>
vars == <<shared, sector, sim, registry, record, session>>

(* Sessions stop waiting for the sector (a timeout, a dead link); a slot's status is read
   and written an atomic at a time; the notes task is two steps: a note popped, a note
   told. *)
Impatient == "impatient" \in faults
Torn == "torn" \in faults
SplitNotes == "split" \in faults

Lives ==
    {"unborn", "queued",                       \* not launched; its Join is on its way
     "cradle", "flying", "wreck", "asleep",    \* in the simulation
     "unlaunched", "docked", "released", "evicted", "destroyed"}  \* gone from it
Flyable(id) == life[id] \in {"cradle", "flying"}

Init ==
    /\ leases \in SetToSeqs(Slots)
    /\ control = <<>>
    /\ status = [s \in Slots |-> [state |-> "Free", suit |-> NoSuit,
                                  epoch |-> 0, outcome |-> "Fresh"]]
    /\ reports = [s \in Slots |-> <<>>]
    /\ notes = <<>>
    /\ todo = <<>>
    /\ client = [s \in Slots |-> [active |-> FALSE, suit |-> NoSuit,
                                  lost |-> FALSE, loss |-> "Destroyed"]]
    /\ claim = [s \in Slots |-> NoPilot]
    /\ fates = <<>>
    /\ life = [id \in Ids |-> "unborn"]
    /\ owner = [id \in Ids |-> NoPilot]
    /\ launched = 0
    /\ bound = [id \in Ids |-> NoPilot]
    /\ news = [p \in Pilots |-> "none"]
    /\ inHand = <<>>
    /\ faults \in Faults
    /\ bay = [p \in Pilots |-> "new"]
    /\ sleeper = [p \in Pilots |-> NoSuit]
    /\ pc = [p \in Pilots |-> "away"]
    /\ slot = [p \in Pilots |-> NoSlot]
    /\ suit = [p \in Pilots |-> NoSuit]
    /\ lost = [p \in Pilots |-> FALSE]
    /\ towing = [p \in Pilots |-> FALSE]
    /\ seen = [p \in Pilots |-> 0]
    /\ poll = [p \in Pilots |-> "none"]

-----------------------------------------------------------------------------
(* The sector's visible writes: stores to a slot's status, reports, notes. *)

Store(s, fields, bump) == [kind |-> "store", slot |-> s, val |-> fields, bump |-> bump]
Tell(s, what, p) == [kind |-> "report", slot |-> s, val |-> [what |-> what, of |-> p], bump |-> 0]
Note(id, fate) == [kind |-> "note", slot |-> NoSlot, val |-> [suit |-> id, fate |-> fate], bump |-> 0]

(* SlotStatus::publish: suit, outcome, the epoch of a (re)join, then state. *)
Publish(s, state, id, outcome) ==
    LET bump == IF state = "Free" THEN 0 ELSE 1
    IN  IF Torn
        THEN <<Store(s, [suit |-> id], 0), Store(s, [outcome |-> outcome], 0),
               Store(s, <<>>, bump), Store(s, [state |-> state], 0)>>
        ELSE <<Store(s, [suit |-> id, outcome |-> outcome, state |-> state], bump)>>

(* A report on the slot's ring: a full ring loses it (notes_dropped). *)
M_PushReportAnyway(ring, r) == Append(ring, r)
PushReport(ring, r) == IF Len(ring) < ReportCap THEN Append(ring, r) ELSE ring

Stored(st, w) ==
    [f \in DOMAIN st |->
        IF f \in DOMAIN w.val THEN w.val[f]
        ELSE IF f = "epoch" THEN (st.epoch + w.bump) % EpochMod ELSE st[f]]

(* The sector makes its next write. *)
SectorWrite ==
    /\ todo # <<>>
    /\ todo' = Tail(todo)
    /\ LET w == Head(todo)
       IN  /\ status' = IF w.kind = "store"
                        THEN [status EXCEPT ![w.slot] = Stored(@, w)] ELSE status
           /\ reports' = IF w.kind = "report"
                         THEN [reports EXCEPT ![w.slot] = PushReport(@, w.val)] ELSE reports
           /\ notes' = IF w.kind = "note" THEN Append(notes, w.val) ELSE notes
    /\ UNCHANGED <<leases, control, client, claim, fates, sim, registry, record, session>>

-----------------------------------------------------------------------------
(* The sector handles a message: Sector::drain_control. *)

Msg(op, s, p, wake, launch) ==
    [op |-> op, slot |-> s, who |-> p, wake |-> wake, launch |-> launch]

Takes(op) == todo = <<>> /\ control # <<>> /\ Head(control).op = op

(* Sim::leave: the suit goes (a wreck was destroyed already). *)
Released(l) ==
    CASE l = "wreck" -> "destroyed"
      [] l \in {"cradle", "flying", "asleep"} -> "released"
      [] OTHER -> l

(* The sleepers evict_oldest_sleeper may clear.  (Which of them has slept longest,
   and which are in hide spots and go last, is abstracted.) *)
Evictable(lf) == {id \in Ids : lf[id] = "asleep"}

Held(lf) == {id \in Ids : lf[id] \in {"cradle", "flying", "wreck", "asleep"}}

(* The life function once there is room (ensure_free_suits,
   make_room_for_sleeper): `full` says there is none. *)
MadeRoom(lf, full) ==
    IF full /\ Evictable(lf) # {}
    THEN {[lf EXCEPT ![id] = "evicted"] : id \in Evictable(lf)}
    ELSE {lf}

Evictions(from, to) ==
    LET gone == {id \in Ids : from[id] # "evicted" /\ to[id] = "evicted"}
    IN  SetToSeq({[suit |-> id, fate |-> "Lost"] : id \in gone})

(* Slot s's claim is towed home now: Sector::tow. *)
TowWrites(s) == IF claim[s] # NoPilot THEN <<Tell(s, "Towed", claim[s])>> ELSE <<>>

Seated(s, id) ==
    [client EXCEPT ![s] = [active |-> TRUE, suit |-> id, lost |-> FALSE, loss |-> "Destroyed"]]

(* Control::Join, waking a sleeper if it's still there, else launching a suit,
   else (survival) refused. *)
HandleJoin ==
    /\ Takes("Join")
    /\ control' = Tail(control)
    /\ LET m == Head(control)
           s == m.slot
           left == IF client[s].active
                   THEN [life EXCEPT ![client[s].suit] = Released(@)] ELSE life
       IN  IF m.wake # NoSuit /\ left[m.wake] = "asleep"
           THEN /\ life' = [left EXCEPT ![m.wake] = "flying"]
                /\ client' = Seated(s, m.wake)
                /\ todo' = Publish(s, "Active", m.wake, "Woke")
                /\ UNCHANGED fates
           ELSE IF m.launch # NoSuit
           THEN \E room \in MadeRoom(left, Cardinality(Held(left)) >= SimCap) :
                    LET fits == Cardinality(Held(room)) < SimCap
                    IN  /\ life' = [room EXCEPT ![m.launch] =
                                        IF fits THEN "cradle" ELSE "unlaunched"]
                        /\ client' = IF fits THEN Seated(s, m.launch) ELSE client
                        /\ todo' = IF fits THEN Publish(s, "Active", m.launch, "Fresh")
                                   ELSE Publish(s, "Refused", NoSuit, "Fresh")
                        /\ fates' = fates \o Evictions(left, room)
           ELSE /\ life' = left
                /\ todo' = Publish(s, "Refused", NoSuit, "Fresh")
                /\ UNCHANGED <<client, fates>>
    /\ UNCHANGED <<leases, status, reports, notes, claim, owner, launched,
                   registry, record, session>>

(* A slot let go: what the session must hear, before it sees the slot free. *)
M_FreedFirst(s, said, id, outcome) == Publish(s, "Free", id, outcome) \o said
Freed(s, said, id, outcome) == said \o Publish(s, "Free", id, outcome)

(* Control::Sleep (and Leave, a guest's): the claim is settled, the suit goes
   back in if it never left its cradle, sleeps if it can, or goes; what the
   session must hear is told before the slot is published free. *)
HandleSleep ==
    /\ Takes("Sleep")
    /\ control' = Tail(control)
    /\ LET m == Head(control)
           s == m.slot
           c == client[s]
           id == c.suit
       IN  /\ claim' = [claim EXCEPT ![s] = NoPilot]
           /\ client' = [client EXCEPT ![s].active = FALSE]
           /\ \/ /\ ~c.active
                 /\ todo' = Freed(s, TowWrites(s), NoSuit, "Released")
                 /\ UNCHANGED <<life, fates>>
              \/ /\ c.active /\ life[id] = "cradle"
                 /\ life' = [life EXCEPT ![id] = "docked"]
                 /\ todo' = TowWrites(s)
                               \o Freed(s, <<Tell(s, "Home", owner[id])>>, NoSuit, "Docked")
                 /\ UNCHANGED fates
              \/ /\ c.active /\ life[id] = "flying"
                 /\ \E room \in MadeRoom(life, Cardinality({i \in Ids : life[i] = "asleep"})
                                                   >= MaxSleepers),
                       hides \in BOOLEAN :
                    /\ life' = [room EXCEPT ![id] = "asleep"]
                    /\ fates' = fates \o Evictions(life, room)
                    /\ todo' = TowWrites(s)
                               \o Freed(s, IF hides THEN <<Tell(s, "Parked", owner[id])>> ELSE <<>>,
                                        id, "Asleep")
              \/ /\ c.active /\ life[id] \notin {"cradle", "flying"}
                 /\ life' = [life EXCEPT ![id] = Released(@)]
                 /\ todo' = Freed(s, TowWrites(s), NoSuit, "Released")
                 /\ UNCHANGED fates
    /\ UNCHANGED <<leases, status, reports, notes, owner, launched,
                   registry, record, session>>

(* Control::Dock: in, if it's at rest in the dock; the slot is published free
   before the homecoming is reported. *)
HandleDock ==
    /\ Takes("Dock")
    /\ control' = Tail(control)
    /\ LET m == Head(control)
           s == m.slot
           id == client[s].suit
       IN  \/ /\ client[s].active /\ Flyable(id)
              /\ life' = [life EXCEPT ![id] = "docked"]
              /\ client' = [client EXCEPT ![s].active = FALSE]
              /\ todo' = Publish(s, "Free", NoSuit, "Docked") \o <<Tell(s, "Home", owner[id])>>
           \/ /\ ~(client[s].active /\ life[id] = "cradle")  \* in its cradle it always may
              /\ todo' = <<Tell(s, "DockRefused", m.who)>>
              /\ UNCHANGED <<life, client>>
    /\ UNCHANGED <<leases, status, reports, notes, claim, fates, owner, launched,
                   registry, record, session>>

(* Control::Eject: the pilot is out and the tugs go out for the wreck, if there
   was room for one; or the reactor is blown. *)
HandleEject ==
    /\ Takes("Eject")
    /\ control' = Tail(control)
    /\ LET s == Head(control).slot
           id == client[s].suit
       IN  \/ /\ ~(client[s].active /\ Flyable(id))
              /\ UNCHANGED <<life, client, claim, todo>>
           \/ /\ client[s].active /\ Flyable(id)
              /\ life' = [life EXCEPT ![id] = "wreck"]
              /\ \/ /\ client' = [client EXCEPT ![s].loss = "Ejected"]
                    /\ \/ /\ todo' = TowWrites(s)
                          /\ claim' = [claim EXCEPT ![s] = owner[id]]
                       \/ UNCHANGED <<todo, claim>>  \* no room for a hulk
                 \/ /\ client' = [client EXCEPT ![s].loss = "Blown"]
                    /\ UNCHANGED <<todo, claim>>
    /\ UNCHANGED <<leases, status, reports, notes, fates, owner, launched,
                   registry, record, session>>

(* Control::Tow. *)
HandleTow ==
    /\ Takes("Tow")
    /\ control' = Tail(control)
    /\ LET s == Head(control).slot
       IN  /\ todo' = TowWrites(s)
           /\ claim' = [claim EXCEPT ![s] = NoPilot]
    /\ UNCHANGED <<leases, status, reports, notes, client, fates, sim,
                   registry, record, session>>

-----------------------------------------------------------------------------
(* The rest of a tick, once the control queue is empty: the simulation steps,
   fates go out (pass_on_fates), lost suits are watched (watch_losses) and the
   tugs run (run_tugs). *)

LossWrites(s, lf) ==
    LET c == client[s]
    IN  IF c.active /\ c.suit \notin Held(lf)
        THEN Publish(s, "Free", NoSuit, "Lost")
        ELSE IF c.active /\ ~c.lost /\ lf[c.suit] = "wreck"
        THEN <<Tell(s, IF c.loss = "Ejected" THEN "LostEjected" ELSE "Lost", owner[c.suit])>>
        ELSE <<>>

WatchLosses(lf) ==
    client' = [s \in Slots |->
        [client[s] EXCEPT
            !.active = @ /\ client[s].suit \in Held(lf),
            !.lost = @ \/ (client[s].active /\ client[s].suit \in Held(lf)
                             /\ lf[client[s].suit] = "wreck")]]

EndTick(lf, fate, tugs) ==
    LET order == SetToSeq(Slots)
        fs == fates \o fate
    IN  /\ todo = <<>> /\ control = <<>>
        /\ life' = lf
        /\ WatchLosses(lf)
        /\ fates' = <<>>
        /\ todo' = [i \in DOMAIN fs |-> Note(fs[i].suit, fs[i].fate)]
                   \o FlattenSeq([i \in DOMAIN order |-> LossWrites(order[i], lf)])
                   \o FlattenSeq([i \in DOMAIN order |->
                          IF order[i] \in tugs THEN TowWrites(order[i]) ELSE <<>>])
        /\ claim' = [s \in Slots |-> IF s \in tugs THEN NoPilot ELSE claim[s]]
        /\ UNCHANGED <<leases, control, status, reports, notes, owner, launched,
                       registry, record, session>>

(* The catapult throws a suit out of its cradle. *)
Thrown(id) == life[id] = "cradle" /\ EndTick([life EXCEPT ![id] = "flying"], <<>>, {})

(* A suit is destroyed, its pilot aboard (nothing strikes one in its cradle). *)
Struck(id) == life[id] = "flying" /\ EndTick([life EXCEPT ![id] = "wreck"], <<>>, {})

(* A wreck is cleared: its suit is no longer valid.  It stood for respawn_secs: its
   loss was told ticks before, and a patient session waiting to be seated, which
   looks every 2 ms, has seen its seat. *)
WreckCleared(id) ==
    /\ life[id] = "wreck"
    /\ \A s \in Slots : client[s].active /\ client[s].suit = id => client[s].lost
    /\ ~Impatient => \A p \in Pilots :
           ~(pc[p] = "seating" /\ client[slot[p]].active /\ client[slot[p]].suit = id)
    /\ EndTick([life EXCEPT ![id] = "destroyed"], <<>>, {})

(* A sleeper is destroyed. *)
SleeperStruck(id) ==
    /\ life[id] = "asleep"
    /\ EndTick([life EXCEPT ![id] = "wreck"], <<[suit |-> id, fate |-> "Destroyed"]>>, {})

(* The tugs reach a wreck. *)
TugsArrive(s) == claim[s] # NoPilot /\ EndTick(life, <<>>, {s})

(* A tick on which nothing happens but what is left over from the drain. *)
QuietTick ==
    /\ \/ fates # <<>>
       \/ \E s \in Slots : LossWrites(s, life) # <<>>
    /\ EndTick(life, <<>>, {})

Sector ==
    \/ SectorWrite
    \/ HandleJoin \/ HandleSleep \/ HandleDock \/ HandleEject \/ HandleTow
    \/ QuietTick
    \/ \E id \in Ids : Thrown(id) \/ Struck(id) \/ WreckCleared(id) \/ SleeperStruck(id)
    \/ \E s \in Slots : TugsArrive(s)

-----------------------------------------------------------------------------
(* Sessions.  Only a step of pilot p's session changes pc[p], slot[p]... *)

Room == Len(control) < ControlCap
Push(m) == Room /\ control' = Append(control, m)
(* Pushed once, whether or not there's room. *)
Offer(m) == control' = IF Room THEN Append(control, m) ELSE control

(* The suit p launched last: the one their hangar's bay is Out with. *)
LastSuit(p) ==
    LET theirs == {id \in Ids : owner[id] = p}
    IN  IF theirs = {} THEN NoSuit ELSE CHOOSE id \in theirs : \A other \in theirs : other <= id

(* Hangar::reissue (the Charter Board's advance, if one is due). *)
Reissued(b) == IF b = "empty" THEN {"empty", "new"} ELSE {b}

(* process_notes: each note of a suit still bound to a pilot is news for them (the
   latest replaces what was before it), and the suit is theirs no longer. *)
BoundAfter(ns) ==
    [id \in Ids |-> IF \E i \in DOMAIN ns : ns[i].suit = id THEN NoPilot ELSE bound[id]]

NewsAfter(ns) ==
    [p \in Pilots |->
        LET theirs == {i \in DOMAIN ns : bound[ns[i].suit] = p}
        IN  IF theirs = {} THEN news[p] ELSE ns[Max(theirs)].fate]

Told(ns) == bound' = BoundAfter(ns) /\ news' = NewsAfter(ns)

(* The notes task, four times a second: a note popped, its pilot told. *)
NotesTask ==
    \/ /\ ~SplitNotes /\ notes # <<>>
       /\ notes' = <<>>
       /\ Told(notes)
       /\ UNCHANGED inHand
    \/ /\ SplitNotes /\ notes # <<>> /\ inHand = <<>>
       /\ inHand' = <<Head(notes)>>
       /\ notes' = Tail(notes)
       /\ UNCHANGED <<bound, news>>
    \/ /\ inHand # <<>>
       /\ Told(inHand)
       /\ inHand' = <<>>
       /\ UNCHANGED notes

Notes ==
    /\ NotesTask
    /\ UNCHANGED <<leases, control, status, reports, sector, sim, faults, record, session>>

(* A session begins: a lease, the pilot's record, and if their suit is out asleep
   (the bay Out), the slot's epoch before it asks to wake it. *)
Connect(p) ==
    /\ pc[p] = "away" /\ leases # <<>>
    /\ LET s == Head(leases)
           wake == bay[p] = "out" /\ sleeper[p] # NoSuit
       IN  /\ slot' = [slot EXCEPT ![p] = s]
           /\ seen' = [seen EXCEPT ![p] = IF wake THEN status[s].epoch ELSE @]
           /\ pc' = [pc EXCEPT ![p] = IF wake THEN "asking" ELSE "entered"]
    /\ leases' = Tail(leases)
    /\ UNCHANGED <<control, status, reports, notes, sector, sim, registry, record,
                   suit, lost, towing, poll>>

(* A pilot in the hangar launches the suit in the bay. *)
Launch(p) ==
    /\ pc[p] = "play" /\ suit[p] = NoSuit /\ bay[p] \in {"new", "docked"}
    /\ launched < IF Impatient THEN MaxHasty ELSE MaxLaunches
    /\ launched' = launched + 1
    /\ life' = [life EXCEPT ![launched + 1] = "queued"]
    /\ owner' = [owner EXCEPT ![launched + 1] = p]
    /\ bay' = [bay EXCEPT ![p] = "out"]
    /\ seen' = [seen EXCEPT ![p] = status[slot[p]].epoch]
    /\ pc' = [pc EXCEPT ![p] = "asking"]
    /\ UNCHANGED <<shared, sector, registry, sleeper, slot, suit, lost, towing, poll>>

(* Session::seat asks the sector: a sleeper to wake, or a suit to launch. *)
Ask(p) ==
    /\ pc[p] = "asking"
    /\ IF sleeper[p] # NoSuit THEN Push(Msg("Join", slot[p], p, sleeper[p], NoSuit))
       ELSE Push(Msg("Join", slot[p], p, NoSuit, LastSuit(p)))
    /\ pc' = [pc EXCEPT ![p] = "seating"]
    /\ UNCHANGED <<leases, status, reports, notes, sector, sim, registry, record,
                   slot, suit, lost, towing, seen, poll>>

(* What seat makes of the answer ("none": it gave up).  A launch not seated is
   recovered; a comeback goes on, and says in `poll` whether the sleeper woke. *)
Answer(p, state) ==
    LET st == status[slot[p]]
        seated == state = "Active" /\ st.suit # NoSuit
        wake == sleeper[p] # NoSuit
    IN  /\ suit' = [suit EXCEPT ![p] = IF seated THEN st.suit ELSE @]
        /\ lost' = [lost EXCEPT ![p] = @ /\ ~seated]
        /\ bound' = IF seated THEN [bound EXCEPT ![st.suit] = p] ELSE bound
        /\ bay' = [bay EXCEPT ![p] = IF ~wake /\ ~seated THEN "docked" ELSE @]
        /\ poll' = [poll EXCEPT ![p] = IF wake /\ seated THEN st.outcome ELSE "none"]
        /\ pc' = [pc EXCEPT ![p] = IF wake THEN "entered" ELSE "play"]
        /\ seen' = [seen EXCEPT ![p] = 0]
        /\ UNCHANGED <<shared, sector, sim, news, inHand, faults, sleeper, slot, towing>>

(* wait_slot, for a join: an epoch that isn't the one before, and a state. *)
M_AwaitAnySeat(p) ==
    /\ pc[p] = "seating" /\ ~Torn
    /\ status[slot[p]].state # "Free"
    /\ Answer(p, status[slot[p]].state)
AwaitSeat(p) ==
    /\ pc[p] = "seating" /\ ~Torn
    /\ status[slot[p]].epoch # seen[p] /\ status[slot[p]].state # "Free"
    /\ Answer(p, status[slot[p]].state)

(* The same, an atomic at a time: the state, then the epoch. *)
PollState(p) ==
    /\ pc[p] = "seating" /\ Torn /\ poll[p] = "none"
    /\ poll' = [poll EXCEPT ![p] = status[slot[p]].state]
    /\ UNCHANGED <<shared, sector, sim, registry, record, pc, slot, suit, lost, towing, seen>>

PollEpoch(p) ==
    /\ pc[p] = "seating" /\ Torn /\ poll[p] # "none"
    /\ IF status[slot[p]].epoch # seen[p] /\ poll[p] # "Free"
       THEN Answer(p, poll[p])
       ELSE /\ poll' = [poll EXCEPT ![p] = "none"]
            /\ UNCHANGED <<shared, sector, sim, registry, record,
                           pc, slot, suit, lost, towing, seen>>

GiveUpSeat(p) == Impatient /\ pc[p] = "seating" /\ Answer(p, "none")

(* The rest of Session::enter: what became of the suit they left, if they didn't
   wake in it; the record forgets the sleeper. *)
M_NotesUnread(asks) == <<>>
NotesRead(asks) == IF asks THEN notes ELSE <<>>

Enter(p) ==
    /\ pc[p] = "entered"
    /\ LET woke == poll[p] = "Woke"
           asks == sleeper[p] # NoSuit /\ ~woke
           told == NotesRead(asks)
           fate == IF asks /\ NewsAfter(told)[p] = "none" THEN "Lost" ELSE NewsAfter(told)[p]
           back == IF bay[p] # "out" \/ woke THEN bay[p]
                   ELSE IF asks /\ fate = "Destroyed" THEN "empty" ELSE "docked"
       IN  /\ notes' = IF told = notes THEN <<>> ELSE notes
           /\ bound' = BoundAfter(told)
           /\ news' = [NewsAfter(told) EXCEPT ![p] = "none"]
           /\ \E b \in Reissued(back) : bay' = [bay EXCEPT ![p] = b]
    /\ sleeper' = [sleeper EXCEPT ![p] = NoSuit]
    /\ poll' = [poll EXCEPT ![p] = "none"]
    /\ pc' = [pc EXCEPT ![p] = "play"]
    /\ UNCHANGED <<leases, control, status, reports, sector, sim, inHand, faults,
                   slot, suit, lost, towing, seen>>

-----------------------------------------------------------------------------
(* A session at play: the suit's reports, and what the pilot asks. *)

(* Session::on_report. *)
OnReport(p, r) ==
    LET home == r.what = "Home"
        gone == r.what \in {"Lost", "LostEjected"}
        stuck == CASE r.what = "LostEjected" -> TRUE [] r.what = "Towed" -> FALSE
                   [] OTHER -> towing[p]
        settled == r.what = "Towed" /\ ~lost[p] /\ suit[p] = NoSuit
    IN  /\ suit' = [suit EXCEPT ![p] = IF home THEN NoSuit ELSE @]
        /\ bound' = IF home /\ suit[p] # NoSuit
                    THEN [bound EXCEPT ![suit[p]] = NoPilot] ELSE bound
        /\ lost' = [lost EXCEPT ![p] = @ \/ gone]
        /\ towing' = [towing EXCEPT ![p] = stuck]
        /\ \E b \in IF home THEN {"docked"} ELSE IF gone THEN {"empty"}
                    ELSE IF settled THEN Reissued(bay[p]) ELSE {bay[p]} :
                bay' = [bay EXCEPT ![p] = b]

(* The next report, on the session's tick (on_tick) or waiting for the dock to
   answer (dock). *)
ReadReport(p) ==
    /\ pc[p] \in {"play", "docking"} /\ reports[slot[p]] # <<>>
    /\ LET r == Head(reports[slot[p]])
       IN  /\ OnReport(p, r)
           /\ pc' = [pc EXCEPT ![p] =
                        IF r.what \in {"Home", "DockRefused"} THEN "play" ELSE @]
    /\ reports' = [reports EXCEPT ![slot[p]] = Tail(@)]
    /\ UNCHANGED <<leases, control, status, notes, sector, sim, news, inHand, faults, sleeper,
                   slot, seen, poll>>

(* The sector has nothing more to say to slot s: a patient session, waiting for a
   report, runs out its wait only then. *)
NothingComes(s) ==
    /\ todo = <<>> /\ reports[s] = <<>>
    /\ ~\E i \in DOMAIN control : control[i].slot = s

(* Session::dock (a full control queue drops it, and the dock never answers). *)
Dock(p) ==
    /\ pc[p] = "play" /\ suit[p] # NoSuit /\ ~lost[p]
    /\ Offer(Msg("Dock", slot[p], p, NoSuit, NoSuit))
    /\ pc' = [pc EXCEPT ![p] = "docking"]
    /\ UNCHANGED <<leases, status, reports, notes, sector, sim, registry, record,
                   slot, suit, lost, towing, seen, poll>>

GiveUpDock(p) ==
    /\ pc[p] = "docking" /\ (Impatient \/ NothingComes(slot[p]))
    /\ pc' = [pc EXCEPT ![p] = "play"]
    /\ UNCHANGED <<shared, sector, sim, registry, record, slot, suit, lost, towing, seen, poll>>

(* Request::Eject. *)
Eject(p) ==
    /\ Ejects /\ pc[p] = "play" /\ suit[p] # NoSuit /\ ~lost[p]
    /\ Offer(Msg("Eject", slot[p], p, NoSuit, NoSuit))
    /\ UNCHANGED <<leases, status, reports, notes, sector, sim, registry, record, session>>

(* Session::on_tick: the wreck is cleared, and the pilot is back in the hangar. *)
WreckGone(p) ==
    /\ pc[p] = "play" /\ lost[p] /\ status[slot[p]].state = "Free"
    /\ lost' = [lost EXCEPT ![p] = FALSE]
    /\ suit' = [suit EXCEPT ![p] = NoSuit]
    /\ bound' = IF suit[p] # NoSuit THEN [bound EXCEPT ![suit[p]] = NoPilot] ELSE bound
    /\ \E b \in IF towing[p] THEN {bay[p]} ELSE Reissued(bay[p]) : bay' = [bay EXCEPT ![p] = b]
    /\ UNCHANGED <<shared, sector, sim, news, inHand, faults, sleeper, pc, slot, towing, seen, poll>>

(* In the hangar with an empty bay, a suit is built or advanced. *)
Refit(p) ==
    /\ pc[p] = "play" /\ suit[p] = NoSuit /\ ~lost[p] /\ bay[p] = "empty"
    /\ bay' = [bay EXCEPT ![p] = "new"]
    /\ UNCHANGED <<shared, sector, sim, registry, sleeper, session>>

-----------------------------------------------------------------------------
(* Session::leave. *)

(* A session ends (Bye, a dead link, idle, taken over): one with a suit asks the
   sector to let it sleep. *)
Leave(p) ==
    /\ pc[p] = "play"
    /\ IF suit[p] # NoSuit
       THEN /\ Push(Msg("Sleep", slot[p], p, NoSuit, NoSuit))
            /\ pc' = [pc EXCEPT ![p] = "freeing"]
       ELSE /\ UNCHANGED control
            /\ pc' = [pc EXCEPT ![p] = IF towing[p] THEN "towing" ELSE "returning"]
    /\ UNCHANGED <<leases, status, reports, notes, sector, sim, registry, record,
                   slot, suit, lost, towing, seen, poll>>

(* The bay of a pilot who left, by what the sector last said of the suit that was out. *)
M_AsleepIsLost(b, asleep, said) ==
    IF b # "out" THEN b ELSE IF "Home" \in said THEN "docked" ELSE "empty"
M_LostUnlessAsleep(b, asleep, said) == IF asleep \/ b # "out" THEN b ELSE "empty"
BayLeft(b, asleep, said) ==
    IF asleep \/ b # "out" THEN b ELSE IF "Home" \in said THEN "docked" ELSE "empty"

(* The slot is free (or it stopped waiting): what the sector had left to say is
   read, and the record says what became of the suit. *)
Settle(p) ==
    LET s == slot[p]
        said == {reports[s][i].what : i \in DOMAIN reports[s]}
        asleep == status[s].outcome = "Asleep" /\ status[s].suit # NoSuit
        tows == towing[p] /\ "Towed" \notin said
    IN  /\ reports' = [reports EXCEPT ![s] = <<>>]
        /\ towing' = [towing EXCEPT ![p] = tows]
        /\ sleeper' = [sleeper EXCEPT ![p] = IF asleep THEN status[s].suit ELSE NoSuit]
        /\ bound' = IF asleep THEN bound ELSE [bound EXCEPT ![suit[p]] = NoPilot]
        /\ bay' = [bay EXCEPT ![p] = BayLeft(@, asleep, said)]
        /\ suit' = [suit EXCEPT ![p] = NoSuit]
        /\ lost' = [lost EXCEPT ![p] = FALSE]
        /\ pc' = [pc EXCEPT ![p] = IF tows THEN "towing" ELSE "returning"]
        /\ UNCHANGED <<leases, control, status, notes, sector, sim, news, inHand, faults,
                       slot, seen, poll>>

M_LeaveUnanswered(p) == pc[p] = "freeing" /\ Settle(p)
M_AwaitAsleep(p) ==
    pc[p] = "freeing" /\ status[slot[p]].state = "Free" /\ status[slot[p]].suit # NoSuit /\ Settle(p)
AwaitFree(p) == pc[p] = "freeing" /\ status[slot[p]].state = "Free" /\ Settle(p)

GiveUpFree(p) == Impatient /\ pc[p] = "freeing" /\ Settle(p)

(* The wreck the tugs were going out for comes in before the pilot goes. *)
AskTow(p) ==
    /\ pc[p] = "towing"
    /\ Push(Msg("Tow", slot[p], p, NoSuit, NoSuit))
    /\ pc' = [pc EXCEPT ![p] = "awaitTow"]
    /\ UNCHANGED <<leases, status, reports, notes, sector, sim, registry, record,
                   slot, suit, lost, towing, seen, poll>>

AwaitTow(p) ==
    /\ pc[p] = "awaitTow" /\ reports[slot[p]] # <<>>
    /\ reports' = [reports EXCEPT ![slot[p]] = Tail(@)]
    /\ LET tow == Head(reports[slot[p]]).what = "Towed"
       IN  /\ pc' = [pc EXCEPT ![p] = IF tow THEN "returning" ELSE @]
           /\ towing' = [towing EXCEPT ![p] = @ /\ ~tow]
    /\ UNCHANGED <<leases, control, status, notes, sector, sim, registry, record,
                   slot, suit, lost, seen, poll>>

(* A tow that isn't coming. *)
GiveUpTow(p) ==
    /\ pc[p] = "awaitTow" /\ (Impatient \/ NothingComes(slot[p]))
    /\ pc' = [pc EXCEPT ![p] = "returning"]
    /\ towing' = [towing EXCEPT ![p] = FALSE]
    /\ UNCHANGED <<shared, sector, sim, registry, record, slot, suit, lost, seen, poll>>

(* The record is saved, and the lease goes back. *)
M_ReturnKept(p) ==
    /\ pc[p] = "returning"
    /\ slot' = [slot EXCEPT ![p] = NoSlot]
    /\ pc' = [pc EXCEPT ![p] = "away"]
    /\ UNCHANGED <<leases, control, status, reports, notes, sector, sim, registry, record,
                   suit, lost, towing, seen, poll>>
Return(p) ==
    /\ pc[p] = "returning"
    /\ leases' = Append(leases, slot[p])
    /\ slot' = [slot EXCEPT ![p] = NoSlot]
    /\ pc' = [pc EXCEPT ![p] = "away"]
    /\ UNCHANGED <<control, status, reports, notes, sector, sim, registry, record,
                   suit, lost, towing, seen, poll>>

(* The steps a session takes by itself, and those its pilot asks for. *)
Progress(p) ==
    \/ Ask(p) \/ AwaitSeat(p) \/ PollState(p) \/ PollEpoch(p) \/ GiveUpSeat(p) \/ Enter(p)
    \/ ReadReport(p) \/ GiveUpDock(p) \/ WreckGone(p)
    \/ AwaitFree(p) \/ GiveUpFree(p) \/ AskTow(p) \/ AwaitTow(p) \/ GiveUpTow(p) \/ Return(p)

Whim(p) == Connect(p) \/ Launch(p) \/ Dock(p) \/ Eject(p) \/ Refit(p) \/ Leave(p)

Next == Sector \/ Notes \/ \E p \in Pilots : Progress(p) \/ Whim(p)

(* The sector ticks; tasks that can run are run. *)
Fairness ==
    /\ WF_vars(SectorWrite)
    /\ WF_vars(HandleJoin \/ HandleSleep \/ HandleDock \/ HandleEject \/ HandleTow)
    /\ WF_vars(QuietTick)
    /\ \A p \in Pilots : WF_vars(Progress(p))

Spec == Init /\ [][Next]_vars /\ Fairness

-----------------------------------------------------------------------------
(* The state's shape; and the queues between sessions and the sector hold no more than
   they were made for (queues.rs, build), whoever pushes to them. *)
TypeOK ==
    /\ leases \in Seq(Slots)
    /\ \A i \in DOMAIN control :
           /\ control[i].op \in {"Join", "Sleep", "Dock", "Eject", "Tow"}
           /\ control[i].slot \in Slots /\ control[i].who \in Pilots
    /\ Len(control) <= ControlCap
    /\ \A s \in Slots : /\ status[s].state \in {"Free", "Active", "Refused"}
                        /\ status[s].suit \in Ids \cup {NoSuit}
                        /\ Len(reports[s]) <= ReportCap
    /\ life \in [Ids -> Lives]
    /\ bound \in [Ids -> Pilots \cup {NoPilot}]
    /\ bay \in [Pilots -> {"new", "docked", "out", "empty"}]
    /\ suit \in [Pilots -> Ids \cup {NoSuit}]
    /\ slot \in [Pilots -> Slots \cup {NoSlot}]

(* A suit is written off (Session::on_report, enter and leave call Hangar::lost) only
   if the simulation destroyed it: not because its homecoming was read too late. *)
NoUnjustLoss ==
    \A p \in Pilots : bay[p] \in {"empty", "new"} =>
        \/ LastSuit(p) = NoSuit
        \/ life[LastSuit(p)] \in {"wreck", "destroyed"}

(* A suit the simulation destroyed isn't back in the bay: Session::enter recovers a
   sleeper it couldn't wake only if no note says it was destroyed. *)
DestroyedStaysLost ==
    \A p \in Pilots : bay[p] = "docked" => life[LastSuit(p)] \notin {"wreck", "destroyed"}

(* Both, of a sector and a notes task nobody overtakes. *)
LossesAreJust == faults = {} => NoUnjustLoss /\ DestroyedStaysLost

(* What is in a slot's report ring is about the pilot whose session has the slot:
   Session::leave reads what the sector had left to say ("Nothing of it is for whoever
   has the slot next"). *)
ReportsAreOwn ==
    \A p \in Pilots : slot[p] # NoSlot =>
        \A i \in DOMAIN reports[slot[p]] : reports[slot[p]][i].of = p

(* By the time a session hands its lease back, the sector has let go of the slot: no
   suit is seated there and no wreck is on its way home to it. *)
FreeLeaseIsIdle ==
    \A i \in DOMAIN leases : ~client[leases[i]].active /\ claim[leases[i]] = NoPilot

(* So whoever has a slot next finds nothing of its last session there, on their side or on
   the sector's. *)
CleanHandOver == ReportsAreOwn /\ FreeLeaseIsIdle

(* A slot has one owner, the free list or one session, whatever times out: Session::run
   takes its lease, and every way out of Session::leave hands it back once. *)
OneOwner ==
    /\ \A i, j \in DOMAIN leases : leases[i] = leases[j] => i = j
    /\ \A p, q \in Pilots : slot[p] = slot[q] /\ slot[p] # NoSlot => p = q
    /\ \A p \in Pilots : \A i \in DOMAIN leases : slot[p] # leases[i]
    /\ \A s \in Slots : \/ \E i \in DOMAIN leases : leases[i] = s
                        \/ \E p \in Pilots : slot[p] = s

(* A session that stops waiting for its join knows whether it was seated: the epoch
   tells its join apart from an earlier one (SlotStatus, wait_slot). *)
AnswerIsOwn ==
    [][~Impatient /\ ~Torn =>
           \A p \in Pilots : pc[p] = "seating" /\ pc'[p] # "seating" =>
               (suit'[p] # NoSuit) = client[slot[p]].active]_vars

(* A session that leaves is gone in the end, and its slot handed back: the sector
   answers every Sleep and Tow, or leave stops waiting. *)
LeavingEnds ==
    \A p \in Pilots :
        pc[p] \in {"freeing", "towing", "awaitTow", "returning"} ~> pc[p] = "away"

-----------------------------------------------------------------------------
(* Where each pilot's suit is: in the bay, if the record says so; else wherever the
   sector has got to with it. *)
Where ==
    [p \in Pilots |->
        CASE bay[p] \in {"new", "docked"} -> bay[p]
          [] bay[p] = "empty" -> "none"
          [] OTHER ->
                LET l == life[LastSuit(p)]
                IN  CASE l \in {"queued", "unlaunched"} -> "leaving"
                      [] l \in {"cradle", "flying"} -> "flying"
                      [] l = "asleep" -> "asleep"
                      [] l \in {"wreck", "destroyed"} -> "lost"
                      [] OTHER -> "homeward"]

Suits == INSTANCE Sortie WITH where <- Where

(* The sector, the sessions and the records they save, with all that is in flight between
   them, implement Sortie: step by step a pilot's suit is in one place, comes back to the
   bay (Hangar::came_home, recover) only once it is out of the sector whole, and is
   written off (Hangar::lost) only once it was destroyed. *)
OnePlace == Suits!Spec
=============================================================================
