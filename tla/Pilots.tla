------------------------------- MODULE Pilots -------------------------------
(***************************************************************************)
(* One pilot's place on the server (crates/bc-server/src/pilots.rs): which *)
(* session holds them (claim, release), their record in the store, and     *)
(* what the sector says of the suit they left in a hide spot while they    *)
(* were away (apply_park_news).  Pilots share nothing but locks, so one is *)
(* enough.                                                                 *)
(*                                                                         *)
(* A step ends where the code lets go of a lock or awaits.  `claim` looks  *)
(* for a session to take over and puts its own in its place under two      *)
(* locks; a news task reads and writes the record in the store, and looks  *)
(* twice whether a session has it.                                         *)
(*                                                                         *)
(* Of the record the model keeps the suit asleep (sleeper), the tick of    *)
(* what is known of it (parked; 0: not in a hide spot, or gone), and the   *)
(* session that wrote it (by).                                             *)
(***************************************************************************)
EXTENDS Integers, FiniteSets

CONSTANTS
    Sessions,    \* the pilot's sessions, each once, in any order
    NoSession,
    MaxHits,     \* bound: hits a sleeping suit takes...
    HurriedHits, \* ...and in a behaviour with hurries
    Hurries      \* the sets of hurries a behaviour may be in, of "split", "overdue", "swift"

ASSUME ConstantsAssumption ==
    /\ NoSession \notin Sessions
    /\ MaxHits \in Nat /\ HurriedHits \in 0..MaxHits
    /\ Hurries \subseteq SUBSET {"split", "overdue", "swift"}

VARIABLES
    pc,       \* where each session stands
    kicked,   \* sessions told (or their Online dropped) that another took over
    waits,    \* whose Notify a claiming session waits on
    permits,  \* sessions whose Notify holds a permit (notify_one)
    carried,  \* pending news a claim took from a session it forgot
    mine,     \* the record as each session has it
    online,   \* Pilots::online: the session that holds the pilot
    pending,  \* its Online::pending
    store,    \* the record in the PilotStore
    asleep,   \* the sector: the suit asleep in a hide spot (0: none)
    tick,     \*   and the tick of its last hit (or of its falling asleep)
    suits,    \* suits that have slept so far
    waiting,  \* news whose task waits for park_lock
    task,     \* the news task that holds park_lock
    hurry     \* how the behaviour's tasks may overtake each other, from first to last

session == <<pc, kicked, waits, permits, carried, mine>>
sector == <<asleep, tick, suits>>
vars == <<session, online, pending, store, sector, waiting, task, hurry>>

(* A claim's look and its insert are two steps (two locks); a session may be waited for
   longer than TAKEOVER_WAIT; a session may come and go, or save, while a news task has
   the record in hand. *)
SplitClaim == "split" \in hurry
Overdue == "overdue" \in hurry
Swift == "swift" \in hurry

NoSuit == 0
Record(suit, parked, by) == [sleeper |-> suit, parked |-> parked, by |-> by]
Gone(suit) == [suit |-> suit, tick |-> 0]
Hit(suit, t) == [suit |-> suit, tick |-> t]
NoTask == [at |-> "none", news |-> Gone(NoSuit), record |-> Record(NoSuit, 0, NoSession)]

(* The pilot is away, their suit asleep in a hide spot. *)
Init ==
    /\ pc = [c \in Sessions |-> "off"]
    /\ kicked = {} /\ permits = {}
    /\ waits = [c \in Sessions |-> NoSession]
    /\ carried = [c \in Sessions |-> {}]
    /\ mine = [c \in Sessions |-> Record(NoSuit, 0, NoSession)]
    /\ online = NoSession /\ pending = {}
    /\ asleep = 1 /\ tick = 1 /\ suits = 1
    /\ store = Record(1, 1, NoSession)
    /\ waiting = {} /\ task = NoTask
    /\ hurry \in Hurries

To(c, place) == pc' = [pc EXCEPT ![c] = place]

-----------------------------------------------------------------------------
(* Pilots::claim. *)

M_InsertedSilently(c) ==
    /\ online' = c
    /\ pending' = carried[c]
    /\ UNCHANGED kicked
    /\ To(c, "claimed")
Inserted(c) ==
    /\ online' = c
    /\ pending' = carried[c]
    \* The Online it replaces, if there is one, is dropped: its kick fires.
    /\ kicked' = IF online # NoSession THEN kicked \cup {online} ELSE kicked
    /\ To(c, "claimed")

(* A Hello comes in, and the session looks for one to take over: it kicks it and
   waits for it to go. *)
M_LookUnkicked(c) ==
    /\ pc[c] \in {"off", "again"} /\ online # NoSession
    /\ waits' = [waits EXCEPT ![c] = online]
    /\ To(c, "waiting")
    /\ UNCHANGED <<kicked, permits, carried, mine, online, pending, store, sector, waiting, task>>
M_LookUnwaited(c) ==
    /\ pc[c] \in {"off", "again"} /\ online # NoSession
    /\ Inserted(c)
    /\ UNCHANGED <<waits, permits, carried, mine, store, sector, waiting, task>>
Look(c) ==
    /\ pc[c] \in {"off", "again"} /\ online # NoSession
    /\ kicked' = kicked \cup {online}
    /\ waits' = [waits EXCEPT ![c] = online]
    /\ To(c, "waiting")
    /\ UNCHANGED <<permits, carried, mine, online, pending, store, sector, waiting, task>>

(* There is none: the session is the pilot's, unless another gets in first. *)
LookNone(c) ==
    /\ pc[c] \in {"off", "again"} /\ online = NoSession
    /\ IF SplitClaim THEN To(c, "inserting") /\ UNCHANGED <<online, pending, kicked>>
       ELSE Inserted(c)
    /\ UNCHANGED <<waits, permits, carried, mine, store, sector, waiting, task>>

Insert(c) ==
    /\ pc[c] = "inserting" /\ Inserted(c)
    /\ UNCHANGED <<waits, permits, carried, mine, store, sector, waiting, task>>

(* The session it waited for is gone (Notify::notify_one wakes one waiter). *)
Notified(c) ==
    /\ pc[c] = "waiting" /\ waits[c] \in permits
    /\ permits' = permits \ {waits[c]}
    /\ To(c, "again")
    /\ UNCHANGED <<kicked, waits, carried, mine, online, pending, store, sector, waiting, task>>

(* It didn't go in time, or another waiter was woken: whoever holds the pilot by then
   is forgotten. *)
TimedOut(c) ==
    /\ pc[c] = "waiting" /\ waits[c] \notin permits
    /\ Overdue \/ pc[waits[c]] = "done"
    /\ carried' = [carried EXCEPT ![c] = @ \cup pending]
    /\ kicked' = IF online # NoSession THEN kicked \cup {online} ELSE kicked
    /\ online' = NoSession /\ pending' = {}
    /\ To(c, "again")
    /\ UNCHANGED <<waits, permits, mine, store, sector, waiting, task>>

-----------------------------------------------------------------------------
(* A session, with the pilot's record in hand. *)

(* Unless Swift, a session outlasts a news task's read of the store (one that starts
   after the task's first look is still there at its second), and no session saves while
   a news task does. *)
Unhurried(at) == Swift \/ task.at # at

(* Session::run reads the record... *)
Load(c) ==
    /\ pc[c] = "claimed"
    /\ mine' = [mine EXCEPT ![c] = store]
    /\ To(c, "loaded")
    /\ UNCHANGED <<kicked, waits, permits, carried, online, pending, store, sector, waiting, task>>

(* ...wakes the suit asleep there, if it's still there, and saves a record that no
   longer has it. *)
Enter(c) ==
    /\ pc[c] = "loaded" /\ Unhurried("saving")
    /\ mine' = [mine EXCEPT ![c] = Record(NoSuit, 0, c)]
    /\ store' = Record(NoSuit, 0, c)
    /\ asleep' = IF asleep = mine[c].sleeper THEN NoSuit ELSE asleep
    /\ To(c, "play")
    /\ UNCHANGED <<kicked, waits, permits, carried, online, pending, tick, suits, waiting, task>>

(* Session::leave: the suit sleeps in a hide spot (or it has none that does)... *)
Leave(c) ==
    /\ pc[c] = "play"
    /\ \/ /\ asleep = NoSuit /\ suits < Cardinality(Sessions) + 1
          /\ asleep' = suits + 1 /\ suits' = suits + 1 /\ tick' = 1
          /\ mine' = [mine EXCEPT ![c] = Record(suits + 1, 1, c)]
       \/ UNCHANGED <<sector, mine>>
    /\ To(c, "leaving")
    /\ UNCHANGED <<kicked, waits, permits, carried, online, pending, store, waiting, task>>

(* ...and the record says so. *)
Save(c) ==
    /\ pc[c] = "leaving" /\ Unhurried("saving")
    /\ store' = mine[c]
    /\ To(c, "saved")
    /\ UNCHANGED <<kicked, waits, permits, carried, mine, online, pending, sector, waiting, task>>

(* Pilots::release: the pilot is free (if the session still holds them), whoever waits
   hears of it, and the news that came meanwhile is applied. *)
M_ReleaseKeepsNews(c) ==
    /\ pc[c] = "saved" /\ Unhurried("loaded")
    /\ IF online = c
       THEN /\ online' = NoSession
            /\ permits' = permits \cup {c}
            /\ waiting' = waiting \cup pending
       ELSE UNCHANGED <<online, permits, waiting>>
    /\ To(c, "done")
    /\ UNCHANGED <<kicked, waits, carried, mine, pending, store, sector, task>>
M_ReleaseDropsNews(c) ==
    /\ pc[c] = "saved" /\ Unhurried("loaded")
    /\ IF online = c
       THEN online' = NoSession /\ pending' = {} /\ permits' = permits \cup {c}
       ELSE UNCHANGED <<online, pending, permits>>
    /\ To(c, "done")
    /\ UNCHANGED <<kicked, waits, carried, mine, store, sector, waiting, task>>
Release(c) ==
    /\ pc[c] = "saved" /\ Unhurried("loaded")
    /\ IF online = c
       THEN /\ online' = NoSession /\ pending' = {}
            /\ permits' = permits \cup {c}
            /\ waiting' = waiting \cup pending
       ELSE UNCHANGED <<online, pending, permits, waiting>>
    /\ To(c, "done")
    /\ UNCHANGED <<kicked, waits, carried, mine, store, sector, task>>

-----------------------------------------------------------------------------
(* The sector's news of the suit in its hide spot, each a task (park_news). *)

Struck ==
    /\ asleep # NoSuit /\ tick <= IF hurry = {} THEN MaxHits ELSE HurriedHits
    /\ tick' = tick + 1
    /\ waiting' = waiting \cup {Hit(asleep, tick + 1)}
    /\ UNCHANGED <<session, online, pending, store, asleep, suits, task>>

Destroyed ==
    /\ asleep # NoSuit
    /\ asleep' = NoSuit
    /\ waiting' = waiting \cup {Gone(asleep)}
    /\ UNCHANGED <<session, online, pending, store, tick, suits, task>>

(* Pilots::apply_park_news, first under park_lock: unless a session has the pilot... *)
Apply(n) ==
    /\ task = NoTask /\ n \in waiting
    /\ waiting' = waiting \ {n}
    /\ IF online # NoSession
       THEN pending' = pending \cup {n} /\ UNCHANGED task
       ELSE task' = [NoTask EXCEPT !.at = "checked", !.news = n] /\ UNCHANGED pending
    /\ UNCHANGED <<session, online, store, sector>>

(* ...the record is read; nothing is done if its suit isn't that one, or it already
   has something newer... *)
Newer(n, r) == n.tick = 0 \/ n.tick > r.parked
ApplyLoad ==
    /\ task.at = "checked"
    /\ task' = LET n == task.news
               IN  IF store.sleeper = n.suit /\ store.parked # 0 /\ Newer(n, store)
                   THEN [at |-> "loaded", news |-> n, record |-> [store EXCEPT !.parked = n.tick]]
                   ELSE NoTask
    /\ UNCHANGED <<session, online, pending, store, sector, waiting>>

(* ...a session that started meanwhile has the record now... *)
M_ApplyUnchecked ==
    /\ task.at = "loaded"
    /\ task' = [task EXCEPT !.at = "saving"]
    /\ UNCHANGED <<session, online, pending, store, sector, waiting>>
ApplyCheck ==
    /\ task.at = "loaded"
    /\ IF online # NoSession
       THEN pending' = pending \cup {task.news} /\ task' = NoTask
       ELSE task' = [task EXCEPT !.at = "saving"] /\ UNCHANGED pending
    /\ UNCHANGED <<session, online, store, sector, waiting>>

(* ...and it's saved. *)
ApplySave ==
    /\ task.at = "saving"
    /\ store' = task.record
    /\ task' = NoTask
    /\ UNCHANGED <<session, online, pending, sector, waiting>>

News == (Struck \/ Destroyed) /\ UNCHANGED hurry
ParkTask ==
    /\ (\E n \in waiting : Apply(n)) \/ ApplyLoad \/ ApplyCheck \/ ApplySave
    /\ UNCHANGED hurry
Claim(c) ==
    /\ Look(c) \/ LookNone(c) \/ Insert(c) \/ Notified(c) \/ TimedOut(c)
    /\ UNCHANGED hurry
Hold(c) ==
    /\ Load(c) \/ Enter(c) \/ Save(c) \/ Release(c)
    /\ UNCHANGED hurry
Go(c) == Leave(c) /\ UNCHANGED hurry

Next == News \/ ParkTask \/ \E c \in Sessions : Claim(c) \/ Hold(c) \/ Go(c)

(* Tasks that can run are run; a pilot needn't leave till another session kicks theirs. *)
Fairness ==
    /\ WF_vars(ParkTask)
    /\ \A c \in Sessions :
          WF_vars(Claim(c)) /\ WF_vars(Hold(c)) /\ WF_vars(c \in kicked /\ Go(c))

Spec == Init /\ [][Next]_vars /\ Fairness

-----------------------------------------------------------------------------
Records == [sleeper : Nat, parked : 0..MaxHits + 1, by : Sessions \cup {NoSession}]

(* The state's shape; and news waits only with a session that holds the pilot. *)
TypeOK ==
    /\ kicked \subseteq Sessions /\ permits \subseteq Sessions
    /\ waits \in [Sessions -> Sessions \cup {NoSession}]
    /\ mine \in [Sessions -> Records] /\ store \in Records
    /\ online \in Sessions \cup {NoSession}
    /\ pending # {} => online # NoSession

(* The session has the record in hand: read, and not yet saved for the last time. *)
Holds(c) == pc[c] \in {"loaded", "play", "leaving"}

(* A pilot flies in one place at a time (net/game.rs, session): no two sessions have
   their record in hand at once, each to save over what the other did. *)
OneSession == hurry = {} => \A c, d \in Sessions : Holds(c) /\ Holds(d) => c = d

(* Whoever loses the pilot, taken over in time, given up on or overtaken between a
   claim's look and its insert, is told: their kick fires, or is dropped with their Online. *)
LoserIsTold ==
    \A c \in Sessions : (Holds(c) \/ pc[c] = "claimed") /\ online # c => c \in kicked

(* So two sessions that have the same pilot don't go on having them. *)
OneInTheEnd ==
    \A c, d \in Sessions :
        c # d => (Holds(c) /\ Holds(d) ~> ~(Holds(c) /\ Holds(d)))

(* Everything said has been heard: nothing waits, and nobody holds the pilot. *)
Settled ==
    /\ waiting = {} /\ task = NoTask /\ online = NoSession
    /\ \A c \in Sessions : pc[c] \in {"off", "done"}

(* Once all is settled the record is right about the suit it has in a hide spot, whatever
   order the session's saves and the sector's news went in: one gone isn't put back by
   the next server run, one hit is put back as it is now (apply_park_news). *)
RecordIsCurrent ==
    hurry = {} /\ Settled => IF asleep = NoSuit THEN store.parked = 0
               ELSE store.sleeper = asleep /\ store.parked = tick

(* A news task writes back the record it read: never an older one over what a session
   has saved since ("A session that started meanwhile has the record now"). *)
NoLostUpdate ==
    [][hurry = {} /\ task.at = "saving" /\ task' = NoTask => task.record.by = store.by]_vars

(* A session that asks for the pilot has them in the end, and goes when it's kicked. *)
ClaimEnds ==
    \A c \in Sessions : pc[c] = "waiting" ~> pc[c] \in {"claimed", "loaded", "play"}
=============================================================================
