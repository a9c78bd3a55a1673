----------------------------- MODULE Replication -----------------------------
(***************************************************************************)
(* What one client is told of its sector, over datagrams that are lost and *)
(* overtake each other: the sector's ClientState and the datagrams it      *)
(* builds (crates/bc-sector/src/clients.rs, replicate.rs), the acks the    *)
(* client's input packets carry, and what the client makes of it all       *)
(* (crates/bc-client-core/src/lib.rs, baselines.rs, world.rs).             *)
(*                                                                         *)
(* A datagram may carry news of three kinds, each kept up to date by the   *)
(* same acks and nothing else: another suit (its record, whole or a delta  *)
(* against one the client acked, and a notice when it leaves the client's  *)
(* sensors), a chunk of salvage (its version, or that it's gone), and the  *)
(* sector's events.  A behaviour has one of them about (subject).  Rocks   *)
(* go as chunks do, but never go away.  Tick numbers stand for what a      *)
(* suit's record says.  The packets that carry the acks carry the pilot's  *)
(* commands too (Inputs), which a behaviour may have instead.              *)
(***************************************************************************)
EXTENDS Ack, Inputs, Sequences, SequencesExt, FiniteSets, FiniteSetsExt

CONSTANTS
    SentRing,     \* SENT_RING: datagrams remembered for their acks
    Kept,         \* KEPT: a suit's records the client keeps
    LeaveQueue,   \* LEAVE_QUEUE
    EventMaxAge,  \* EVENT_MAX_AGE, ticks
    StaleTicks,   \* STALE_TICKS: a track unheard of for longer is forgotten
    Subjects,     \* of "suit", "chunk", "events", "commands"
    Starts,       \* numbers of the first datagram: 0, or others, after a quiet time
    MaxTicks,     \* bound: the last tick, for each subject (the first is 1)
    LastParts,    \* bound: the last tick with a further datagram
    MaxVersion,   \* bound: versions of the chunk
    MaxEvents,    \* bound: events
    MaxFlight,    \* bounds: datagrams and acks in flight, for each subject
    MaxAcks,
    MaxSeats,     \* bound: seats
    MaxLead       \* bound: ticks the client's clock is ahead of the sector

ASSUME ReplicationAssumption ==
    /\ {SentRing, Kept, LeaveQueue, StaleTicks, MaxVersion} \subseteq Nat \ {0}
    /\ Subjects \subseteq {"suit", "chunk", "events", "commands"}
    /\ Starts \subseteq Nat /\ {MaxTicks, MaxFlight, MaxAcks} \subseteq [Subjects -> Nat]
    /\ {EventMaxAge, LastParts, MaxEvents, MaxSeats, MaxLead} \subseteq Nat

VARIABLES
    subject,  \* what there is to tell of
    tick,     \* the sector's
    sight,    \* whether the suit is in the client's sensors
    place,    \* where the chunk is: "near", at the "edge" of the range, "far" (or no more)
    version,  \* the chunk's
    events,   \* the sector's events: the tick of each
    seated,   \* "flying", "docked" (the client hasn't heard) or "home"
    seats,    \* how many so far
    srv,      \* ClientState
    jitter,   \*   its buffer of commands
    down,     \* datagrams in flight
    up,       \* acks in flight
    win,      \* the client: its AckWindow
    kept,     \*   the ticks of the suit's records it keeps (Baselines), oldest first
    track,    \*   the tick of its newest record of the suit (0: it knows none)
    chunk,    \*   the version it has of the chunk
    made,     \*   the commands it has made (InputHistory)
    next_cmd, \*   the tick of its next one
    taken,    \* history: datagrams the client took since it last started over, of which seat
    named,    \*   those of them an ack named before the server was done with them
    heard,    \*   events the client heard
    spilled,  \*   a leave notice found the queue full
    once,     \*   commands input packets carried,
    twice,    \*   and more than one of them
    came,     \*   commands that came in time, since the seat
    missed    \*   those of them not there for their tick

world == <<subject, sight, place, version, events>>
client == <<win, kept, track, chunk>>
commands == <<jitter, made, next_cmd, once, twice, came, missed>>
history == <<taken, named, heard, spilled>>
vars == <<world, tick, seated, seats, srv, down, up, client, commands, history>>

NONE == 0          \* the client holds nothing of the chunk
Nothing == -1      \* a datagram says nothing of the chunk
Blank == [n |-> 0, done |-> 0, leaves |-> 0, obj |-> Nothing, ents |-> {}]

(* ClientState::seat: a new seat counts on a new stream, from 0, with everything reset. *)
Seated(epoch, next_event) ==
    [stream |-> epoch, seq |-> 0, floor |-> 0, sent |-> [k \in 0 .. SentRing - 1 |-> Blank],
     leaves |-> <<>>, known |-> FALSE, acked |-> NONE, sends |-> 0,
     base |-> [has |-> FALSE, nth |-> 0, tick |-> 0], event_acked |-> next_event,
     retired |-> {}, joined |-> next_event]  \* history: datagrams retired, events before the seat

(* The client has just been seated; or has been for a while, with nothing about, and
   has taken and acked the last datagram. *)
Init ==
    /\ subject \in Subjects
    /\ tick = 1
    /\ \E s \in Starts :
          /\ srv = [Seated(1, 0) EXCEPT !.seq = s, !.floor = s]
          /\ win = IF s = 0 THEN NoWindow
                   ELSE [stream |-> 1, newest |-> s - 1, mask |-> {0}, tick |-> 1, any |-> TRUE]
    /\ sight = FALSE /\ place = "far" /\ version = 1 /\ events = <<>>
    /\ seated = "flying" /\ seats = 1
    /\ down = {} /\ up = {}
    /\ kept = <<>> /\ track = 0 /\ chunk = NONE
    /\ taken = {} /\ named = {} /\ heard = {} /\ spilled = FALSE
    /\ jitter = Empty /\ made = {} /\ next_cmd = 0
    /\ once = {} /\ twice = {} /\ came = {} /\ missed = {}

-----------------------------------------------------------------------------
(* The sector: a tick, and what it sends the client of it. *)

wants(p, has) == p = "near" \/ (p = "edge" /\ has)

(* object_candidates: what to say of the chunk at place p, in version v. *)
object_candidates(p, v) ==
    LET has == srv.acked # NONE
    IN  IF wants(p, has) THEN IF srv.acked = v THEN Nothing ELSE v
        ELSE IF has THEN NONE ELSE Nothing

(* ClientState::baseline: the tick of the record the suit's next can be a delta against
   (0: there is none, and the record goes whole). *)
M_BaselineUnacked(s, t) ==
    Max({0} \cup UNION {{e.tick : e \in s.sent[k].ents} : k \in DOMAIN s.sent})
baseline(s, t) ==
    IF s.base.has /\ s.sends - s.base.nth < Kept /\ t > s.base.tick THEN s.base.tick ELSE 0

(* The known set first: a suit that has left the client's sensors is to be forgotten. *)
Noticed(s, seen, t) ==
    IF seen \/ ~s.known THEN s
    ELSE [s EXCEPT !.known = FALSE,
                   !.leaves = IF Len(@) < LeaveQueue THEN Append(@, t) ELSE @]

(* note_sent, and the suit is known. *)
WroteSuit(s) == [s EXCEPT !.sends = @ + 1, !.known = TRUE]

(* The events to send: from the oldest not known to be heard, but for those too old. *)
Pending(s, evs, t) == {e \in s.event_acked + 1 .. Len(evs) : t - evs[e] <= EventMaxAge}

(* A datagram and its record, as build_snapshot and build_more write them; its full number,
   n, and how many of the suit's records went before, nth, aren't on the wire. *)
Datagram(s, t, more, leaves, evs, suit, obj) ==
    [stream |-> s.stream, seq |-> s.seq % Modulus, n |-> s.seq, tick |-> t, more |-> more,
     leaves |-> leaves, events |-> evs, suit |-> suit, nth |-> s.sends,
     base |-> IF suit THEN baseline(s, t) ELSE 0, obj |-> obj]
Sent(s, d, done) ==
    LET rec == [n |-> s.seq, done |-> done, leaves |-> Len(d.leaves), obj |-> d.obj,
                ents |-> IF d.suit THEN {[nth |-> s.sends, tick |-> d.tick]} ELSE {}]
        noted == IF d.suit THEN WroteSuit(s) ELSE s
    IN  [noted EXCEPT !.seq = @ + 1, !.sent[s.seq % SentRing] = rec]

(* Events that didn't fit end what is done with: the next snapshot starts there. *)
M_DoneRegardless(unfit, evs) == Len(evs)
DoneWith(unfit, evs) == IF unfit = {} THEN Len(evs) ELSE Min(unfit) - 1

(* build_snapshot: the tick's first datagram, with the leave notices and events that fit
   (k of them, all but unfit), the suit if it's its turn, and the chunk if there's room. *)
build_snapshot(s, t, evs, k, unfit, suit, obj) ==
    Datagram(s, t, FALSE, SubSeq(s.leaves, 1, k), Pending(s, evs, t) \ unfit, suit, obj)

(* build_more: a further one, with the suit if it wasn't in the first. *)
build_more(s, t) == Datagram(s, t, TRUE, <<>>, {}, TRUE, Nothing)

(* What the sector's step changes of what there is to tell. *)
Step(t) ==
    /\ UNCHANGED subject
    /\ \/ subject = "suit" /\ sight' \in BOOLEAN /\ UNCHANGED <<place, version, events>>
       \/ /\ subject = "chunk" /\ place' \in {"near", "edge", "far"}
          /\ version' \in {version, version + 1} /\ version' <= MaxVersion
          /\ UNCHANGED <<sight, events>>
       \/ /\ subject = "events"
          /\ events' \in {events, Append(events, t)} /\ Len(events') <= MaxEvents
          /\ UNCHANGED <<sight, place, version>>
       \/ subject = "commands" /\ UNCHANGED <<sight, place, version, events>>

(* Sector::apply_inputs: the command for the tick, or a stand-in. *)
apply_inputs(t) ==
    /\ jitter' = take(jitter, t)
    /\ missed' = IF t \in came /\ ~held(jitter, t) THEN missed \cup {t} ELSE missed
    /\ UNCHANGED <<made, next_cmd, once, twice, came>>

(* The sector's tick: commands, step, Sector::replicate; of what it sends some is lost, in a
   full output ring or on its way. *)
Tick ==
    LET t == tick + 1 IN
    /\ seated = "flying" /\ tick < MaxTicks[subject]
    /\ tick' = t
    /\ apply_inputs(t)
    /\ Step(t)
    /\ LET s == Noticed(srv, sight', t)
           candidate == object_candidates(place', version')
       IN  \E k \in 0 .. Len(s.leaves), unfit \in SUBSET Pending(s, events', t),
              turn \in IF sight' THEN {"first", "more", "no"} ELSE {"no"},
              obj \in {candidate, Nothing} :
              /\ turn = "more" => t <= LastParts
              /\ LET d == build_snapshot(s, t, events', k, unfit, turn = "first", obj)
                     s1 == Sent(s, d, DoneWith(unfit, events'))
                     m == build_more(s1, t)
                     out == IF turn = "more" THEN {d, m} ELSE {d}
                 IN  /\ srv' = IF turn = "more" THEN Sent(s1, m, 0) ELSE s1
                     /\ \E arriving \in SUBSET out : down' = down \cup arriving
    /\ spilled' = (spilled \/ (srv.known /\ ~sight' /\ Len(srv.leaves) = LeaveQueue))
    /\ Cardinality(down') <= MaxFlight[subject]
    /\ UNCHANGED <<seated, seats, up, client, taken, named, heard>>

-----------------------------------------------------------------------------
(* The client. *)

(* Baselines::put: the newest Kept are kept. *)
M_PutAll(k, t) == Append(k, t)
Put(k, t) == IF Len(k) < Kept THEN Append(k, t) ELSE Append(Tail(k), t)

(* A datagram is taken whole or not at all: a delta needs the record it's against, and the
   first of a stream has none. *)
Decodes(d, verdict) ==
    d.base # 0 => verdict.is # "new" /\ d.base \in Range(kept)

(* World::apply: the suit's record, then the notices of its leaving (not if something
   newer is known), then the tracks unheard of for long; and apply_more, the record alone. *)
apply(d) ==
    LET with == IF d.suit THEN d.tick ELSE track
        left == \E k \in DOMAIN d.leaves : with <= d.leaves[k]
    IN  IF d.more THEN with
        ELSE IF left \/ d.tick - with > StaleTicks THEN 0
        ELSE with

(* A number of the present seat's stream is read right: see InReach.  The first of a stream
   is, while the count hasn't gone round. *)
InTime(d) ==
    seated = "flying" /\ d.stream = srv.stream =>
        IF win.stream = d.stream THEN InReach(d.n, win.newest) ELSE d.n < Modulus

(* Client::on_datagram. *)
Deliver(d) ==
    LET verdict == check(win, d) IN
    /\ d \in down /\ InTime(d)
    /\ down' = down \ {d}
    /\ IF verdict = Stale \/ ~Decodes(d, verdict)
       THEN UNCHANGED <<client, taken, heard>>
       ELSE /\ win' = commit(win, d, verdict)
            /\ kept' = LET before == IF verdict.is = "new" THEN <<>> ELSE kept
                       IN  IF d.suit THEN Put(before, d.tick) ELSE before
            /\ track' = apply(d)
            /\ chunk' = IF d.obj = Nothing THEN chunk ELSE d.obj
            /\ taken' = taken \cup {<<d.stream, d.n>>}
            /\ heard' = heard \cup d.events
    /\ UNCHANGED <<world, tick, seated, seats, srv, up, commands, named, spilled>>

(* An input packet goes, with its ack; the commands in it where they're the subject. *)
Packet(cmds) ==
    LET a == ack(win)
    IN  [stream |-> a.stream, seq |-> a.seq, bits |-> a.bits, n |-> win.newest, cmds |-> cmds]

poll_inputs ==
    /\ subject # "commands"
    /\ win.mask # {} /\ Cardinality(up) < MaxAcks[subject]
    /\ up' = up \cup {Packet({})}
    /\ up' # up
    /\ UNCHANGED <<world, tick, seated, seats, srv, down, client, commands, history>>

(* The client's clock is at tick `target`: the commands up to it are made, and go in packets
   that overlap. *)
poll_commands(target) ==
    LET first == resume(next_cmd, Max({0} \cup made), target)
        now == made \cup first .. target
        out == {packet(now, newest) : newest \in windows(first, target)}
    IN  /\ subject = "commands"
        /\ win.mask # {}
        /\ target >= first
        /\ made' = now /\ next_cmd' = target + 1
        /\ once' = once \cup UNION out
        /\ twice' = twice \cup (once \cap UNION out)
                    \cup UNION {x[1] \cap x[2] : x \in {y \in out \X out : y[1] # y[2]}}
        /\ \E arriving \in SUBSET out : up' = up \cup {Packet(cmds) : cmds \in arriving}
        /\ Cardinality(up') <= MaxAcks[subject]
        /\ UNCHANGED <<world, tick, seated, seats, srv, down, client, jitter, came, missed, history>>

-----------------------------------------------------------------------------
(* The sector hears of it: ClientState::on_ack. *)

Retires(s, n) == n >= s.floor /\ s.sent[n % SentRing].n = n

(* Records later than n's counted leave notices from the front of the queue, which k leave. *)
M_Unshifted(sent, n, k) == sent
Shifted(sent, n, k) ==
    [i \in DOMAIN sent |->
        IF sent[i].n > n THEN [sent[i] EXCEPT !.leaves = IF @ > k THEN @ - k ELSE 0]
        ELSE sent[i]]

(* ClientState::retire: what datagram n carried is the client's. *)
retire(s, n) ==
    LET rec == s.sent[n % SentRing]
        k == IF rec.leaves < Len(s.leaves) THEN rec.leaves ELSE Len(s.leaves)
        newer == {e \in rec.ents : ~s.base.has \/ e.nth > s.base.nth}
    IN  IF ~Retires(s, n) THEN s
        ELSE [s EXCEPT
                !.floor = n + 1, !.retired = @ \cup {n},
                !.event_acked = IF rec.done > @ THEN rec.done ELSE @,
                !.acked = IF rec.obj = Nothing THEN @ ELSE rec.obj,
                !.base = IF newer = {} THEN @
                         ELSE LET e == CHOOSE e \in newer : TRUE
                              IN  [has |-> TRUE, nth |-> e.nth, tick |-> e.tick],
                !.leaves = SubSeq(@, k + 1, Len(@)),
                !.sent = Shifted(@, n, k)]

(* The datagrams an ack names are retired, oldest first. *)
on_ack(a) ==
    LET newest == expand(a.seq, srv.seq - 1)
        older[k \in 0 .. AckBits] ==
            IF k = 0 THEN srv
            ELSE LET n == newest - 1 - (AckBits - k)
                 IN  IF AckBits - k \in a.bits /\ n >= 0 THEN retire(older[k - 1], n)
                     ELSE older[k - 1]
    IN  IF a.stream # srv.stream \/ srv.seq = 0 \/ newest >= srv.seq THEN srv
        ELSE retire(older[AckBits], newest)

(* Of those it really names, the ones it isn't too late for: no newer one has been acked,
   and their record is still there. *)
Timely(a) ==
    {<<a.stream, n>> : n \in {m \in {a.n} \cup {a.n - 1 - i : i \in a.bits} :
        a.stream = srv.stream /\ m >= srv.floor /\ srv.seq - m <= SentRing}}

(* Its commands, newest first. *)
Inserted(buf, cmds) ==
    LET newest == Max({0} \cup cmds)
        after[k \in 0 .. MaxCmds] ==
            IF k = 0 THEN buf
            ELSE IF newest - k + 1 \in cmds THEN insert(after[k - 1], newest - k + 1, tick + 1)
            ELSE after[k - 1]
    IN  after[MaxCmds]

(* Sector::drain_inputs, for one packet: one for a slot that isn't flying is dropped. *)
drain_inputs(a) ==
    /\ a \in up
    /\ a.stream = srv.stream => InReach(a.n, srv.seq - 1)
    /\ up' = up \ {a}
    /\ IF seated = "flying"
       THEN /\ jitter' = Inserted(jitter, a.cmds)
            /\ came' = came \cup {t \in a.cmds : tick < t /\ t < tick + Slots - 1}
            /\ srv' = on_ack(a) /\ named' = named \cup Timely(a)
       ELSE UNCHANGED <<jitter, came, srv, named>>
    /\ UNCHANGED <<world, tick, seated, seats, down, client, made, next_cmd, once, twice, missed,
                   taken, heard, spilled>>

-----------------------------------------------------------------------------
(* Leaving and coming back. *)

(* The suit docks, and its slot is inactive. *)
Dock ==
    /\ seated = "flying" /\ seats < MaxSeats
    /\ seated' = "docked"
    /\ UNCHANGED <<world, tick, seats, srv, down, up, client, commands, history>>

(* Client::left_the_sector: the control stream says so, and the client starts over. *)
left_the_sector ==
    /\ seated = "docked"
    /\ seated' = "home"
    /\ win' = NoWindow /\ kept' = <<>> /\ track' = 0 /\ chunk' = NONE
    /\ made' = {} /\ next_cmd' = 0 /\ once' = {} /\ twice' = {}
    /\ taken' = {} /\ named' = {}
    /\ UNCHANGED <<world, tick, seats, srv, down, up, jitter, came, missed, heard, spilled>>

(* And it's seated again. *)
Seat ==
    /\ seated = "home"
    /\ seated' = "flying" /\ seats' = seats + 1
    /\ srv' = Seated(next_epoch(srv.stream), Len(events))
    /\ jitter' = Empty /\ came' = {} /\ missed' = {}
    /\ UNCHANGED <<world, tick, down, up, client, made, next_cmd, once, twice, history>>

Next ==
    \/ Tick \/ poll_inputs \/ Dock \/ left_the_sector \/ Seat
    \/ \E d \in down : Deliver(d)
    \/ \E target \in 1 .. tick + MaxLead : poll_commands(target)
    \/ \E a \in up : drain_inputs(a)

Spec == Init /\ [][Next]_vars

-----------------------------------------------------------------------------
(* The state's shape, and the server's ring and queue within their sizes. *)
TypeOK ==
    /\ subject \in Subjects /\ place \in {"near", "edge", "far"} /\ version \in 1 .. MaxVersion
    /\ seated \in {"flying", "docked", "home"}
    /\ srv.stream \in 1 .. MaxEpoch /\ srv.floor <= srv.seq /\ Len(srv.leaves) <= LeaveQueue
    /\ srv.acked \in NONE .. MaxVersion /\ chunk \in NONE .. MaxVersion
    /\ \A k \in DOMAIN jitter : jitter[k] # NoCmd => jitter[k] % Slots = k
    /\ Len(kept) <= Kept /\ win.mask \subseteq 0 .. 2 * AckBits - 1

Retired == {<<srv.stream, n>> : n \in srv.retired}

(* What the server takes for acked the client took, on this seat's stream: no ack of an
   earlier seat, and none misread across the wrap of the 16-bit numbers, is believed
   (ack.rs: "so a count started again is never taken for the old one"). *)
AckedWasTaken == seated = "flying" => Retired \subseteq taken

(* Every datagram of the seat the client will take can be read: a delta in it is against a
   record the client still keeps ("so the client still holds it", ClientState::baseline). *)
DeltaDecodes ==
    seated = "flying" =>
        \A d \in down :
            LET verdict == check(win, d)
            IN  d.stream = srv.stream /\ InTime(d) /\ verdict # Stale => Decodes(d, verdict)

(* The client took nothing of another seat since it started over. *)
OneStream == \A x \in taken : x[1] = srv.stream

(* A suit the server no longer counts as known to the client, with no notice left to send,
   isn't on the client's screen (unless the queue of notices ran over). *)
SuitForgotten ==
    seated = "flying" /\ OneStream /\ ~spilled /\ ~srv.known /\ srv.leaves = <<>> => track = 0

(* An event done with was heard, or was too old to tell. *)
EventsHeard ==
    \A e \in srv.joined + 1 .. srv.event_acked : e \in heard \/ tick - events[e] > EventMaxAge

(* A command with half a packet made after it (two), in a row, has gone in two packets at
   least, however many were made at once (poll_inputs: "every command still travels twice"). *)
TravelsTwice ==
    \A t \in made : t .. t + MaxCmds \div 2 \subseteq made => t \in twice

(* A command that came in time is the one its tick is simulated with, whatever came since
   (jitter.rs: "the sector takes exactly the one for the tick it is simulating"). *)
CommandsRun == missed = {}

(* What the client should hold of the chunk. *)
Due == IF wants(place, srv.acked # NONE) THEN version ELSE NONE
NothingToSay == seated = "flying" /\ object_candidates(place, version) = Nothing

(* With every datagram the client took named in time by an ack that came, and nothing more
   to say of the chunk, the client has the chunk as it is, or none if it's gone: whatever was lost,
   late or overtaken ("salvage chunks kept in step with what each client has acked"). *)
InStep == NothingToSay /\ taken = named => chunk = Due

(* The same once the newest ack is heard and nothing is in flight, whatever acks were lost
   before it ("ones it has but no longer should": their Gone records go first). *)
InStepInTheEnd ==
    NothingToSay /\ down = {} /\ up = {} /\ win.newest + 1 = srv.floor => chunk = Due
=============================================================================
