# Before Colony: a verification of the server

Before Colony is a space MMO. Its server (Rust) runs one *sector* thread that ticks a
simulation 30 times a second without locks, and around it async tasks: one *session* per
connection, a few background tasks, and the shared services of the colony (pilots, exchange,
charter board, homes). These TLA+ modules model the parts of that server where two of them
meet, the markets and registers they share, the files those are kept in, and the datagrams
between the sector and a client.

## The system

| component | state it keeps | operations | talks to | what makes it correct |
|---|---|---|---|---|
| admission (`bc-server/net/admit.rs`, `endpoint.rs`) | open connections, handshakes, connections per address | admit, retry, refuse, `established`, `Pass::drop` | the accept loop; every session drops its pass | counters equal what they count; the limits hold |
| session (`net/session.rs`, `net/game.rs`) | its lease, suit, `lost`, `towing`; the pilot's hangar and record | enter, seat, launch, dock, eject, on_report, on_tick, leave | pushes `Control`; polls `SlotStatus`; pops `Report`s | no suit duplicated or lost unjustly; always gets away |
| queues (`bc-sector/queues.rs`) | free leases, control queue, slot status (four atomics), report rings, notes | push, pop, publish | sessions and the sector | bounded; an answer is told apart from an older one |
| sector (`bc-sector/sector.rs`) | clients by slot, tow claims | drain_control, watch_losses, run_tugs, pass_on_fates | the simulation; the queues | what a session must hear comes before its slot is free |
| simulation (`bc-sim`) | suits: cradle, flying, wreck, asleep | launch, sleep, wake, evict, destroy, eject, dock | the sector only | (physics: not modelled) |
| pilots (`bc-server/pilots.rs`) | who is online, suits' pilots, news, the record store | claim, release, tell, load, save, apply_park_news | sessions; the notes task; news tasks | one session per pilot; no save undoes another |
| exchange (`bc-econ/exchange.rs`, `market.rs`) | books, accounts, colony stock, fees | place, cancel, collect, tick, receive, issue | sessions, under one lock; the charter board | escrow covers; priority; nothing made or lost |
| charter board (`bc-econ/charter.rs`, `bc-server/charter.rs`) | contracts and their escrow, accounts, its desk, works, signatures | post, withdraw, deliver, take, drop_patrol, bounties, contribute, sign, tick, collect | sessions, under one lock; the exchange's colony stock | a reward is paid to the credit; a patrol pays for its holder's own; nothing made or lost |
| homes (`bc-econ/homes.rs`, `bc-server/homes.rs`) | leases and deeds, panels, locks, furniture, who is asleep | rent, buy, codes, crews, furnish, stash, sleep, tick | sessions, under one lock; the clock | lists and beds forget in step; grace is given; nothing made or lost |
| files (`charter.json`, `market.json`, `homes.json`, the records) | what a restart starts from | each service's save, the record's save | sessions and the clock, one write of a file at a time | what the record says was paid is somewhere; nothing is handed over twice |
| replication (`bc-sector/replicate.rs`, `clients.rs`, `bc-proto/ack.rs`, `bc-client-core`) | per client: what was sent and acked, notices, baselines; the client's window and tracks | build_snapshot, on_ack, on_datagram, poll_inputs | datagrams both ways | a delta's baseline is one the client has; the client ends up in step |
| inputs (`bc-sector/jitter.rs`, `bc-client-core/inputs.rs`) | a buffer of commands by tick | insert, take | input packets | a command that came in time runs in its tick |
| oracle worker (`bc-orrery/worker.rs`) | latest request and busy flag per pilot | request, answer | the sector, over two rings | one in flight; the latest is served |
| proving ground, plaza, floor, radio, auth, codec, client, bots, art, sound | | | | not modelled |

What is hard here: sessions and the sector share only queues and atomics, so each reads what the
other said some time ago; waits have deadlines, after which the other side goes on regardless; a
slot passes from one session to the next with messages about the last one still under way; a
pilot's record is held by sessions and by background tasks at once; and two sessions of the same
pilot may meet; the server may stop between the writes of two files that must agree; and all a
sector knows of a client is what lost and late acks say. `PROJECT.json` lists each such place
("hazards") with the properties for it.

## Modules

| module | models | checked by |
|---|---|---|
| `Admission` | admit.rs, the accept loop | `MCAdmission`; proved in `NetProofs` |
| `SlotLease` | session x sector x queues x notes, for a pilot's sorties | `MCSlotLease`; `OneOwner`, `TypeOK`, `AnswerIsOwn` and `CleanHandOver` proved in `SlotLeaseProofs`, `LossesAreJust` in `SlotFates` |
| `Pilots` | claim and release, the record, news of a hidden suit | `MCPilots`; its invariants and `NoLostUpdate` proved in `PilotsProofs` |
| `Exchange` | one item's market, with its traders' hangars | `MCExchange`; every property proved in `ExchangeProofs` |
| `Sortie` | what a pilot may rely on of their suit: abstract, implemented by `SlotLease` | `OnePlace` of `MCSlotLease`; the step simulation proved in `SlotFates` |
| `Charter` | the Charter Board, with its pilots' hangars | `MCCharter`; every property proved in `CharterProofs` |
| `Homes` | the register of homes, with its pilots' hangars | `MCHomes`; every property proved in `HomesProofs` |
| `Desk` | the files: a session's saves, everyone else's, and a stop between any two | `MCDesk`; every property proved in `CharterProofs` |
| `Ack` | sequence numbers, streams and the client's ack window (operators, no state) | through `Replication`; `expand` proved in `NetProofs` |
| `Inputs` | the jitter buffer and the windows of commands in packets (operators, no state) | through `Replication`; both proved in `NetProofs` |
| `Replication` | one client and its sector over a link that loses and reorders; extends `Ack` and `Inputs` | `MCReplication`; every property of `lossy` proved in `NetProofs` |
| `Sums` | lemmas only: sums over finite sets (`SumFunctionOnSet`), least elements | used by the proofs of `Exchange`, `Charter`, `Homes`, `SlotLease` and `Replication` |

A definition whose name begins with `M_` is a variant of the definition after it with a mistake a
programmer might make. No specification uses them: they are there to see that a property notices.

### Admission

`open`, `handshakes` and `byAddress` are the counters; `at` says where each connection stands.
`Admit` is `Admission::admit` with its branches (`Full`, `ShareTaken`, `MustRetry`); a `Pass` is
dropped in three steps, `DropHandshake`, `DropOpen` and `DropAddress`, because `admit` holds its
lock over none of them but the last. Loopback is exempt from the share, as in the code.

### SlotLease

Grain: what the sector does to the simulation while it handles a message is one step, and its
visible writes (status stores, reports, notes) follow one at a time, in program order, from
`todo`. A session's step ends wherever the code awaits or reads what the sector may change.

- Sector: `HandleJoin`, `HandleSleep`, `HandleDock`, `HandleEject`, `HandleTow` (drain_control);
  `EndTick` is the rest of a tick (pass_on_fates, watch_losses, run_tugs), taken with one thing
  that happened in it (`Thrown`, `Struck`, `WreckCleared`, `SleeperStruck`, `TugsArrive`) or none
  (`QuietTick`).
- Session: `Connect`, `Launch`, `Ask`, `AwaitSeat`, `Enter`, `ReadReport`, `Dock`, `Eject`,
  `WreckGone`, `Refit`, `Leave`, `AwaitFree`, `AskTow`, `AwaitTow`, `Return`; `GiveUp...` are the
  waits that run out.
- The notes task: `Notes` (`process_notes`).

`life` and `owner` are what the properties compare the record with: what really became of each
suit. `faults`, chosen at the start of a behaviour from the constant `Faults`, is how hard the
environment is:

- `"torn"`: status is read and written one atomic at a time (else each publish and each poll is
  one step).
- `"split"`: a note is popped and told in two steps.
- `"impatient"`: waits may run out at any time.

`Ejects` lets pilots eject. Three guards state timing rather than code: `WreckCleared` waits until
the loss has been told and a patient session waiting for that very seat has seen it (a wreck
stands for `respawn_secs`, seconds; a session polls every 2 ms and the sector ticks every 33 ms),
and `NothingComes` lets a patient session's wait for a report run out only when none is under way
(3 s and 1 s against ticks of 33 ms). `"impatient"` turns the second off and the session's half of
the first.

`Sortie` is the same without sectors, slots and records: `where`, one place for each pilot's suit,
and the ways it may go from one to the next. `Where` is the refinement mapping: the bay if the
record says the suit is there, else wherever the simulation has got to with it. So `OnePlace`
compares, at each step, what a record is made to say with what really happened.

Left out: guests (whose `Leave` is `Sleep` without the sleep), arcade rules, the trainer, the
inside sector, aces' claims, suits put back at boot, and messages that change none of this (`Fed`,
`UseKit`, `Respawn`, `Course`, `Drill`).

### Pilots

One pilot. `claim` is `Look` or `LookNone`, `Insert`, `Notified`, `TimedOut`; a session then goes
through `Load`, `Enter`, `Leave`, `Save`, `Release`. News tasks are `Apply`, `ApplyLoad`,
`ApplyCheck`, `ApplySave` under `park_lock`. A record keeps the suit asleep, the tick of what is
known of it and the session that wrote it. `hurry`, chosen at the start from `Hurries`, holds any of
`"split"` (a claim's look and insert are two steps, as in the code), `"overdue"` (a session takes
longer than `TAKEOVER_WAIT` to go) and `"swift"` (a session comes and goes while a news task reads
the store, or saves while one does). `Unhurried` is the timing that `"swift"` drops: a news task's
read and its write of the store take milliseconds, a session longer.

### Exchange

One item; items share nothing but accounts. The market's lock makes every request atomic to other
sessions; an order is placed in several steps here, one per fill, so that the properties are
checked between fills too: `Place`, then `FillColony` and `FillMaker` while something crosses,
then `Placed` (the rest waits or is handed back, and the pilot collects). `taker` is the order in
hand, and nothing else happens while there is one. A guest's leaving is in steps too:
`GuestLeaves`, a `CancelNext` for each of their orders, then `Left`, which collects; `leaver` is
the guest, and nothing else happens until they have left. `Cancel`, `Collect`, `Settle` (tick),
`Receive` and `Issue` are the other requests. The colony's stock is a float in the code; the model
keeps its whole part, and its prices are two tables over it, constants of the model, instead of
the code's power curve, which depends on the fraction too. `Target = 0` is an item without a desk.
`gone` are guests who have left; their hangar stays in the model, out of use, so that it can be
counted. The 64-bit saturation of `worth` isn't modelled: `MAX_PRICE` and `MAX_QTY` keep clear of it.

### Charter

The Board behind its lock: a request (`apply_charter`) is one step with what it does to the hangar.
`Post` takes the reward into escrow, `Deliver` pays its share (`pay_for` after less `pay_for`
before), `Withdraw` and the clock's `Tick` close what is left (`Refund`), `Take`, `DropPatrol` and
`Flies` are a patrol's life, `Contribute` and `Sign` the great works and the vote, `Settle` collects
in the bay and at the desk. A contract's time runs out by itself (`Lapse`) and the Board finds out
on its next tick; in between it refuses deliveries, and a patrol nobody flies can still be taken, as
in the code. `flown` is the
model's own: what each pilot earned since they took the patrol they hold. There is one kind of
goods, and the works of an era are one.

### Homes

The register behind its lock, in hours. `Tick` charges the hours since the clock last ran (one,
or more after the server was down), `Hold` is the clock with the inside closed. `entered`,
`paid_to` and `excused` are the model's own: who has entered the present codes, the hour each
lease is paid to, and leases whose unpaid time ran while the clock was stopped or late, of which
`GraceGiven` says nothing (`hold` moves `charged_to` and leaves `unpaid_since`).

### Desk

What the other modules have in memory, in four files. A session's step changes memory and queues
its saves in `todo` in the code's order (`CertifyKeeps`, `BountyKeeps`, `HandOverKeeps`,
`PutInKeeps`); a save is two steps, what is written being read when the file's lock is had, and
`OtherWrites` (the clock, other sessions) may come between any two. `Unheard` is the `?` of a note
that can't be sent: the session leaves with the saves undone. `Crash` starts over from the files.
`mishaps` records what no order of writes can cover, and each property says which it allows for:
`"abrupt"` (stopped with a session's saves under way), `"unheard"`, and `"raced"` (another wrote the
Board or the register between a hand-over and the record's save, and then the server stopped).

### Ack, Inputs and Replication

`expand`, `check`, `commit` and `ack` are those of `ack.rs`, at any modulus; `insert` and `take`
those of `jitter.rs`. `Replication` is one client's `ClientState` (`srv`) and what the client keeps.
A tick (`Tick`) moves the world, runs the command of the tick and builds the datagrams
(`build_snapshot`, `build_more`), any of which may be lost; `Deliver` is `on_datagram`, for any
datagram in flight, in any order; `poll_inputs` and `poll_commands` send packets, `drain_inputs`
takes one (`on_ack`, then `retire` for each datagram named); `Dock`, `left_the_sector` and `Seat`
end a seat and begin the next. A behaviour has one subject (a suit, a chunk, the events or the
commands): they share acks and nothing else. Duplicated datagrams aren't modelled (QUIC drops them).
`InTime`, a guard of `Deliver`, and `InReach` in `drain_inputs` are what `expand` takes of the link:
a number arrives while it is within half the count (32768) of the newest one taken or sent, and the
first of a stream before the count has gone round. At a few datagrams a tick that is minutes. The
first datagram's number may be any of `Starts`, so that the count wraps early.

## Runs

| run | shows | instance |
|---|---|---|
| `admission` | counters exact, limits hold, with drops half done | 4 connections, 2 addresses, limits 3, 2, 1 |
| `sorties` | a slot's next holder finds nothing of its last (`CleanHandOver`); `Sortie` is implemented (`OnePlace`): no suit in two places, none written off unjustly, none back from destruction | 2 pilots, 2 slots, 2 launches, room for 1 suit and 1 sleeper |
| `ejecting` | ejecting and the tugs, with and without faults: losses are just, a join's answer is its own, a slot has one owner, leaving ends | 2 pilots, 1 slot, 2 launches (1 with faults) |
| `news` | one session, the record current, no lost update, claims end; hurried, the loser is told and goes | 2 sessions, 2 hits (0 hurried) |
| `takeover` | violated: two sessions wait for a third (below) | 3 sessions |
| `exchange` | escrow covers, no amount below 0, price and time priority, book uncrossed, order limit, guests leave nothing, credits and goods conserved | 2 traders, 2 prices, 4 orders, 2 resting per trader, a price for 2 units so that fills round; the colony's quotes, 1 to 3, tie with, beat and lose to theirs as its stock goes from 0 to 3 and over |
| `lossy` | only what was taken counts as acked, every delta can be read, suits are forgotten, events heard, chunks in step with the acks, commands go twice and run | numbers mod 8 from 6, a window of 1 bit, 3 to 5 ticks, 2 seats |
| `ghosts` | violated: a chunk whose acks were lost (below) | a chunk, 5 ticks, 1 seat |
| `charter` | rewards paid pro rata, credits and goods conserved, a patrol is its holder's, the era is signed | 2 pilots, 4 contracts, reward 3 for 2 goods |
| `desk` | nothing goes missing, nothing is handed over twice and no rifle is made, under the conditions above | 1 rifle, 1 good, 1 line of each kind, 1 stop |
| `unheard` | violated: a note that couldn't be sent (below) | the same |
| `homes` | credits and goods conserved, locks and beds current, grace given | 2 pilots, a flat and a house, 4 hours, 2 at once while down |

Bounds. Two pilots and one slot are what it takes for a slot to pass to a next holder; two slots
let an eviction hit a pilot who is coming back on another; two launches let one suit be flown
again or two exist at once. `EpochMod = 2` lets epochs wrap after two joins: one join is in
flight per slot, so two values are enough to tell them apart. A report ring of 2 is smaller than the
code's 8 and fills up. The control queue holds 2, so it is full in reachable states. Behaviours with
faults or hurries have fewer launches and hits (`MaxHasty`, `HurriedHits`): what is checked of them
is ownership and leaving, which need no second sortie. Three sessions are needed for `takeover`
(two waiters), two elsewhere. In `Exchange` three orders are what a partly filled order behind
another needs, with one more to trade against; quantities of 1 and 3 over a unit of 2 round in every
way. In `Replication` a window of one bit and a ring of three make an ack fall out of reach within
the ticks there are, and each subject has the ticks, datagrams and acks it needs for that
(`MaxTicks`, `MaxFlight`, `MaxAcks`); `MaxLead` lets the client's clock run far enough ahead for a
command to be refused. In `Charter` a reward of 3 for 2 goods rounds, and a works of 1 and two
signatures let the era begin. In `Homes` a grace of two hours of the four lets a lease run dry, be
paid again and lapse. In `Desk` one stop is enough to lose or double a thing; one line of each kind
lets the three be under way one after another.

`admission`, `sorties` and `exchange` use symmetry over connections, pilots or traders (no liveness
is checked there). `Pilots`, `Exchange`, `Charter`, `Homes` and `Replication` may stop (all sessions
done, all orders placed, all hours gone), so deadlock is off for them.

### What the runs found

- `takeover`: of two sessions waiting for a third to go, the one not notified times out and forgets
  the one that was, so that both have the pilot's record.
- `ghosts`: the sector says a chunk is gone only to a client that acked it. A client that took it
  and whose acks were lost until the window had moved on keeps a chunk that isn't there. Sending
  Gone for what was ever sent, acked or not, would do.
- `unheard`: `home_request` and `on_tick` tell the client before they save. If the client is gone the
  error skips the saves: what was put away is in no file until the clock's minute, and what the
  desk handed over is in two. Saving first, as `patrol_bounties`' callers do, would do.

The other properties leave four more interleavings out, each of which breaks them when let in:

- `AnswerIsOwn` assumes a status read whole. `wait_slot` reads state before epoch, `publish` writes epoch
  before state; after an earlier refusal on the slot, a join that was seated is read as refused.
- `LossesAreJust` assumes no faults. With `Faults = {{"split"}}` a session that comes back while the
  notes task has a sleeper's end popped and not told recovers a destroyed suit.
- `CleanHandOver` is checked without ejecting. A pilot who ejects and leaves before their session has
  read the loss, after the wreck is cleared, takes the slot's stale `Free` for the answer to their
  `Sleep`; the tow is reported to the slot's next holder.
- `NoLostUpdate` and `RecordIsCurrent` assume `hurry = {}`. With `"swift"` a session that saves between
  a news task's second look and its save has its own undone.

### Fairness

- SlotLease: weak fairness of the sector's writes, of its handling of messages and of quiet ticks
  (its thread ticks for ever), and of what a session does by itself (`Progress`: the async runtime polls
  every ready task). None of what pilots decide, nor of what befalls suits.
- Pilots: weak fairness of the news task and of a session's own steps; of `Leave` only once the
  session was kicked, since until then it's the pilot's choice.

The other modules state none: what would be live there (a client in step in the end, a lease that
lapses) depends on a link that delivers or a clock that ticks, and `InStep` says it as an invariant
of the states where nothing is left to send.

## Proofs

For every value of the constants (TLAPS). Each is proved from an inductive
invariant, which the module of its proofs states.

- **Admission** (`NetProofs`: `TypeCorrect`, `CountersAreExact`, `LimitsHold`). The limits aren't
  inductive alone: `admit` compares counters with limits, so `IInv` says what each counter counts
  (the connections whose pass still has that part), with finiteness of the sets counted; each
  action moves one connection in or out of one set and the counter by one (FiniteSetTheorems).
  Assumed: `LimitsAssumption` and finite sets of connections.
- **Ack** (`NetProofs`: `ExpandNearest`). `expand` read against a number within half a turn gives
  the number that was sent, at any modulus; the two numbers are in the same turn of the count or in
  neighbouring ones (`NextTurns`), and the code moves its candidate by the turn that brings it nearest.
- **Replication** (`NetProofs`). The invariants go up in storeys, each using those below it. `TypeInv`
  (`ReplicationTypes`) is the types, and the sizes of what has one. `StreamInv`: the numbers in flight
  are the low bits of what was counted, and a stream of 0 is none. `AckInv` (`NothingUntakenIsAcked`):
  of the seat's stream, numbers in flight are below the next to send, and what an ack or the client's
  window names was taken on that stream, its bits included; so `on_ack`, which expands an ack's number
  against the last sent, retires nothing else. `WinInv`: once the client has a datagram of the seat
  nothing late of another stream gets in, and what it took is no newer than its newest. On these stand
  one invariant for each kind of news. `HeardInv` (`EventsAreHeard`): a record in the ring marks
  events done only up to what its datagram told. `ChunkInv` (`ChunkIsInStep`): there is an account of
  what each datagram said of the chunk (`O`) by whose last word among those retired the sector goes,
  and among those taken the client. `SuitInv` (`SuitIsForgotten`): while the last notice waits nothing
  in flight shows the suit at a later tick, and nothing the client will take after the notice shows it
  at all. `KeptInv` (`DeltasDecode`) is the hard one: the sector lets a baseline go by how many
  records it has *sent* since, the client by how many it has *taken*. There is a numbering of ticks by
  records sent (`f`) by which what the client keeps is in order, a baseline in use is fewer than
  `Kept` before the record written against it, and the client still has it unless it keeps `Kept`
  later ones. `O` and `f` are in no state: the invariants say that one exists, and each step shows the
  next one. All above the types rests on `FreshStreams`: no datagram, ack or window is still of the
  stream the next seat will get. Streams are a count that goes round at `MAX_EPOCH` (63), so this says
  how long something may be in flight. `OneRoundIsFresh` proves it for as many seats as there are
  stream numbers, and `OneRoundIsTold` the five properties with it. Assumed: `AckAssumption`,
  `InputsAssumption` and `ReplicationAssumption`; the bounds on ticks, flight and versions are any
  numbers.
- **Inputs** (`NetProofs`: `InTimeIsRun`, `CommandsTravelTwice`). A command that came in time is in
  its slot and within the buffer's length of the tick to run (`CameInv`), and a packet's commands are
  within a packet of each other, so what shares its slot comes too early or too late to take it.
  Packets end half a packet apart, so every command but the newest is in two, also when the clock
  jumps and several packets go at once.
- **SlotLease** (`SlotLeaseProofs`: `SlotsHaveOneOwner`, `SlotsKeepShape`, `JoinsAnswerTheirOwn`,
  `SlotsHandOverClean`). `OneOwner` is inductive together with the
  types of `leases`, `slot` and `pc` and "a session has a slot iff it isn't away" (`LeaseInv`). Every
  action but `Connect` and `Return` keeps leases and slots (`SectorKeeps`, `SessionKeeps`); those two
  move a slot between the free list and a session. `TypeOK` is inductive with the types of what the
  sector has still to write (`Writes`: a status whole, or an atomic of one, a report, a note) and to
  hear (`TypeInv`). Both hold with every fault let in, so also where the other properties fail.
  `AnswerIsOwn` and `CleanHandOver` are proved of behaviours without `"impatient"` and `"torn"` (with
  `"split"` or not): `AnswerIsOwn` says so itself. `CleanHandOver` is proved where nobody ejects
  besides, since it fails if they do; that no suit is seated at a free slot is
  proved with ejecting too. Both rest on `CalmInv`: a slot's status shows who is seated at it,
  or the write that will is in `todo` (`StatusInv`); until a join is answered its epoch is
  new, and from the answer until its session sees it nothing is written (`SeatInv`, `JoinInv`); a
  `Dock` is its session's only one and unanswered, a late `Sleep` finds nobody (`MsgInv`); what is in
  a ring or on its way to it is for the pilot aboard (`OfInv`), a loss and an answer come once
  (`OnceInv`), a homecoming last (`FlightInv`), and before the slot is `Free` (`OrderInv`), which is
  why a session that sees `Free` and drains its ring leaves nothing behind. A handler changes
  many slots at once, so what it does to one is sorted into five effects (left
  alone, answered, vacated, wrecked, denied: `Effect`), and `SectorCalm` proves of any step made of these that it
  keeps `CalmInv`; `SessionCalm` does the same for the sessions (`SessionMoves`, `PilotFits`).
- **Where the suits are** (`SlotFates`: `LossesAreJustWithoutEjects`, `HomecomingsMakeLossesJust`,
  `SuitsAreInOnePlaceWithoutEjects`, `SuitsAreInOnePlace`). On top of `CalmInv`, an invariant of each
  pilot's last suit. `FateInv`: what the record, the session and the slot say of it, and are still to say,
  agree with what became of it; if it's out and not seated any more, it was destroyed, or its
  homecoming is on the way, or the slot says it's asleep. `Tidings`: a destroyed sleeper's news
  is in the record, in the notes or in `todo`, and nothing later unsays it (`NewsFits`). `ParkedInv`: who
  parked a suit and has not entered yet is told nothing any more. `LossesAreJust` follows from the three
  (`FatesAreJust`). The refinement goes step by step: each action leaves `Where` as it is or
  makes a move of `Sortie`'s (`WhereIs`, `WhereFits`). Where nobody ejects neither has a hypothesis
  but the faults the property excludes. Where pilots eject they are proved of behaviours in which a homecoming
  finds room in its ring (`HomeFits`): one that found none would be dropped, and the pilot
  would write off a suit that is in the hangar.
- **Pilots** (`PilotsProofs`). `LosersAreTold` needs no timing: every hurry may be let in.
  `PilotKeepsShape` is the types, likewise. `OneAtATime`, `RecordStaysCurrent` and `NewsUndoesNothing`
  assume that nothing is hurried, as the properties do, and that no two sessions ever wait for the
  same third to go (`[]LoneWaiter`): run `takeover` shows that `OneSession` fails otherwise. With
  two sessions (`Couple`) that always holds, so `TakeoverIsSafe` has no such hypothesis. The
  invariant `CalmInv` adds who has the seat (`SeatInv`), that a news task's read is current while it
  runs (`TaskInv`), what a session holds in its hands of the record (`HandInv`) and what is still to
  be told of the suit (`NewsInv`): an old record in the store is harmless only while somebody is
  known to be about to correct it.
- **Exchange** (`ExchangeProofs`). `EscrowAlwaysCovers`: the invariant `EscrowInv` adds which side the
  orders of a book are on, and that the colony's stock, where its quotes come from, isn't below 0.
  A fill at the order's price or better, and what is left, are together worth no more than what
  was left before: division rounded down is super-additive (`FloorsAdd`, `WorthSplits`).
  `BookStaysInOrder` (`BookInv`): an order joins behind every one at its price because `nextId`
  grows, and leaves nothing crossing because it was matched until nothing did; between its fills it is
  in no book. `AmountsStayWhole` and `NothingMadeOrLost` (`PurseInv` and the ledger `Ledger`): what
  each step takes from one sum it adds to another. `GuestsLeaveNothingEver` (`GuestInv`): while a guest's orders
  are cancelled one by one, what is left is what `leaver` still has to cancel. Assumed:
  `ConstantsAssumption` (any unit above 0, any tables of quotes, any number of traders).
- **Charter** (`CharterProofs`). `PaysProRata` and `PatrolPaysItsOwn` are inductive together as
  `ContractsInv`: each contract's types, a supply contract held by nobody and paid its share, a
  patrol's count no more than its holder has flown, one patrol to a holder. `Share` is the arithmetic:
  a rounded share grows with what is delivered and never exceeds the reward. `EraIsSigned` rests
  on `VoteInv`: signers are as many as signatures (so different), each had standing and standing
  never shrinks. `BoardConserves` adds that ids are different (`IdsInv`), so that a contract's payment comes
  from one escrow, and the two ledgers (`MoneyInv`). Assumed: `CharterAssumption`.
- **Homes** (`HomesProofs`). `HomesInv` joins `LockStaysCurrent`, `BedsStayOwn` and `GraceIsGiven` with
  what relates them: a lock's lists and a bed's sleepers are of the crew, nobody sleeps in two homes
  (`AsleepOnce`), a lease's unpaid hour is no earlier than the hour it is paid to (`RentOK`).
  `HomesConserve` adds `MoneyInv`; the hard step is the clock's, which may end several leases of several
  pilots at once (`TickMoney`).
- **Desk** (`CharterProofs`). `NothingEverGoesMissing` and `HandedOverOnce` are both about a stop at the
  worst time, so the invariant `DeskInv` says what every file may hold at every point of a session's
  saves: what is queued and in which order (`QueueInv`), what a write under way has read
  (`WritesInv`), how the record, the Board's and the register's files stand to memory
  (`RecordInv`, `PaidInv`, `HomeInv`), and that with nothing queued they agree (`SettledInv`). A stop
  keeps it because it holds of the files alone.

Sums and induction. The conservation laws sum over sets of pilots, contracts and homes and over
books. The library's induction theorems take an operator as a parameter, which no prover here can
instantiate; `Sums` proves the facts needed by a least counterexample instead: `<` on `Nat` is
well founded (as `WellFoundedInduction` defines it, for sets), so a property that fails for some
length or size fails for a least one, and the definition of the fold, unrolled once, takes it one lower. From
that come the sum of a set with one element changed, of a set split in two, and of a sequence with one element
added, dropped or replaced.

Only model-checked:

- Liveness (`LeavingEnds`, `ClaimEnds`, `OneInTheEnd`): fairness and ENABLED are out of reach.
- `SlotLease`: that a homecoming finds room in its ring (`HomeFits`) when pilots eject, which
  `LossesAreJust` and the refinement of `Sortie` then rest on; in run `ejecting` pilots eject.
- `ghosts`, `takeover` and `unheard`: a behaviour that breaks a property is TLC's to show.

## Not modelled

Physics, AI, rendering, the walkable city, sound, the codec and cryptography: floating-point
numerics and I/O, or nothing else depends on their state. They are most of the repository's
lines, so the modules stand for a small share of them. Of the server: the proving ground's list,
plaza, floor and radio (the latest position and a line of chat, broadcast), fabrication, wear, food and body
(sequential rates in floats), and the oracle worker (one task over two rings; that a call which
panics leaves its pilot busy for good is listed as a hazard).

## Plan

1. Proofs: `SlotLease`'s `HomeFits` where pilots eject: how many tows may wait in a ring.
2. `SlotLease`: guests, the inside sector (`Board`, `Watch`), aces' claims, a failing stream.
3. `Desk`: the exchange's accounts and the suits put back at boot (`ParkRestore`).
4. `Charter` with `Exchange`: the colony's stock they share, which is a count here.
