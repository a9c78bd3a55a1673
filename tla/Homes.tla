-------------------------------- MODULE Homes --------------------------------
(***************************************************************************)
(* The register of homes (crates/bc-econ/src/homes.rs), as every session    *)
(* shares it behind one lock: who holds which flat or house, its rent by    *)
(* the hour, its code lock and the lists it keeps, its furniture, what is   *)
(* put away in it and who is asleep in its beds; and of each pilot's hangar *)
(* the credits and the goods the register moves.                            *)
(*                                                                          *)
(* Time is in hours.  The server's clock ticks every second, so the hours   *)
(* pass one by one unless the server is down; with the colony's inside      *)
(* closed it holds the register instead.  There is one kind of goods; where *)
(* furniture stands, and whether it fits, is left out, so are knocks, names *)
(* and the keypad's shocks.  What the files keep is Desk's.                 *)
(***************************************************************************)
EXTENDS Integers, FiniteSets, Functions

CONSTANTS
    Pilots,
    Flats,        \* rented
    Houses,       \* bought
    NotHeld,
    NoCode,
    Codes,
    Credits,      \* what each pilot starts with
    Goods,
    Week,         \* a week's rent
    Hourly(_),    \* an hour's, for so many on the crew
    Price,        \* of a house, and what the colony pays back for it
    SellBack,
    Furniture,    \* Bed and Chest
    PiecePrice,
    PieceBack,
    Grace,        \* GRACE_S and ABANDONED_S, in hours
    Abandoned,
    MaxHeld,      \* MAX_HELD, MAX_PIECES, CREW_CAP, GUEST_CAP, LOCKOUT_TRIES
    MaxPieces,
    CrewCap,
    GuestCap,
    LockoutTries,
    MaxHours,     \* bounds: hours that pass, and how many at once
    MaxDown

Homes == Flats \cup Houses
Never == -1

(* A home somebody holds (Held, Lock, Asleep and Piece, in homes.rs). *)
Holdings ==
    [holder : Pilots, bank : Nat, at : Nat, unpaid : {Never} \cup Nat,
     code : Codes \cup {NoCode}, guest_code : Codes \cup {NoCode},
     crew : SUBSET Pilots, guests : SUBSET Pilots, misses : Nat, shut : BOOLEAN,
     pieces : SUBSET [id : Nat, kind : Furniture, holds : Nat], next : Nat,
     asleep : SUBSET [piece : Nat, who : Pilots]]

ASSUME HomesAssumption ==
    /\ IsFiniteSet(Pilots) /\ IsFiniteSet(Homes)
    /\ Flats \cap Houses = {} /\ NotHeld \notin Holdings /\ NoCode \notin Codes
    /\ Credits \in [Pilots -> Nat] /\ Goods \in [Pilots -> Nat]
    /\ \A n \in 1..Cardinality(Pilots) : Hourly(n) \in Nat \ {0}
    /\ {Week, Price, SellBack, PiecePrice, PieceBack} \subseteq Nat
    /\ Furniture \subseteq {"bed", "chest"}
    /\ {Grace, Abandoned, LockoutTries, CrewCap} \subseteq Nat \ {0}
    /\ {MaxHeld, MaxPieces, GuestCap, MaxHours, MaxDown} \subseteq Nat

VARIABLES
    held,         \* Homes::held
    accounts,     \* what is waiting for pilots in their bays
    taken,        \* the ledger: what the colony has taken, less what it has paid back
    credits,      \* each pilot's hangar
    stores,
    now,          \* the hour
    open,         \* the colony's inside
    entered,      \* who has entered the codes each home's lock has now, since they were
                  \* last put off its lists (of the model's)
    paid_to,      \* the hour each lease is paid to (of the model's)
    excused       \* leases unpaid whose clock was stopped, or ran late (of the model's)

money == <<accounts, taken, credits, stores>>
clock == <<now, open>>
history == <<entered, paid_to, excused>>
vars == <<held, money, clock, history>>

Nothing == [credits |-> 0, goods |-> 0]
Nobody == [crew |-> {}, guests |-> {}]

(* A home newly taken: the colony's key lock, its holder alone (Lock::key). *)
Held(p, bank) ==
    [holder |-> p, bank |-> bank, at |-> now, unpaid |-> Never,
     code |-> NoCode, guest_code |-> NoCode, crew |-> {p}, guests |-> {},
     misses |-> 0, shut |-> FALSE, pieces |-> {}, next |-> 0, asleep |-> {}]

Init ==
    /\ held = [h \in Homes |-> NotHeld]
    /\ accounts = [p \in Pilots |-> Nothing] /\ taken = 0
    /\ credits = Credits /\ stores = Goods
    /\ now = 0 /\ open \in BOOLEAN
    /\ entered = [h \in Homes |-> Nobody]
    /\ paid_to = [h \in Homes |-> 0] /\ excused = {}

-----------------------------------------------------------------------------
(* What the actions are made of. *)

IsHeld(h) == held[h] # NotHeld
IsCrew(h, p) == IsHeld(h) /\ p \in held[h].crew
HeldBy(p) == {h \in Homes : IsHeld(h) /\ held[h].holder = p}

(* A request: the pilot is in the city (Session::home_request). *)
Asked == open

(* remember: a list refuses newcomers when it is full. *)
Remembers(list, p, cap) == p \in list \/ Cardinality(list) < cap

Becomes(h, d) == held' = [held EXCEPT ![h] = d]
Spends(p, n) == credits[p] >= n /\ credits' = [credits EXCEPT ![p] = @ - n]
Gains(p, n) == credits' = [credits EXCEPT ![p] = @ + n]

(* Homes::cleared_out: the furniture sold back, and what it held. *)
ClearedOut(d) ==
    [credits |-> Cardinality(d.pieces) * PieceBack,
     goods |-> SumFunction([q \in d.pieces |-> q.holds])]

(* What a home pays its holder back when it goes: the panel's rent, or most of its price. *)
M_PaysBack(h, d) == IF h \in Flats THEN Week ELSE SellBack
PaysBack(h, d) == IF h \in Flats THEN d.bank ELSE SellBack

-----------------------------------------------------------------------------
(* Time: n hours to the clock's next tick that charges for any.  More than one, and the
   server was down; it may start again with the inside opened or closed. *)

(* Homes::tick, of a lease at t: charged by the hour out of its panel; unpaid from the hour
   the panel ran dry. *)
Due(d, t) == Hourly(Cardinality(d.crew)) * (t - d.at)
Paid(d, t) == IF Due(d, t) <= d.bank THEN Due(d, t) ELSE d.bank
RanDry(d, t) == d.at + Paid(d, t) \div Hourly(Cardinality(d.crew))
M_Unpaid(d, t) ==
    IF Paid(d, t) = Due(d, t) \/ d.unpaid # Never THEN d.unpaid ELSE RanDry(d, t)
Unpaid(d, t) ==
    IF Paid(d, t) = Due(d, t) THEN Never
    ELSE IF d.unpaid # Never THEN d.unpaid ELSE RanDry(d, t)
Charged(d, t) == [d EXCEPT !.bank = @ - Paid(d, t), !.at = t, !.unpaid = Unpaid(d, t)]

(* Whether the clock ends it at t: a lease unpaid a day, a house left a month. *)
Ends(h, t) ==
    IF h \in Flats THEN Unpaid(held[h], t) # Never /\ t - Unpaid(held[h], t) >= Grace
    ELSE t - held[h].at >= Abandoned

Tick(n) ==
    LET t == now + n
        leases == {h \in Flats : IsHeld(h)}
        gone == {h \in Homes : IsHeld(h) /\ Ends(h, t)}
        charged == [h \in Homes |-> IF h \in leases THEN Charged(held[h], t) ELSE held[h]]
        back(h) == PaysBack(h, charged[h]) + ClearedOut(held[h]).credits
        goods(h) == ClearedOut(held[h]).goods
    IN  /\ t <= MaxHours /\ now' = t /\ open' = TRUE
        /\ held' = [h \in Homes |-> IF h \in gone THEN NotHeld ELSE charged[h]]
        /\ accounts' = [p \in Pilots |->
              [credits |-> accounts[p].credits + SumFunction([h \in HeldBy(p) \cap gone |-> back(h)]),
               goods |-> accounts[p].goods + SumFunction([h \in HeldBy(p) \cap gone |-> goods(h)])]]
        /\ taken' = taken + SumFunction([h \in leases |-> Paid(held[h], t)])
                          - SumFunction([h \in gone |-> back(h) - charged[h].bank])
        /\ paid_to' = [h \in Homes |-> IF h \in leases /\ RanDry(held[h], t) > held[h].at
                                       THEN RanDry(held[h], t) ELSE paid_to[h]]
        /\ excused' = {h \in leases : /\ held[h].unpaid # Never /\ charged[h].unpaid # Never
                                      /\ h \in excused \/ (n > 1 /\ RanDry(held[h], t) > held[h].at)}
        /\ entered' = [h \in Homes |-> IF h \in gone THEN Nobody ELSE entered[h]]
        /\ UNCHANGED <<credits, stores>>

(* Homes::hold, the inside closed: each lease charged to t without paying, each house seen. *)
Hold(n) ==
    LET t == now + n
    IN  /\ t <= MaxHours /\ now' = t /\ open' = FALSE
        /\ held' = [h \in Homes |-> IF IsHeld(h) THEN [held[h] EXCEPT !.at = t] ELSE NotHeld]
        /\ paid_to' = [h \in Homes |-> IF IsHeld(h) /\ held[h].unpaid = Never THEN t ELSE paid_to[h]]
        /\ excused' = {h \in Flats : IsHeld(h) /\ held[h].unpaid # Never}
        /\ UNCHANGED <<money, entered>>

-----------------------------------------------------------------------------
(* Leases and deeds. *)

(* Homes::rent, for a week, and Homes::buy. *)
Take(p, h) ==
    LET cost == IF h \in Flats THEN Week ELSE Price
    IN  /\ Asked /\ ~IsHeld(h) /\ Cardinality(HeldBy(p)) < MaxHeld
        /\ Spends(p, cost)
        /\ Becomes(h, Held(p, IF h \in Flats THEN cost ELSE 0))
        /\ taken' = IF h \in Flats THEN taken ELSE taken + cost
        /\ paid_to' = [paid_to EXCEPT ![h] = now]
        /\ excused' = excused \ {h}
        /\ UNCHANGED <<accounts, stores, clock, entered>>

Forgotten(h) ==
    /\ entered' = [entered EXCEPT ![h] = Nobody]
    /\ paid_to' = [paid_to EXCEPT ![h] = 0]
    /\ excused' = excused \ {h}

M_GiveUp(p, h) ==
    /\ Asked /\ h \in HeldBy(p)
    /\ Becomes(h, NotHeld)
    /\ Gains(p, PaysBack(h, held[h]) + ClearedOut(held[h]).credits)
    /\ taken' = taken - ClearedOut(held[h]).credits - IF h \in Flats THEN 0 ELSE SellBack
    /\ Forgotten(h)
    /\ UNCHANGED <<accounts, stores, clock>>
GiveUp(p, h) ==
    /\ Asked /\ h \in HeldBy(p)
    /\ Becomes(h, NotHeld)
    /\ Gains(p, PaysBack(h, held[h]) + ClearedOut(held[h]).credits)
    /\ stores' = [stores EXCEPT ![p] = @ + ClearedOut(held[h]).goods]
    /\ taken' = taken - ClearedOut(held[h]).credits - IF h \in Flats THEN 0 ELSE SellBack
    /\ Forgotten(h)
    /\ UNCHANGED <<accounts, clock>>

(* Homes::feed, by anyone; Homes::withdraw, by the crew. *)
Feed(p, h, n) ==
    /\ Asked /\ h \in Flats /\ IsHeld(h)
    /\ Spends(p, n)
    /\ Becomes(h, [held[h] EXCEPT !.bank = @ + n])
    /\ UNCHANGED <<accounts, taken, stores, clock, history>>

M_Covers(h, n) == TRUE
Covers(h, n) == n <= held[h].bank
Withdraw(p, h, n) ==
    /\ Asked /\ h \in Flats /\ IsCrew(h, p) /\ Covers(h, n)
    /\ Becomes(h, [held[h] EXCEPT !.bank = @ - n])
    /\ Gains(p, n)
    /\ UNCHANGED <<accounts, taken, stores, clock, history>>

(* Homes::visited, the holder in their house. *)
Visited(p, h) ==
    /\ Asked /\ h \in HeldBy(p) \cap Houses /\ held[h].at < now
    /\ Becomes(h, [held[h] EXCEPT !.at = now])
    /\ UNCHANGED <<money, clock, history>>

(* Homes::collect, in the bay (Session::homes_tick). *)
Collect(p) ==
    /\ accounts[p] # Nothing
    /\ Gains(p, accounts[p].credits)
    /\ stores' = [stores EXCEPT ![p] = @ + accounts[p].goods]
    /\ accounts' = [accounts EXCEPT ![p] = Nothing]
    /\ UNCHANGED <<held, taken, clock, history>>

-----------------------------------------------------------------------------
(* The lock. *)

(* Homes::enter_code: while the shutter is down nothing is tried; over says that it has run
   out since. *)
EnterCode(p, h, c, over) ==
    LET d == held[h]
        fresh == [d EXCEPT !.misses = IF d.shut THEN 0 ELSE @, !.shut = FALSE]
    IN  /\ Asked /\ IsHeld(h) /\ (d.shut => over) /\ (over => d.shut)
        /\ \/ /\ c = d.code
              /\ IF Remembers(d.crew, p, CrewCap)
                 THEN /\ Becomes(h, [fresh EXCEPT !.crew = @ \cup {p}, !.misses = 0])
                      /\ entered' = [entered EXCEPT ![h].crew = @ \cup {p}]
                 ELSE Becomes(h, fresh) /\ UNCHANGED entered
           \/ /\ c # d.code /\ c = d.guest_code
              /\ CASE p \in d.crew -> Becomes(h, [fresh EXCEPT !.misses = 0]) /\ UNCHANGED entered
                   [] p \notin d.crew /\ Remembers(d.guests, p, GuestCap) ->
                        /\ Becomes(h, [fresh EXCEPT !.guests = @ \cup {p}, !.misses = 0])
                        /\ entered' = [entered EXCEPT ![h].guests = @ \cup {p}]
                   [] OTHER -> Becomes(h, fresh) /\ UNCHANGED entered
           \/ /\ c \notin {d.code, d.guest_code}
              /\ Becomes(h, [fresh EXCEPT !.misses = @ + 1,
                                           !.shut = fresh.misses + 1 >= LockoutTries])
              /\ UNCHANGED entered
        /\ UNCHANGED <<money, clock, paid_to, excused>>

(* Who of a home's sleepers are on its crew still. *)
StillCrew(d, crew) == {a \in d.asleep : a.who \in crew}

(* Homes::set_code: a new main code clears both lists, keeping its setter and the holder. *)
M_Lists(d, p) == d.crew
Lists(d, p) == {d.holder} \cup (IF Remembers({d.holder}, p, CrewCap) THEN {p} ELSE {})
SetCode(p, h, c) ==
    LET d == held[h]
    IN  /\ Asked /\ IsCrew(h, p)
        /\ Becomes(h, [d EXCEPT !.code = c, !.guest_code = NoCode,
                                !.guests = {}, !.crew = Lists(d, p),
                                !.misses = 0, !.shut = FALSE,
                                !.asleep = StillCrew(d, Lists(d, p))])
        /\ entered' = [entered EXCEPT ![h] = [crew |-> {p}, guests |-> {}]]
        /\ UNCHANGED <<money, clock, paid_to, excused>>

SetGuestCode(p, h, c) ==
    /\ Asked /\ IsCrew(h, p)
    /\ Becomes(h, [held[h] EXCEPT !.guest_code = c, !.guests = {}])
    /\ entered' = [entered EXCEPT ![h].guests = {}]
    /\ UNCHANGED <<money, clock, paid_to, excused>>

M_Off(d, p) == [d EXCEPT !.crew = @ \ {p}, !.guests = @ \ {p}]
Off(d, p) == [d EXCEPT !.crew = @ \ {p}, !.guests = @ \ {p},
                       !.asleep = {a \in @ : a.who # p}]
LeaveCrew(p, h) ==
    /\ Asked /\ IsHeld(h) /\ held[h].holder # p
    /\ p \in held[h].crew \cup held[h].guests
    /\ Becomes(h, Off(held[h], p))
    /\ entered' = [entered EXCEPT ![h] = [crew |-> @.crew \ {p}, guests |-> @.guests \ {p}]]
    /\ UNCHANGED <<money, clock, paid_to, excused>>

ClearCrew(p, h) ==
    LET kept == {p, held[h].holder}
    IN  /\ Asked /\ IsCrew(h, p)
        /\ Becomes(h, [held[h] EXCEPT !.crew = kept, !.guests = {},
                                      !.asleep = StillCrew(held[h], kept)])
        /\ entered' = [entered EXCEPT ![h] = [crew |-> @.crew \cap kept, guests |-> {}]]
        /\ UNCHANGED <<money, clock, paid_to, excused>>

-----------------------------------------------------------------------------
(* What is in it. *)

Furnish(p, h, kind) ==
    LET d == held[h]
    IN  /\ Asked /\ IsCrew(h, p) /\ Cardinality(d.pieces) < MaxPieces
        /\ Spends(p, PiecePrice)
        /\ taken' = taken + PiecePrice
        /\ Becomes(h, [d EXCEPT !.pieces = @ \cup {[id |-> d.next, kind |-> kind, holds |-> 0]},
                                !.next = @ + 1])
        /\ UNCHANGED <<accounts, stores, clock, history>>

Sellable(d, q) == q.holds = 0 /\ \A a \in d.asleep : a.piece # q.id
SellPiece(p, h, q) ==
    /\ Asked /\ IsCrew(h, p) /\ Sellable(held[h], q)
    /\ Becomes(h, [held[h] EXCEPT !.pieces = @ \ {q}])
    /\ Gains(p, PieceBack)
    /\ taken' = taken - PieceBack
    /\ UNCHANGED <<accounts, stores, clock, history>>

(* Homes::stash and unstash, of one. *)
Stash(p, h, q) ==
    /\ Asked /\ IsCrew(h, p) /\ q.kind = "chest" /\ stores[p] > 0
    /\ stores' = [stores EXCEPT ![p] = @ - 1]
    /\ Becomes(h, [held[h] EXCEPT !.pieces = (@ \ {q}) \cup {[q EXCEPT !.holds = @ + 1]}])
    /\ UNCHANGED <<accounts, taken, credits, clock, history>>

Unstash(p, h, q) ==
    /\ Asked /\ IsCrew(h, p) /\ q.holds > 0
    /\ stores' = [stores EXCEPT ![p] = @ + 1]
    /\ Becomes(h, [held[h] EXCEPT !.pieces = (@ \ {q}) \cup {[q EXCEPT !.holds = @ - 1]}])
    /\ UNCHANGED <<accounts, taken, credits, clock, history>>

(* Homes::wake, of whoever is back: out of whatever bed. *)
Woken(p) == [h \in Homes |-> IF IsHeld(h) THEN [held[h] EXCEPT !.asleep = {a \in @ : a.who # p}]
                             ELSE NotHeld]
Wake(p) ==
    /\ \E h \in Homes : IsHeld(h) /\ \E a \in held[h].asleep : a.who = p
    /\ held' = Woken(p)
    /\ UNCHANGED <<money, clock, history>>

(* Homes::sleep, as the pilot logs out at home (Session::lie_down): in a free bed. *)
FreeBeds(d) == {q \in d.pieces : q.kind = "bed" /\ \A a \in d.asleep : a.piece # q.id}
Sleep(p, h) ==
    LET woken == Woken(p)
    IN  /\ Asked /\ IsHeld(h)
        /\ IF IsCrew(h, p) /\ FreeBeds(woken[h]) # {}
           THEN \E q \in FreeBeds(woken[h]) :
                   held' = [woken EXCEPT ![h].asleep = @ \cup {[piece |-> q.id, who |-> p]}]
           ELSE held' = woken
        /\ UNCHANGED <<money, clock, history>>

-----------------------------------------------------------------------------
Asks(p, h) ==
    \/ Take(p, h) \/ GiveUp(p, h) \/ Visited(p, h)
    \/ Feed(p, h, 1) \/ Withdraw(p, h, 1)
    \/ \E c \in Codes : SetCode(p, h, c) \/ \E over \in BOOLEAN : EnterCode(p, h, c, over)
    \/ \E c \in Codes \cup {NoCode} : SetGuestCode(p, h, c)
    \/ LeaveCrew(p, h) \/ ClearCrew(p, h)
    \/ \E kind \in Furniture : Furnish(p, h, kind)
    \/ IsHeld(h) /\ \E q \in held[h].pieces :
          SellPiece(p, h, q) \/ Stash(p, h, q) \/ Unstash(p, h, q)
    \/ Sleep(p, h)

Next ==
    \/ \E n \in 1..MaxDown : Tick(n) \/ Hold(n)
    \/ \E p \in Pilots : Collect(p) \/ Wake(p) \/ \E h \in Homes : Asks(p, h)

Spec == Init /\ [][Next]_vars

-----------------------------------------------------------------------------
HeldHomes == {h \in Homes : IsHeld(h)}

(* The state's shape: no amount below zero, and lists no longer than their caps. *)
TypeOK ==
    /\ \A h \in HeldHomes : LET d == held[h] IN
          /\ d.holder \in Pilots /\ d.bank \in Nat /\ d.at \in 0..now
          /\ d.unpaid \in {Never} \cup 0..now
          /\ {d.code, d.guest_code} \subseteq Codes \cup {NoCode}
          /\ d.shut \in BOOLEAN /\ d.misses \in 0..LockoutTries
          /\ d.crew \subseteq Pilots /\ Cardinality(d.crew) <= CrewCap
          /\ d.guests \subseteq Pilots /\ Cardinality(d.guests) <= GuestCap
          /\ \A q \in d.pieces : q.kind \in Furniture /\ q.holds \in Nat
    /\ accounts \in [Pilots -> [credits : Nat, goods : Nat]] /\ taken \in Int
    /\ credits \in [Pilots -> Nat] /\ stores \in [Pilots -> Nat]
    /\ now \in 0..MaxHours /\ open \in BOOLEAN

(* The ledger (homes.rs: "nothing else makes or loses a credit here"): what is in the
   hangars, on the panels and owed is what there was, less what the colony took. *)
CreditsConserved ==
    SumFunction(credits) + SumFunction([p \in Pilots |-> accounts[p].credits])
        + SumFunction([h \in HeldHomes |-> held[h].bank]) + taken
    = SumFunction(Credits)

(* What was put away in a home comes back to someone's bay, given up or lapsed. *)
GoodsConserved ==
    SumFunction(stores) + SumFunction([p \in Pilots |-> accounts[p].goods])
        + SumFunction([h \in HeldHomes |-> ClearedOut(held[h]).goods])
    = SumFunction(Goods)

(* Every credit and good in the register and in the hangars is accounted for, and no
   amount goes below zero: it is unsigned in the code (Homes::tick, withdraw, give_up). *)
Conserved == TypeOK /\ CreditsConserved /\ GoodsConserved

(* Whoever a home's lock remembers has entered the code it has now, or set it, since they
   were last put off its lists, or holds the home (homes.rs: "Setting the main code clears
   both lists"); and its holder is always on its crew. *)
LockIsCurrent ==
    \A h \in HeldHomes :
        /\ held[h].holder \in held[h].crew
        /\ held[h].crew \subseteq entered[h].crew \cup {held[h].holder}
        /\ held[h].guests \subseteq entered[h].guests

(* Whoever is asleep at home is in one bed, of their own, that is still there, and still on
   the home's crew (Homes::sleep; set_code, leave_crew, clear_crew, sell_piece). *)
BedsAreOwn ==
    LET asleep == {<<h, a>> : h \in HeldHomes, a \in UNION {held[g].asleep : g \in HeldHomes}}
        lying == {x \in asleep : x[2] \in held[x[1]].asleep}
    IN  /\ \A x \in lying :
              /\ x[2].who \in held[x[1]].crew
              /\ \E q \in held[x[1]].pieces : q.kind = "bed" /\ q.id = x[2].piece
        /\ \A x, y \in lying :
              x[2].who = y[2].who \/ (x[1] = y[1] /\ x[2].piece = y[2].piece) => x = y

(* A lease the clock ends (Homes::tick) has had no hour's rent paid for a whole Grace, if the
   clock wasn't late or stopped meanwhile. *)
GraceGiven ==
    [][\A h \in Flats :
          IsHeld(h) /\ held'[h] = NotHeld /\ now' # now =>
              h \in excused' \/ now' - paid_to'[h] >= Grace]_vars
=============================================================================
