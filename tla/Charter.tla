------------------------------- MODULE Charter -------------------------------
(***************************************************************************)
(* The Charter Board (crates/bc-econ/src/charter.rs), as every session     *)
(* shares it behind one lock: contracts for goods and their escrow, the    *)
(* colony's own contracts and patrols, the great works, the charter vote,  *)
(* what the Board owes pilots in their bays and at its desk; and of each   *)
(* pilot's hangar the credits and the stores the Board moves.              *)
(*                                                                         *)
(* There is one kind of goods.  A contract's time to expire runs out by    *)
(* itself (Lapse), and the Board finds that out when its clock ticks.  The *)
(* colony is open: what the Board itself pays waits at its desk.  Aces'    *)
(* bounties and flight certificates are Desk's; notices, notes and names   *)
(* are left out.                                                           *)
(***************************************************************************)
EXTENDS Integers, Sequences, FiniteSets, Functions

CONSTANTS
    Pilots,
    Colony,        \* who posts the colony's contracts
    NoOne,         \* no holder
    Credits,       \* what each pilot starts with
    Goods,
    Quantities,    \* what pilots' contracts ask for, and pay
    Rewards,
    SupplyQty,     \* what the colony's supply contract asks for, and pays
    SupplyReward,
    PatrolBounty,  \* PATROL_BOUNTY, PATROL_REWARD, COLONY_PATROLS
    PatrolReward,
    Patrols,
    Bounties,      \* what a sortie may earn
    WorksNeed,     \* what the great works need delivered, and pay a unit
    WorksPrice,
    MaxPosted,     \* MAX_POSTED, SIGNATURES
    Signatures,
    MaxIds         \* bound: contracts in a behaviour

ASSUME CharterAssumption ==
    /\ IsFiniteSet(Pilots) /\ Colony \notin Pilots /\ NoOne \notin Pilots \cup {Colony}
    /\ Credits \in [Pilots -> Nat] /\ Goods \in [Pilots -> Nat]
    /\ Quantities \subseteq Nat \ {0} /\ Rewards \subseteq Nat \ {0}
    /\ SupplyQty \in Nat \ {0} /\ SupplyReward \in Nat
    /\ PatrolBounty \in Nat \ {0} /\ PatrolReward \in Nat /\ Patrols \in Nat
    /\ Bounties \subseteq Nat \ {0}
    /\ WorksNeed \in Nat \ {0} /\ WorksPrice \in Nat
    /\ MaxPosted \in Nat /\ Signatures \in Nat \ {0} /\ MaxIds \in Nat

VARIABLES
    contracts,    \* Board::contracts
    next_id,
    accounts,     \* what pilots are owed in their bays
    at_desk,      \* the credits that wait for them at the Board's desk
    standing,
    built,        \* goods delivered to the great works
    signatures,
    era,
    colony_paid,
    credits,      \* each pilot's hangar
    stores,
    received,     \* goods the colony's desk has had (Exchange::colony_receive)
    flown         \* bounties each pilot has earned on the patrol they hold (of the model's)

board == <<contracts, next_id, accounts, at_desk, standing, built, signatures, era,
           colony_paid>>
hangars == <<credits, stores>>
vars == <<board, hangars, received, flown>>

Contract(issuer, kind, qty, reward) ==
    [id |-> next_id, issuer |-> issuer, kind |-> kind, qty |-> qty, done |-> 0,
     reward |-> reward, paid |-> 0, holder |-> NoOne, lapsed |-> FALSE]

Nothing == [credits |-> 0, goods |-> 0]

Init ==
    /\ contracts = {} /\ next_id = 1
    /\ accounts = [p \in Pilots |-> Nothing]
    /\ at_desk = [p \in Pilots |-> 0]
    /\ standing = [p \in Pilots |-> 0]
    /\ built = 0 /\ signatures = <<>> /\ era = 0 /\ colony_paid = 0
    /\ credits = Credits /\ stores = Goods
    /\ received = 0
    /\ flown = [p \in Pilots |-> 0]

-----------------------------------------------------------------------------
(* What the actions are made of. *)

(* Contract::pay_for: what delivering so much of it pays in all. *)
pay_for(c, done) == (c.reward * done) \div c.qty

M_pay(c, n) == (c.reward * n) \div c.qty
pay(c, n) == pay_for(c, c.done + n) - pay_for(c, c.done)

unpaid(c) == c.reward - c.paid

(* Board::colony_pays: a source of credits, with the standing they earn. *)
colony_pays(p, n) ==
    /\ colony_paid' = colony_paid + n
    /\ standing' = [standing EXCEPT ![p] = @ + n]

(* Board::collect: the pilot's hangar has what their account held, and so much more. *)
M_collect(p, more) ==
    /\ credits' = [credits EXCEPT ![p] = @ + accounts[p].credits + more]
    /\ stores' = [stores EXCEPT ![p] = @ + accounts[p].goods]
    /\ UNCHANGED accounts
collect(p, more) ==
    /\ credits' = [credits EXCEPT ![p] = @ + accounts[p].credits + more]
    /\ stores' = [stores EXCEPT ![p] = @ + accounts[p].goods]
    /\ accounts' = [accounts EXCEPT ![p] = Nothing]

(* The contract replaced by what it has become. *)
Becomes(c, d) == contracts' = (contracts \ {c}) \cup {d}

needed == WorksNeed - built
works_done == built = WorksNeed
vote_open == works_done /\ era = 0

(* Board::close, of each of cs: what a pilot's hasn't paid goes back to them. *)
Refund(cs, p) == SumFunction([c \in {d \in cs : d.issuer = p} |-> unpaid(c)])

-----------------------------------------------------------------------------
(* Time. *)

Lapse(c) ==
    /\ ~c.lapsed
    /\ Becomes(c, [c EXCEPT !.lapsed = TRUE])
    /\ UNCHANGED <<next_id, accounts, at_desk, standing, built, signatures, era,
                   colony_paid, hangars, received, flown>>

(* What the colony posts, once there is nothing else to expire: its supply contract if
   it has none up, the militia's patrols once their hangar is built. *)
Posted(open) ==
    LET supply == \E c \in open : c.issuer = Colony /\ c.kind = "supply"
        patrols == Cardinality({c \in open : c.kind = "patrol"})
        jobs == (IF supply THEN <<>> ELSE <<"supply">>)
                \o (IF works_done THEN [i \in 1..(Patrols - patrols) |-> "patrol"] ELSE <<>>)
        job(i) == IF jobs[i] = "supply" THEN Contract(Colony, "supply", SupplyQty, SupplyReward)
                  ELSE Contract(Colony, "patrol", PatrolBounty, PatrolReward)
    IN  {[job(i) EXCEPT !.id = next_id + i - 1] :
            i \in {j \in DOMAIN jobs : next_id + j - 1 <= MaxIds}}

(* Board::tick. *)
Tick ==
    LET expired == {c \in contracts : c.lapsed}
        new == Posted(contracts \ expired)
    IN  /\ expired \cup new # {}
        /\ contracts' = (contracts \ expired) \cup new
        /\ next_id' = next_id + Cardinality(new)
        /\ accounts' = [p \in Pilots |->
                           [accounts[p] EXCEPT !.credits = @ + Refund(expired, p)]]
        /\ UNCHANGED <<at_desk, standing, built, signatures, era, colony_paid,
                       hangars, received, flown>>

-----------------------------------------------------------------------------
(* What a session asks of the Board (apply_charter), and the Board of its hangar. *)

M_affords(p, reward) == TRUE
affords(p, reward) == credits[p] >= reward

Post(p, qty, reward) ==
    /\ next_id <= MaxIds
    /\ Cardinality({c \in contracts : c.issuer = p}) < MaxPosted
    /\ affords(p, reward)
    /\ credits' = [credits EXCEPT ![p] = @ - reward]
    /\ contracts' = contracts \cup {Contract(p, "supply", qty, reward)}
    /\ next_id' = next_id + 1
    /\ UNCHANGED <<accounts, at_desk, standing, built, signatures, era, colony_paid,
                   stores, received, flown>>

(* Board::withdraw: closed, and all the pilot is owed collected. *)
Withdraw(p, c) ==
    /\ c.issuer = p
    /\ contracts' = contracts \ {c}
    /\ collect(p, unpaid(c))
    /\ UNCHANGED <<next_id, at_desk, standing, built, signatures, era, colony_paid,
                   received, flown>>

(* Board::deliver: up to what is still wanted and what there is, paid pro rata. *)
M_Filled(c, n) == c.done + n > c.qty
Filled(c, n) == c.done + n = c.qty
Deliver(p, c, n) ==
    /\ c.kind = "supply" /\ c.issuer # p /\ ~c.lapsed
    /\ n <= stores[p] /\ n <= c.qty - c.done
    /\ stores' = [stores EXCEPT ![p] = @ - n]
    /\ credits' = [credits EXCEPT ![p] = @ + pay(c, n)]
    /\ IF Filled(c, n) THEN contracts' = contracts \ {c}
       ELSE Becomes(c, [c EXCEPT !.done = @ + n, !.paid = @ + pay(c, n)])
    /\ IF c.issuer = Colony
       THEN colony_pays(p, pay(c, n)) /\ received' = received + n /\ UNCHANGED accounts
       ELSE /\ accounts' = [accounts EXCEPT ![c.issuer].goods = @ + n]
            /\ UNCHANGED <<standing, colony_paid, received>>
    /\ UNCHANGED <<next_id, at_desk, built, signatures, era, flown>>

(* Board::take: the time starts again. *)
Take(p, c) ==
    /\ \A d \in contracts : d.holder # p
    /\ c.kind = "patrol" /\ c.holder = NoOne
    /\ Becomes(c, [c EXCEPT !.holder = p, !.lapsed = FALSE])
    /\ flown' = [flown EXCEPT ![p] = 0]
    /\ UNCHANGED <<next_id, accounts, at_desk, standing, built, signatures, era,
                   colony_paid, hangars, received>>

(* Board::drop_patrol: back on the board as it was. *)
M_GivenUp(c) == [c EXCEPT !.holder = NoOne, !.lapsed = FALSE]
GivenUp(c) == [c EXCEPT !.holder = NoOne, !.done = 0, !.lapsed = FALSE]
DropPatrol(p, c) ==
    /\ c.holder = p
    /\ Becomes(c, GivenUp(c))
    /\ UNCHANGED <<next_id, accounts, at_desk, standing, built, signatures, era,
                   colony_paid, hangars, received, flown>>

(* Board::bounties: a sortie earned b; the patrol they hold pays once it is flown, at
   the Board's desk. *)
Flies(p, c, b) ==
    LET earned == IF c.done + b < c.qty THEN c.done + b ELSE c.qty
    IN  /\ c.holder = p /\ ~c.lapsed
        /\ flown' = [flown EXCEPT ![p] = @ + b]
        /\ IF earned < c.qty
           THEN Becomes(c, [c EXCEPT !.done = earned]) /\ UNCHANGED <<at_desk, standing, colony_paid>>
           ELSE /\ contracts' = contracts \ {c}
                /\ colony_pays(p, c.reward)
                /\ at_desk' = [at_desk EXCEPT ![p] = @ + c.reward]
        /\ UNCHANGED <<next_id, accounts, built, signatures, era, hangars, received>>

(* Board::contribute. *)
Contribute(p, n) ==
    /\ era = 0 /\ ~works_done
    /\ n <= stores[p] /\ n <= needed
    /\ stores' = [stores EXCEPT ![p] = @ - n]
    /\ credits' = [credits EXCEPT ![p] = @ + n * WorksPrice]
    /\ colony_pays(p, n * WorksPrice)
    /\ built' = built + n
    /\ UNCHANGED <<contracts, next_id, accounts, at_desk, signatures, era, received,
                   flown>>

(* Board::sign: the last signature the charter needs begins the era. *)
M_Sign(p) ==
    /\ vote_open /\ standing[p] > 0
    /\ signatures' = Append(signatures, p)
    /\ era' = IF Len(signatures) + 1 < Signatures THEN era ELSE 1
    /\ UNCHANGED <<contracts, next_id, accounts, at_desk, standing, built, colony_paid,
                   hangars, received, flown>>
Sign(p) ==
    /\ vote_open /\ standing[p] > 0
    /\ \A i \in DOMAIN signatures : signatures[i] # p
    /\ signatures' = Append(signatures, p)
    /\ era' = IF Len(signatures) + 1 < Signatures THEN era ELSE 1
    /\ UNCHANGED <<contracts, next_id, accounts, at_desk, standing, built, colony_paid,
                   hangars, received, flown>>

(* Session::settle: what the pilot is owed in their bay, and standing at the Board's desk
   (there) what waits at it (Board::collect, collect_at_desk). *)
Settle(p, there) ==
    /\ accounts[p] # Nothing \/ (there /\ at_desk[p] > 0)
    /\ collect(p, IF there THEN at_desk[p] ELSE 0)
    /\ at_desk' = [at_desk EXCEPT ![p] = IF there THEN 0 ELSE @]
    /\ UNCHANGED <<contracts, next_id, standing, built, signatures, era, colony_paid,
                   received, flown>>

Asks(p) ==
    \/ \E qty \in Quantities, reward \in Rewards : Post(p, qty, reward)
    \/ \E c \in contracts :
          \/ Withdraw(p, c) \/ Take(p, c) \/ DropPatrol(p, c)
          \/ \E n \in 1..stores[p] : Deliver(p, c, n)
    \/ \E n \in 1..stores[p] : Contribute(p, n)
    \/ Sign(p)

Next ==
    \/ Tick
    \/ \E c \in contracts : Lapse(c)
    \/ \E p \in Pilots : 
          \/ Asks(p)
          \/ \E c \in contracts, b \in Bounties : Flies(p, c, b)
          \/ \E there \in BOOLEAN : Settle(p, there)

Spec == Init /\ [][Next]_vars

-----------------------------------------------------------------------------
ContractType ==
    [id : 1..MaxIds, issuer : Pilots \cup {Colony}, kind : {"supply", "patrol"},
     qty : Nat \ {0}, done : Nat, reward : Nat, paid : Nat,
     holder : Pilots \cup {NoOne}, lapsed : BOOLEAN]

(* The state's shape: no amount below zero, on the Board or in a hangar. *)
TypeOK ==
    /\ contracts \subseteq ContractType /\ next_id \in 1..MaxIds + 1
    /\ accounts \in [Pilots -> [credits : Nat, goods : Nat]] /\ at_desk \in [Pilots -> Nat]
    /\ standing \in [Pilots -> Nat]
    /\ built \in 0..WorksNeed /\ signatures \in Seq(Pilots) /\ era \in {0, 1} /\ colony_paid \in Nat
    /\ credits \in [Pilots -> Nat] /\ stores \in [Pilots -> Nat]
    /\ received \in Nat /\ flown \in [Pilots -> Nat]

(* What a contract has paid, delivery by delivery, each rounded down (Board::deliver), is
   what all of it delivered so far pays, and never more than its escrow: close's unpaid
   doesn't wrap, and a contract filled has paid out to the last credit. *)
PaidProRata ==
    \A c \in contracts : c.kind = "supply" =>
        c.done < c.qty /\ c.paid = (c.reward * c.done) \div c.qty /\ c.paid <= c.reward

(* The ledger (charter.rs: "a pilot's contract never makes or loses any"): what is in the
   hangars, owed in the bays, waiting at the desk and in escrow is what there was, and
   what the colony paid. *)
CreditsConserved ==
    SumFunction(credits) + SumFunction(at_desk)
        + SumFunction([p \in Pilots |-> accounts[p].credits])
        + SumFunction([c \in {d \in contracts : d.issuer \in Pilots} |-> unpaid(c)])
    = SumFunction(Credits) + colony_paid

(* So with goods: in the stores, owed to a contract's issuer, the colony's, or built. *)
GoodsConserved ==
    SumFunction(stores) + SumFunction([p \in Pilots |-> accounts[p].goods]) + received + built
    = SumFunction(Goods)

(* Every credit and good on the Board and in the hangars is accounted for, and no amount
   goes below zero: it is unsigned in the code (Board::post, deliver, close, collect). *)
Conserved == TypeOK /\ CreditsConserved /\ GoodsConserved

(* A patrol pays a pilot for the bounties they earned themselves since they took it, not
   for those of whoever gave it up before (Board::drop_patrol), and each pilot flies one
   at a time. *)
PatrolIsOwn ==
    \A c \in contracts : c.kind = "patrol" =>
        /\ c.done <= IF c.holder = NoOne THEN 0 ELSE flown[c.holder]
        /\ \A d \in contracts : c.holder = d.holder /\ c.holder # NoOne => c = d

(* The era begins with the works finished and signed by as many different pilots of
   standing as the charter needs (Board::sign). *)
CharterIsSigned ==
    era = 1 =>
        /\ works_done
        /\ \E signers \in SUBSET {signatures[i] : i \in DOMAIN signatures} :
              Cardinality(signers) >= Signatures /\ \A p \in signers : standing[p] > 0
=============================================================================
