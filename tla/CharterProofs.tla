---------------------------- MODULE CharterProofs ----------------------------
(***************************************************************************)
(* What the Charter Board promises, for any number of pilots, contracts,   *)
(* signatures and any quantities, rewards and bounties: contracts pay pro  *)
(* rata out of their own escrow, a patrol pays for bounties of its own     *)
(* holder's, an era begins with different pilots of standing signed, and   *)
(* no credit or good is made or lost between the Board, its desk and the   *)
(* hangars.                                                                *)
(*                                                                         *)
(* The invariant is in four parts: ContractsInv (each contract, and who    *)
(* holds it), VoteInv, IdsInv (the numbers tell contracts apart, so that   *)
(* a sum over them counts each once), and MoneyInv (the ledger).           *)
(*                                                                         *)
(* The second part is about Desk: the Board's desk, and the files that     *)
(* outlive the server.                                                     *)
(***************************************************************************)
EXTENDS Charter, Desk, Sums

(* A share of a reward, rounded down, is no more than the reward, and grows with what
   was delivered. *)
LEMMA Share ==
    ASSUME NEW r \in Nat, NEW q \in Nat \ {0}, NEW d \in 0..q, NEW e \in 0..d
    PROVE  /\ (r * d) \div q \in Nat /\ (r * e) \div q \in Nat
           /\ (r * e) \div q <= (r * d) \div q
           /\ (r * d) \div q <= r
<1> DEFINE x == (r * d) \div q
           y == (r * e) \div q
<1>1. r * d \in Nat /\ r * e \in Nat
      OBVIOUS
<1>2. r * e <= r * d /\ r * d <= r * q
      OBVIOUS
<1>3. x \in Nat /\ y \in Nat
      BY <1>1
<1>4. q * x <= r * d /\ r * d < q * x + q /\ q * y <= r * e
      BY <1>1
<1> HIDE DEF x, y
<1>5. q * (x + 1) = q * x + q
      BY <1>3
<1>6. y <= x
  <2> SUFFICES ASSUME y >= x + 1 PROVE FALSE
      BY <1>3
  <2>1. q * y >= q * (x + 1)
      BY <1>3
  <2>2. q * y \in Nat /\ q * (x + 1) \in Nat /\ q * x \in Nat
      BY <1>3
  <2> QED BY <1>1, <1>2, <1>4, <1>5, <2>1, <2>2
<1>7. x <= r
  <2> SUFFICES ASSUME x >= r + 1 PROVE FALSE
      BY <1>3
  <2>1. q * x >= q * (r + 1) /\ q * (r + 1) = q * r + q /\ q * r = r * q
      BY <1>3
  <2>2. q * x \in Nat /\ q * r \in Nat
      BY <1>3
  <2> QED BY <1>1, <1>2, <1>4, <2>1, <2>2
<1> QED BY <1>3, <1>6, <1>7 DEF x, y

-----------------------------------------------------------------------------
(* What is inductive of each contract: its fields' types, and that a supply contract is
   held by nobody, not filled, and has paid its share. *)
Sound(c) ==
    /\ c \in [id : {c.id}, issuer : Pilots \cup {Colony}, kind : {"supply", "patrol"},
              qty : Nat \ {0}, done : Nat, reward : Nat, paid : Nat,
              holder : Pilots \cup {NoOne}, lapsed : BOOLEAN]
    /\ c.kind = "supply" => /\ c.holder = NoOne
                            /\ c.done < c.qty /\ c.paid = (c.reward * c.done) \div c.qty

(* A patrol's bounties are its holder's, and a holder has one patrol. *)
Own(c) == c.kind = "patrol" => c.done <= IF c.holder = NoOne THEN 0 ELSE flown[c.holder]
Lone == \A c, d \in contracts : c.holder = d.holder /\ c.holder # NoOne => c = d

ContractsInv ==
    /\ flown \in [Pilots -> Nat]
    /\ \A c \in contracts : Sound(c) /\ Own(c)
    /\ Lone

Signers == {signatures[i] : i \in DOMAIN signatures}

(* What is inductive of the vote: whoever signed did so once, and with standing. *)
VoteInv ==
    /\ standing \in [Pilots -> Nat] /\ signatures \in Seq(Pilots) /\ era \in {0, 1}
    /\ IsFiniteSet(Signers) /\ Cardinality(Signers) = Len(signatures)
    /\ \A p \in Signers : standing[p] > 0
    /\ era = 1 => works_done /\ Len(signatures) >= Signatures

(* The two say what Charter promises. *)
LEMMA InvPays == ContractsInv => PaidProRata
<1> SUFFICES ASSUME ContractsInv, NEW c \in contracts, c.kind = "supply"
             PROVE  c.done < c.qty /\ c.paid = (c.reward * c.done) \div c.qty /\ c.paid <= c.reward
    BY DEF PaidProRata
<1>1. /\ c.reward \in Nat /\ c.qty \in Nat \ {0} /\ c.done \in Nat
      /\ c.done < c.qty /\ c.paid = (c.reward * c.done) \div c.qty
      BY DEF ContractsInv, Sound
<1>2. c.done \in 0..c.qty
      BY <1>1
<1>3. (c.reward * c.done) \div c.qty <= c.reward
      BY <1>1, <1>2, Share
<1> QED BY <1>1, <1>3

LEMMA InvOwns == ContractsInv => PatrolIsOwn
BY DEF ContractsInv, Own, Lone, PatrolIsOwn

LEMMA InvSigned == VoteInv => CharterIsSigned
<1> SUFFICES ASSUME VoteInv, era = 1 PROVE CharterIsSigned
    BY DEF CharterIsSigned
<1>1. works_done /\ Cardinality(Signers) >= Signatures /\ \A p \in Signers : standing[p] > 0
      BY DEF VoteInv
<1> QED BY <1>1 DEF CharterIsSigned, Signers

-----------------------------------------------------------------------------
(* A contract becomes another, its holder kept, gone or one who held none; only who held
   it or holds it now has flown anything since. *)
LEMMA BecomesInv ==
    ASSUME ContractsInv, NEW c \in contracts, NEW d, Becomes(c, d), Sound(d),
           \A e \in contracts : e # c => e.holder # d.holder \/ e.holder = NoOne,
           flown' \in [Pilots -> Nat],
           d.kind = "patrol" => d.done <= IF d.holder = NoOne THEN 0 ELSE flown'[d.holder],
           \A e \in contracts : e # c /\ e.holder # NoOne => flown'[e.holder] = flown[e.holder]
    PROVE  ContractsInv'
<1>1. contracts' = (contracts \ {c}) \cup {d}
      BY DEF Becomes
<1>2. ASSUME NEW e \in contracts'
      PROVE  Sound(e)' /\ Own(e)'
  <2>1. CASE e = d
        BY <2>1 DEF Sound, Own
  <2>2. CASE e # d
    <3>1. e \in contracts /\ e # c /\ Sound(e) /\ Own(e)
          BY <1>1, <1>2, <2>2 DEF ContractsInv
    <3>2. e.holder # NoOne => flown'[e.holder] = flown[e.holder]
          BY <3>1
    <3> QED BY <3>1, <3>2 DEF Sound, Own
  <2> QED BY <2>1, <2>2
<1>3. Lone'
  <2> SUFFICES ASSUME NEW e \in contracts', NEW f \in contracts',
                      e.holder = f.holder, e.holder # NoOne
               PROVE  e = f
      BY DEF Lone
  <2>1. e = d \/ (e \in contracts /\ e # c)
        BY <1>1
  <2>2. f = d \/ (f \in contracts /\ f # c)
        BY <1>1
  <2> QED BY <2>1, <2>2 DEF ContractsInv, Lone
<1> QED BY <1>2, <1>3 DEF ContractsInv

(* Contracts go, and new ones come, held by nobody. *)
LEMMA PostedInv ==
    ASSUME ContractsInv, NEW new, contracts' \subseteq contracts \cup new,
           \A c \in new : Sound(c) /\ c.holder = NoOne /\ c.done = 0, flown' = flown
    PROVE  ContractsInv'
<1>1. ASSUME NEW c \in contracts'
      PROVE  Sound(c)' /\ Own(c)'
  <2>1. Sound(c) /\ Own(c)
        BY <1>1 DEF ContractsInv, Own
  <2> QED BY <2>1 DEF Sound, Own
<1>2. Lone'
      BY DEF ContractsInv, Lone
<1> QED BY <1>1, <1>2 DEF ContractsInv

(* What the colony posts is sound. *)
LEMMA ColonyPosts ==
    ASSUME NEW open, NEW c \in Posted(open)
    PROVE  Sound(c) /\ c.holder = NoOne /\ c.done = 0
<1> USE CharterAssumption
<1> DEFINE Job(i, kind, qty, reward) ==
               [id |-> i, issuer |-> Colony, kind |-> kind, qty |-> qty, done |-> 0,
                reward |-> reward, paid |-> 0, holder |-> NoOne, lapsed |-> FALSE]
<1>1. PICK i : \/ c = [Contract(Colony, "supply", SupplyQty, SupplyReward) EXCEPT !.id = i]
               \/ c = [Contract(Colony, "patrol", PatrolBounty, PatrolReward) EXCEPT !.id = i]
      BY DEF Posted
<1>2. (SupplyReward * 0) \div SupplyQty = 0
      OBVIOUS
<1>3. CASE c = [Contract(Colony, "supply", SupplyQty, SupplyReward) EXCEPT !.id = i]
  <2>1. c = Job(i, "supply", SupplyQty, SupplyReward)
        BY <1>3 DEF Contract
  <2> QED BY <2>1, <1>2 DEF Sound
<1>4. CASE c = [Contract(Colony, "patrol", PatrolBounty, PatrolReward) EXCEPT !.id = i]
  <2>1. c = Job(i, "patrol", PatrolBounty, PatrolReward)
        BY <1>4 DEF Contract
  <2> QED BY <2>1 DEF Sound
<1> QED BY <1>1, <1>3, <1>4

-----------------------------------------------------------------------------
(* Each action keeps the contracts as they should be. *)

LEMMA LapseKeeps == ASSUME ContractsInv, NEW c \in contracts, Lapse(c) PROVE ContractsInv'
<1> DEFINE d == [c EXCEPT !.lapsed = TRUE]
<1>1. Sound(c) /\ Own(c)
      BY DEF ContractsInv
<1>2. Sound(d) /\ d.holder = c.holder /\ d.done = c.done /\ d.kind = c.kind
      BY <1>1 DEF Sound
<1>3. Becomes(c, d) /\ flown' = flown
      BY DEF Lapse
<1> HIDE DEF d
<1> QED BY <1>1, <1>2, <1>3, BecomesInv DEF ContractsInv, Lone, Own

LEMMA TickKeeps == ASSUME ContractsInv, Tick PROVE ContractsInv'
<1> DEFINE expired == {c \in contracts : c.lapsed}
           new == Posted(contracts \ expired)
<1>1. contracts' \subseteq contracts \cup new /\ flown' = flown
      BY DEF Tick
<1>2. \A c \in new : Sound(c) /\ c.holder = NoOne /\ c.done = 0
      BY ColonyPosts
<1> HIDE DEF new
<1> QED BY <1>1, <1>2, PostedInv

LEMMA PostKeeps ==
    ASSUME ContractsInv, NEW p \in Pilots, NEW qty \in Quantities, NEW reward \in Rewards,
           Post(p, qty, reward)
    PROVE  ContractsInv'
<1> DEFINE c == Contract(p, "supply", qty, reward)
<1>1. qty \in Nat \ {0} /\ reward \in Nat
      BY CharterAssumption
<1>2. (reward * 0) \div qty = 0
      BY <1>1
<1>3. Sound(c) /\ c.holder = NoOne /\ c.done = 0
      BY <1>1, <1>2, CharterAssumption DEF Sound, Contract
<1> DEFINE new == {c}
<1>4. contracts' \subseteq contracts \cup new /\ flown' = flown
      BY DEF Post
<1>5. \A e \in new : Sound(e) /\ e.holder = NoOne /\ e.done = 0
      BY <1>3
<1> HIDE DEF new
<1> QED BY <1>4, <1>5, PostedInv

(* A contract closed. *)
LEMMA ClosedKeeps ==
    ASSUME ContractsInv, contracts' \subseteq contracts, flown' = flown
    PROVE  ContractsInv'
<1> DEFINE new == {}
<1>1. \A c \in new : Sound(c) /\ c.holder = NoOne /\ c.done = 0
      OBVIOUS
<1>2. contracts' \subseteq contracts \cup new
      OBVIOUS
<1> HIDE DEF new
<1> QED BY <1>1, <1>2, PostedInv

LEMMA DeliverKeeps ==
    ASSUME ContractsInv, NEW p \in Pilots, NEW c \in contracts, NEW n \in Nat \ {0},
           Deliver(p, c, n)
    PROVE  ContractsInv'
<1>1. Sound(c) /\ Own(c) /\ flown' = flown /\ c.kind = "supply" /\ n <= c.qty - c.done
      BY DEF ContractsInv, Deliver
<1>2. CASE Filled(c, n)
      BY <1>2, ClosedKeeps DEF Deliver
<1>3. CASE ~Filled(c, n)
  <2>1. /\ c.reward \in Nat /\ c.qty \in Nat \ {0} /\ c.done \in Nat /\ c.done < c.qty
        /\ c.paid = pay_for(c, c.done)
        BY <1>1 DEF Sound, pay_for
  <2>2. c.done + n < c.qty /\ c.done + n \in 0..c.qty /\ c.done \in 0..(c.done + n)
        BY <1>1, <1>3, <2>1 DEF Filled
  <2>3. pay_for(c, c.done + n) \in Nat /\ pay_for(c, c.done) \in Nat
        BY <2>1, <2>2, Share DEF pay_for
  <2>4. c.paid + pay(c, n) = pay_for(c, c.done + n)
        BY <2>1, <2>3 DEF pay
  <2> DEFINE done == c.done + n
             paid == c.paid + pay(c, n)
  <2>5. done \in Nat /\ paid \in Nat /\ paid = pay_for(c, done) /\ done < c.qty
        BY <2>1, <2>2, <2>3, <2>4
  <2>6. Becomes(c, [c EXCEPT !.done = done, !.paid = paid])
        BY <1>3 DEF Deliver
  <2> HIDE DEF done, paid
  <2> DEFINE e == [c EXCEPT !.done = done, !.paid = paid]
  <2>7. /\ e \in [id : {c.id}, issuer : Pilots \cup {Colony}, kind : {"supply", "patrol"},
                   qty : Nat \ {0}, done : Nat, reward : Nat, paid : Nat,
                   holder : Pilots \cup {NoOne}, lapsed : BOOLEAN]
        /\ e.id = c.id /\ e.kind = "supply" /\ e.qty = c.qty /\ e.reward = c.reward
        /\ e.done = done /\ e.paid = paid /\ e.holder = c.holder /\ c.holder = NoOne
        BY <1>1, <2>1, <2>5 DEF Sound
  <2> HIDE DEF e
  <2>8. Sound(e)
        BY <2>5, <2>7 DEF Sound, pay_for
  <2>9. Becomes(c, e)
        BY <2>6 DEF e
  <2> QED BY <1>1, <2>7, <2>8, <2>9, BecomesInv DEF ContractsInv
<1> QED BY <1>2, <1>3

LEMMA TakeKeeps ==
    ASSUME ContractsInv, NEW p \in Pilots, NEW c \in contracts, Take(p, c)
    PROVE  ContractsInv'
<1> DEFINE d == [c EXCEPT !.holder = p, !.lapsed = FALSE]
<1>1. /\ Sound(c) /\ Own(c) /\ c.kind = "patrol" /\ c.holder = NoOne
      /\ \A e \in contracts : e.holder # p
      BY DEF ContractsInv, Take
<1>2. c.done = 0
      BY <1>1 DEF Sound, Own
<1>7. /\ d.holder = p /\ d.done = c.done /\ d.kind = "patrol" /\ d.id = c.id
      /\ d \in [id : {c.id}, issuer : Pilots \cup {Colony}, kind : {"supply", "patrol"},
                 qty : Nat \ {0}, done : Nat, reward : Nat, paid : Nat,
                 holder : Pilots \cup {NoOne}, lapsed : BOOLEAN]
      BY <1>1 DEF Sound
<1>3. Becomes(c, d) /\ flown' = [flown EXCEPT ![p] = 0]
      BY DEF Take
<1>4. flown' \in [Pilots -> Nat] /\ flown'[p] = 0
      BY <1>3 DEF ContractsInv
<1>5. ASSUME NEW e \in contracts, e.holder # NoOne
      PROVE  flown'[e.holder] = flown[e.holder]
  <2>1. e.holder \in Pilots /\ e.holder # p
        BY <1>1, <1>5 DEF ContractsInv, Sound
  <2> QED BY <1>3, <2>1 DEF ContractsInv
<1>6. p # NoOne
      BY CharterAssumption
<1> HIDE DEF d
<1>8. Sound(d)
      BY <1>7 DEF Sound
<1> QED BY <1>1, <1>2, <1>3, <1>4, <1>5, <1>6, <1>7, <1>8, BecomesInv

LEMMA DropPatrolKeeps ==
    ASSUME ContractsInv, NEW p \in Pilots, NEW c \in contracts, DropPatrol(p, c)
    PROVE  ContractsInv'
<1> DEFINE d == GivenUp(c)
<1>1. Sound(c) /\ Own(c) /\ c.holder = p
      BY DEF ContractsInv, DropPatrol
<1>2. /\ d.holder = NoOne /\ d.done = 0 /\ d.kind = c.kind /\ d.id = c.id
      /\ d.qty = c.qty /\ d.reward = c.reward /\ d.paid = c.paid
      /\ d \in [id : {c.id}, issuer : Pilots \cup {Colony}, kind : {"supply", "patrol"},
                 qty : Nat \ {0}, done : Nat, reward : Nat, paid : Nat,
                 holder : Pilots \cup {NoOne}, lapsed : BOOLEAN]
      BY <1>1 DEF Sound, GivenUp
<1>3. Becomes(c, d) /\ flown' = flown
      BY DEF DropPatrol
<1> HIDE DEF d
<1>4. c.kind = "patrol"
      BY <1>1, CharterAssumption DEF Sound
<1>5. Sound(d)
      BY <1>1, <1>2, <1>4 DEF Sound
<1> QED BY <1>1, <1>2, <1>3, <1>5, BecomesInv DEF ContractsInv

LEMMA FliesKeeps ==
    ASSUME ContractsInv, NEW p \in Pilots, NEW c \in contracts, NEW b \in Bounties,
           Flies(p, c, b)
    PROVE  ContractsInv'
<1> DEFINE earned == IF c.done + b < c.qty THEN c.done + b ELSE c.qty
           d == [c EXCEPT !.done = earned]
<1>1. /\ Sound(c) /\ Own(c) /\ c.holder = p /\ p # NoOne
      /\ flown' = [flown EXCEPT ![p] = @ + b]
      /\ b \in Nat \ {0} /\ flown \in [Pilots -> Nat]
      BY CharterAssumption DEF ContractsInv, Flies
<1>2. c.kind = "patrol" /\ c.done \in Nat /\ c.qty \in Nat \ {0} /\ c.done <= flown[p]
      BY <1>1 DEF Sound, Own
<1>3. earned \in Nat /\ earned <= c.done + b
      BY <1>1, <1>2
<1>4. flown' \in [Pilots -> Nat] /\ flown'[p] = flown[p] + b
      BY <1>1
<1>5. ASSUME NEW e \in contracts, e # c, e.holder # NoOne
      PROVE  flown'[e.holder] = flown[e.holder]
  <2>1. e.holder \in Pilots /\ e.holder # p
        BY <1>1, <1>5 DEF ContractsInv, Sound, Lone
  <2> QED BY <1>1, <2>1
<1>6. CASE earned < c.qty
  <2>1. Becomes(c, d)
        BY <1>6 DEF Flies
  <2>2. /\ d.holder = p /\ d.done = earned /\ d.kind = "patrol" /\ d.id = c.id
        /\ d \in [id : {c.id}, issuer : Pilots \cup {Colony}, kind : {"supply", "patrol"},
                   qty : Nat \ {0}, done : Nat, reward : Nat, paid : Nat,
                   holder : Pilots \cup {NoOne}, lapsed : BOOLEAN]
        BY <1>1, <1>2, <1>3 DEF Sound
  <2> HIDE DEF d
  <2>3. Sound(d)
        BY <2>2 DEF Sound
  <2>4. earned <= flown'[p]
        BY <1>1, <1>2, <1>3, <1>4
  <2> HIDE DEF earned
  <2>5. \A e \in contracts : e # c => e.holder # d.holder \/ e.holder = NoOne
        BY <1>1, <2>2 DEF ContractsInv, Lone
  <2> QED BY <1>1, <1>4, <1>5, <2>1, <2>2, <2>3, <2>4, <2>5, BecomesInv
<1>7. CASE ~(earned < c.qty)
  <2>1. contracts' = contracts \ {c}
        BY <1>7 DEF Flies
  <2>2. ASSUME NEW e \in contracts'
        PROVE  Sound(e)' /\ Own(e)'
    <3>1. e \in contracts /\ e # c /\ Sound(e) /\ Own(e)
          BY <2>1, <2>2 DEF ContractsInv
    <3>2. e.holder # NoOne => flown'[e.holder] = flown[e.holder]
          BY <1>5, <3>1
    <3> QED BY <3>1, <3>2 DEF Sound, Own
  <2>3. Lone'
        BY <2>1 DEF ContractsInv, Lone
  <2> QED BY <1>4, <2>2, <2>3 DEF ContractsInv
<1> QED BY <1>6, <1>7

(* So does every step. *)
LEMMA ContractsKept == ContractsInv /\ [Next]_vars => ContractsInv'
<1> SUFFICES ASSUME ContractsInv, [Next]_vars PROVE ContractsInv'
    OBVIOUS
<1>1. ASSUME UNCHANGED <<contracts, flown>> PROVE ContractsInv'
      BY <1>1 DEF ContractsInv, Sound, Own, Lone
<1>2. CASE UNCHANGED vars
      BY <1>1, <1>2 DEF vars, board
<1>3. CASE Tick
      BY <1>3, TickKeeps
<1>4. ASSUME NEW c \in contracts, Lapse(c) PROVE ContractsInv'
      BY <1>4, LapseKeeps
<1>5. ASSUME NEW p \in Pilots, Asks(p) PROVE ContractsInv'
  <2>1. ASSUME NEW qty \in Quantities, NEW reward \in Rewards, Post(p, qty, reward)
        PROVE  ContractsInv'
        BY <2>1, PostKeeps
  <2>2. ASSUME NEW c \in contracts, Withdraw(p, c) PROVE ContractsInv'
        BY <2>2, ClosedKeeps DEF Withdraw
  <2>3. ASSUME NEW c \in contracts, Take(p, c) PROVE ContractsInv'
        BY <2>3, TakeKeeps
  <2>4. ASSUME NEW c \in contracts, DropPatrol(p, c) PROVE ContractsInv'
        BY <2>4, DropPatrolKeeps
  <2>5. ASSUME NEW c \in contracts, NEW n \in 1..stores[p], Deliver(p, c, n)
        PROVE  ContractsInv'
    <3>1. n \in Nat \ {0}
          OBVIOUS
    <3> QED BY <2>5, <3>1, DeliverKeeps
  <2>6. ASSUME NEW n \in 1..stores[p], Contribute(p, n) PROVE ContractsInv'
        BY <1>1, <2>6 DEF Contribute
  <2>7. CASE Sign(p)
        BY <1>1, <2>7 DEF Sign
  <2> QED BY <1>5, <2>1, <2>2, <2>3, <2>4, <2>5, <2>6, <2>7 DEF Asks
<1>6. ASSUME NEW p \in Pilots, NEW c \in contracts, NEW b \in Bounties, Flies(p, c, b)
      PROVE  ContractsInv'
      BY <1>6, FliesKeeps
<1>7. ASSUME NEW p \in Pilots, NEW there \in BOOLEAN, Settle(p, there) PROVE ContractsInv'
      BY <1>1, <1>7 DEF Settle
<1> QED BY <1>2, <1>3, <1>4, <1>5, <1>6, <1>7 DEF Next

LEMMA ContractsAlways == Spec => []ContractsInv
<1>1. Init => ContractsInv
      BY DEF Init, ContractsInv, Lone
<1> QED BY <1>1, ContractsKept, PTL DEF Spec

(* However its goods are delivered, in whatever parts, a contract has paid exactly its
   share of the reward, rounded down once, out of its own escrow (Board::deliver,
   Board::close). *)
THEOREM PaysProRata == Spec => []PaidProRata
BY ContractsAlways, InvPays, PTL

(* A patrol pays for bounties its holder earned since they took it, and a pilot holds one
   patrol at a time (Board::take, drop_patrol, bounties). *)
THEOREM PatrolPaysItsOwn == Spec => []PatrolIsOwn
BY ContractsAlways, InvOwns, PTL

-----------------------------------------------------------------------------
(* Standing only grows, by what the colony pays. *)
LEMMA PaidKeepsVote ==
    ASSUME VoteInv, NEW p \in Pilots, NEW n \in Nat, colony_pays(p, n),
           UNCHANGED <<signatures, era>>, era = 1 => works_done'
    PROVE  VoteInv'
<1>1. /\ standing' \in [Pilots -> Nat]
      /\ \A q \in Pilots : standing[q] > 0 => standing'[q] > 0
      BY DEF VoteInv, colony_pays
<1>2. Signers' = Signers /\ Signers \subseteq Pilots
      BY DEF Signers, VoteInv
<1>3. \A q \in Signers : standing'[q] > 0
      BY <1>1, <1>2 DEF VoteInv
<1> HIDE DEF Signers
<1> QED BY <1>1, <1>2, <1>3 DEF VoteInv

LEMMA DeliverKeepsVote ==
    ASSUME ContractsInv, VoteInv, NEW p \in Pilots, NEW c \in contracts,
           NEW n \in Nat \ {0}, Deliver(p, c, n), c.issuer = Colony
    PROVE  VoteInv'
<1>1. /\ Sound(c) /\ c.kind = "supply" /\ n <= c.qty - c.done
      /\ colony_pays(p, pay(c, n)) /\ UNCHANGED <<signatures, era, built>>
      BY DEF ContractsInv, Deliver
<1>2. /\ c.reward \in Nat /\ c.qty \in Nat \ {0} /\ c.done \in Nat
      BY <1>1 DEF Sound
<1>3. c.done + n \in 0..c.qty /\ c.done \in 0..(c.done + n)
      BY <1>1, <1>2
<1>4. /\ pay_for(c, c.done + n) \in Nat /\ pay_for(c, c.done) \in Nat
      /\ pay_for(c, c.done) <= pay_for(c, c.done + n)
      BY <1>2, <1>3, Share DEF pay_for
<1>5. pay(c, n) \in Nat
      BY <1>4 DEF pay
<1>6. era = 1 => works_done'
      BY <1>1 DEF VoteInv, works_done
<1> HIDE DEF pay
<1> QED BY <1>1, <1>5, <1>6, PaidKeepsVote

LEMMA SignKeepsVote ==
    ASSUME VoteInv, NEW p \in Pilots, Sign(p) PROVE VoteInv'
<1>1. /\ vote_open /\ standing[p] > 0 /\ p \notin Signers
      /\ signatures' = Append(signatures, p)
      /\ era' = IF Len(signatures) + 1 < Signatures THEN era ELSE 1
      /\ UNCHANGED <<standing, built>>
      BY DEF Sign, Signers
<1>2. signatures \in Seq(Pilots) /\ IsFiniteSet(Signers) /\ Cardinality(Signers) = Len(signatures)
      BY DEF VoteInv
<1>3. Signers' = Signers \cup {p}
      BY <1>1, <1>2 DEF Signers
<1>4. IsFiniteSet(Signers') /\ Cardinality(Signers') = Cardinality(Signers) + 1
      BY <1>1, <1>2, <1>3, FS_AddElement
<1>5. signatures' \in Seq(Pilots) /\ Len(signatures') = Len(signatures) + 1
      BY <1>1, <1>2
<1>6. \A q \in Signers' : standing'[q] > 0
      BY <1>1, <1>3 DEF VoteInv
<1>7. era' \in {0, 1}
      BY <1>1 DEF VoteInv
<1>8. era' = 1 => works_done' /\ Len(signatures') >= Signatures
      BY <1>1, <1>5, CharterAssumption DEF vote_open, works_done
<1> HIDE DEF Signers
<1> QED BY <1>1, <1>2, <1>4, <1>5, <1>6, <1>7, <1>8 DEF VoteInv

LEMMA VoteKept == ContractsInv /\ VoteInv /\ [Next]_vars => VoteInv'
<1> SUFFICES ASSUME ContractsInv, VoteInv, [Next]_vars PROVE VoteInv'
    OBVIOUS
<1>1. ASSUME UNCHANGED <<standing, signatures, era, built>> PROVE VoteInv'
  <2>1. Signers' = Signers /\ works_done' = works_done
        BY <1>1 DEF Signers, works_done
  <2> HIDE DEF Signers
  <2> QED BY <1>1, <2>1 DEF VoteInv
<1>2. CASE UNCHANGED vars
      BY <1>1, <1>2 DEF vars, board
<1>3. CASE Tick
      BY <1>1, <1>3 DEF Tick
<1>4. ASSUME NEW c \in contracts, Lapse(c) PROVE VoteInv'
      BY <1>1, <1>4 DEF Lapse
<1>5. ASSUME NEW p \in Pilots, Asks(p) PROVE VoteInv'
  <2>1. ASSUME NEW qty \in Quantities, NEW reward \in Rewards, Post(p, qty, reward)
        PROVE  VoteInv'
        BY <1>1, <2>1 DEF Post
  <2>2. ASSUME NEW c \in contracts, Withdraw(p, c) PROVE VoteInv'
        BY <1>1, <2>2 DEF Withdraw
  <2>3. ASSUME NEW c \in contracts, Take(p, c) PROVE VoteInv'
        BY <1>1, <2>3 DEF Take
  <2>4. ASSUME NEW c \in contracts, DropPatrol(p, c) PROVE VoteInv'
        BY <1>1, <2>4 DEF DropPatrol
  <2>5. ASSUME NEW c \in contracts, NEW n \in 1..stores[p], Deliver(p, c, n)
        PROVE  VoteInv'
    <3>1. n \in Nat \ {0}
          OBVIOUS
    <3>2. CASE c.issuer = Colony
          BY <2>5, <3>1, <3>2, DeliverKeepsVote
    <3>3. CASE c.issuer # Colony
          BY <1>1, <2>5, <3>3 DEF Deliver
    <3> QED BY <3>2, <3>3
  <2>6. ASSUME NEW n \in 1..stores[p], Contribute(p, n) PROVE VoteInv'
    <3>1. n * WorksPrice \in Nat
          BY CharterAssumption
    <3>2. colony_pays(p, n * WorksPrice) /\ era = 0 /\ UNCHANGED <<signatures, era>>
          BY <2>6 DEF Contribute
    <3> QED BY <3>1, <3>2, PaidKeepsVote
  <2>7. CASE Sign(p)
        BY <2>7, SignKeepsVote
  <2> QED BY <1>5, <2>1, <2>2, <2>3, <2>4, <2>5, <2>6, <2>7 DEF Asks
<1>6. ASSUME NEW p \in Pilots, NEW c \in contracts, NEW b \in Bounties, Flies(p, c, b)
      PROVE  VoteInv'
  <2>1. UNCHANGED <<signatures, era, built>> /\ c.reward \in Nat
        BY <1>6 DEF Flies, ContractsInv, Sound
  <2>2. CASE UNCHANGED standing
        BY <1>1, <2>1, <2>2
  <2>3. CASE colony_pays(p, c.reward)
    <3>1. era = 1 => works_done'
          BY <2>1 DEF VoteInv, works_done
    <3> QED BY <2>1, <2>3, <3>1, PaidKeepsVote
  <2> QED BY <1>6, <2>2, <2>3 DEF Flies
<1>7. ASSUME NEW p \in Pilots, NEW there \in BOOLEAN, Settle(p, there) PROVE VoteInv'
      BY <1>1, <1>7 DEF Settle
<1> QED BY <1>2, <1>3, <1>4, <1>5, <1>6, <1>7 DEF Next

LEMMA VoteAlways == Spec => []VoteInv
<1>1. Init => VoteInv
  <2> SUFFICES ASSUME Init PROVE VoteInv
      OBVIOUS
  <2>1. signatures = <<>> /\ era = 0 /\ standing \in [Pilots -> Nat]
        BY DEF Init
  <2>2. Signers = {}
        BY <2>1 DEF Signers
  <2>3. IsFiniteSet(Signers) /\ Cardinality(Signers) = 0
        BY <2>2, FS_EmptySet
  <2> QED BY <2>1, <2>2, <2>3 DEF VoteInv
<1> QED BY <1>1, ContractsAlways, VoteKept, PTL DEF Spec

(* The colony's era never begins short of its works, of a signature, or with one pilot's
   twice (Board::sign). *)
THEOREM EraIsSigned == Spec => []CharterIsSigned
BY VoteAlways, InvSigned, PTL

-----------------------------------------------------------------------------
(* The contracts are told apart by their numbers, and those of pilots are for goods. *)
IdsInv ==
    /\ IsFiniteSet(contracts) /\ next_id \in 1..MaxIds + 1
    /\ \A c \in contracts : /\ c.id \in 1..MaxIds /\ c.id < next_id
                            /\ c.issuer \in Pilots => c.kind = "supply"
    /\ \A c, d \in contracts : c.id = d.id => c = d

LEMMA Finite == IsFiniteSet(Pilots)
BY CharterAssumption

LEMMA SoundIs ==
    ASSUME NEW c, Sound(c)
    PROVE  /\ DOMAIN c = {"id", "issuer", "kind", "qty", "done", "reward", "paid", "holder", "lapsed"}
           /\ c.issuer \in Pilots \cup {Colony} /\ c.kind \in {"supply", "patrol"}
           /\ c.qty \in Nat \ {0} /\ c.done \in Nat /\ c.reward \in Nat /\ c.paid \in Nat
           /\ c.holder \in Pilots \cup {NoOne} /\ c.lapsed \in BOOLEAN
           /\ unpaid(c) \in Int /\ unpaid(c) = c.reward - c.paid
           /\ c.kind = "supply" => unpaid(c) \in Nat
<1>1. /\ DOMAIN c = {"id", "issuer", "kind", "qty", "done", "reward", "paid", "holder", "lapsed"}
      /\ c.issuer \in Pilots \cup {Colony} /\ c.kind \in {"supply", "patrol"}
      /\ c.qty \in Nat \ {0} /\ c.done \in Nat /\ c.reward \in Nat /\ c.paid \in Nat
      /\ c.holder \in Pilots \cup {NoOne} /\ c.lapsed \in BOOLEAN
      BY DEF Sound
<1>2. unpaid(c) = c.reward - c.paid
      BY DEF unpaid
<1>3. c.kind = "supply" => c.paid <= c.reward
  <2> SUFFICES ASSUME c.kind = "supply" PROVE c.paid <= c.reward
      OBVIOUS
  <2>1. c.done < c.qty /\ c.paid = (c.reward * c.done) \div c.qty
        BY DEF Sound
  <2>2. c.done \in 0..c.qty
        BY <1>1, <2>1
  <2>3. (c.reward * c.done) \div c.qty <= c.reward
        BY <1>1, <2>2, Share
  <2> QED BY <2>1, <2>3
<1> QED BY <1>1, <1>2, <1>3

(* A contract replaced by one of its number. *)
LEMMA BecomesIds ==
    ASSUME IdsInv, NEW c \in contracts, NEW d, Becomes(c, d), d.id = c.id,
           d.issuer = c.issuer, d.kind = c.kind, next_id' = next_id
    PROVE  IdsInv' /\ d \notin contracts \ {c}
<1>1. contracts' = (contracts \ {c}) \cup {d}
      BY DEF Becomes
<1>2. IsFiniteSet(contracts \ {c})
      BY FS_RemoveElement DEF IdsInv
<1>3. IsFiniteSet(contracts')
      BY <1>1, <1>2, FS_AddElement
<1>4. d \notin contracts \ {c}
      BY DEF IdsInv
<1>5. /\ \A e \in contracts' : /\ e.id \in 1..MaxIds /\ e.id < next_id
                               /\ e.issuer \in Pilots => e.kind = "supply"
      /\ \A e, f \in contracts' : e.id = f.id => e = f
      BY <1>1 DEF IdsInv
<1> QED BY <1>3, <1>4, <1>5 DEF IdsInv

LEMMA FewerIds ==
    ASSUME IdsInv, contracts' \subseteq contracts, next_id' = next_id
    PROVE  IdsInv'
<1>1. IsFiniteSet(contracts')
      BY FS_Subset DEF IdsInv
<1> QED BY <1>1 DEF IdsInv

LEMMA PostIds ==
    ASSUME IdsInv, NEW p \in Pilots, NEW qty, NEW reward, Post(p, qty, reward)
    PROVE  IdsInv' /\ Contract(p, "supply", qty, reward) \notin contracts
<1> DEFINE c == Contract(p, "supply", qty, reward)
<1>1. contracts' = contracts \cup {c} /\ next_id' = next_id + 1 /\ next_id <= MaxIds
      BY DEF Post
<1>2. c.id = next_id /\ c.kind = "supply"
      BY DEF Contract
<1> HIDE DEF c
<1>3. IsFiniteSet(contracts')
      BY <1>1, FS_AddElement DEF IdsInv
<1>4. next_id \in Nat \ {0} /\ MaxIds \in Nat /\ next_id' \in 1..MaxIds + 1 /\ next_id \in 1..MaxIds
      BY <1>1, CharterAssumption DEF IdsInv
<1>5. \A e \in contracts : e.id \in Nat /\ e.id < next_id
      BY CharterAssumption DEF IdsInv
<1>6. c \notin contracts
      BY <1>2, <1>4, <1>5
<1>7. /\ \A e \in contracts' : /\ e.id \in 1..MaxIds /\ e.id < next_id'
                               /\ e.issuer \in Pilots => e.kind = "supply"
      /\ \A e, f \in contracts' : e.id = f.id => e = f
      BY <1>1, <1>2, <1>4, <1>5 DEF IdsInv
<1> QED BY <1>3, <1>4, <1>6, <1>7 DEF IdsInv, c

(* The colony's new contracts have the next numbers. *)
LEMMA PostedIds ==
    ASSUME IdsInv, NEW open \in SUBSET contracts
    PROVE  LET new == Posted(open)
           IN  /\ IsFiniteSet(new) /\ Cardinality(new) \in Nat
               /\ next_id + Cardinality(new) <= MaxIds + 1
               /\ \A c \in new : /\ c.id \in next_id..(next_id + Cardinality(new) - 1)
                                 /\ c.issuer = Colony
               /\ \A c, d \in new : c.id = d.id => c = d
<1> DEFINE supply == \E c \in open : c.issuer = Colony /\ c.kind = "supply"
           patrols == Cardinality({c \in open : c.kind = "patrol"})
           jobs == (IF supply THEN <<>> ELSE <<"supply">>)
                   \o (IF works_done THEN [i \in 1..(Patrols - patrols) |-> "patrol"] ELSE <<>>)
           job(i) == IF jobs[i] = "supply" THEN Contract(Colony, "supply", SupplyQty, SupplyReward)
                     ELSE Contract(Colony, "patrol", PatrolBounty, PatrolReward)
           made(i) == [job(i) EXCEPT !.id = next_id + i - 1]
           is == {j \in DOMAIN jobs : next_id + j - 1 <= MaxIds}
           new == Posted(open)
<1>1. new = {made(i) : i \in is}
      BY DEF Posted
<1>2. next_id \in Nat \ {0} /\ MaxIds \in Nat /\ next_id <= MaxIds + 1
      BY CharterAssumption DEF IdsInv
<1>3. PICK len \in Nat : DOMAIN jobs = 1..len
  <2>1. patrols \in Nat
    <3>1. IsFiniteSet({c \in open : c.kind = "patrol"})
          BY FS_Subset DEF IdsInv
    <3> QED BY <3>1, FS_CardinalityType
  <2>2. PICK k \in Nat : 1..(Patrols - patrols) = 1..k
    <3> HIDE DEF patrols
    <3>1. CASE Patrols - patrols >= 0
      <4>1. Patrols - patrols \in Nat
            BY <2>1, <3>1, CharterAssumption
      <4> QED BY <4>1
    <3>2. CASE Patrols - patrols < 0
      <4>1. 1..(Patrols - patrols) = 1..0
            BY <2>1, <3>2, CharterAssumption
      <4> QED BY <4>1
    <3> QED BY <2>1, <3>1, <3>2, CharterAssumption
  <2>3. [i \in 1..k |-> "patrol"] \in Seq({"supply", "patrol"})
        OBVIOUS
  <2>4. [i \in 1..(Patrols - patrols) |-> "patrol"] = [i \in 1..k |-> "patrol"]
        BY <2>2, Zenon
  <2>5. PICK s \in Seq({"supply", "patrol"}) : (IF works_done THEN [i \in 1..(Patrols - patrols) |-> "patrol"] ELSE <<>>) = s
    <3>1. <<>> \in Seq({"supply", "patrol"})
          OBVIOUS
    <3> QED BY <2>3, <2>4, <3>1, Zenon
  <2>6. PICK r \in Seq({"supply", "patrol"}) : (IF supply THEN <<>> ELSE <<"supply">>) = r
    <3>1. <<>> \in Seq({"supply", "patrol"}) /\ <<"supply">> \in Seq({"supply", "patrol"})
          OBVIOUS
    <3> QED BY <3>1, Zenon
  <2>7. jobs = r \o s
        BY <2>5, <2>6, Zenon
  <2>8. r \o s \in Seq({"supply", "patrol"})
        OBVIOUS
  <2> HIDE DEF jobs
  <2>9. DOMAIN jobs = 1..Len(r \o s) /\ Len(r \o s) \in Nat
        BY <2>7, <2>8
  <2> QED BY <2>9
<1> HIDE DEF jobs
<1>4. PICK m \in Nat : is = 1..m /\ next_id + m <= MaxIds + 1
  <2>1. CASE next_id + len <= MaxIds + 1
    <3>1. is = 1..len
          BY <1>2, <1>3, <2>1
    <3> QED BY <2>1, <3>1
  <2>2. CASE next_id + len > MaxIds + 1
    <3>1. MaxIds + 1 - next_id \in Nat
          BY <1>2
    <3>2. is = 1..(MaxIds + 1 - next_id)
          BY <1>2, <1>3, <2>2, <3>1
    <3>3. next_id + (MaxIds + 1 - next_id) <= MaxIds + 1
          BY <1>2
    <3> QED BY <3>1, <3>2, <3>3
  <2> QED BY <1>2, <2>1, <2>2
<1>5. \A i \in is : made(i).id = next_id + i - 1 /\ made(i).issuer = Colony
      BY DEF Contract
<1>6. IsFiniteSet(new) /\ Cardinality(new) = m
  <2> DEFINE f == [i \in 1..m |-> made(i)]
  <2>1. IsFiniteSet(1..m) /\ Cardinality(1..m) = m
        BY FS_Interval
  <2>2. new = {made(i) : i \in 1..m}
        BY <1>1, <1>4, Zenon
  <2>3. \A i \in 1..m : f[i] = made(i)
        OBVIOUS
  <2>4. \A i \in 1..m : made(i).id = next_id + i - 1
        BY <1>4, <1>5
  <2>5. f \in [1..m -> new] /\ \A c \in new : \E i \in 1..m : f[i] = c
        BY <2>2, <2>3
  <2> HIDE DEF f, made, new
  <2>6. \A i, j \in 1..m : f[i] = f[j] => i = j
    <3> SUFFICES ASSUME NEW i \in 1..m, NEW j \in 1..m, f[i] = f[j] PROVE i = j
        OBVIOUS
    <3>1. made(i) = made(j)
          BY <2>3
    <3>2. next_id + i - 1 = next_id + j - 1
          BY <2>4, <3>1
    <3> QED BY <1>2, <3>2
  <2>7. f \in Bijection(1..m, new)
        BY <2>5, <2>6 DEF Bijection, Injection, Surjection, IsInjective
  <2>8. ExistsBijection(1..m, new)
        BY <2>7 DEF ExistsBijection
  <2> QED BY <2>1, <2>8, FS_Bijection
<1>7. ASSUME NEW c \in new
      PROVE  \E i \in 1..m : c = made(i) /\ c.id = next_id + i - 1 /\ c.issuer = Colony
  <2>1. PICK i \in is : c = made(i)
        BY <1>1
  <2>2. c.id = next_id + i - 1 /\ c.issuer = Colony
        BY <1>5, <2>1
  <2> QED BY <1>4, <2>1, <2>2
<1> HIDE DEF made, new
<1>8. ASSUME NEW c \in new
      PROVE  c.id \in next_id..(next_id + m - 1) /\ c.issuer = Colony
  <2>1. PICK i \in 1..m : c.id = next_id + i - 1 /\ c.issuer = Colony
        BY <1>7
  <2> QED BY <1>2, <2>1
<1>9. ASSUME NEW c \in new, NEW d \in new, c.id = d.id
      PROVE  c = d
  <2>1. PICK i \in 1..m : c = made(i) /\ c.id = next_id + i - 1
        BY <1>7
  <2>2. PICK j \in 1..m : d = made(j) /\ d.id = next_id + j - 1
        BY <1>7
  <2>3. i = j
        BY <1>2, <1>9, <2>1, <2>2
  <2> QED BY <2>1, <2>2, <2>3
<1>10. /\ IsFiniteSet(new) /\ Cardinality(new) \in Nat
       /\ next_id + Cardinality(new) <= MaxIds + 1
       /\ \A c \in new : c.id \in next_id..(next_id + Cardinality(new) - 1) /\ c.issuer = Colony
       /\ \A c, d \in new : c.id = d.id => c = d
      BY <1>4, <1>6, <1>8, <1>9
<1> QED BY <1>10 DEF new

LEMMA TickIds ==
    ASSUME IdsInv, Tick
    PROVE  LET expired == {c \in contracts : c.lapsed}
               new == Posted(contracts \ expired)
           IN  /\ IdsInv' /\ IsFiniteSet(new)
               /\ \A c \in new : c \notin contracts /\ c.issuer = Colony
<1> DEFINE expired == {c \in contracts : c.lapsed}
           left == contracts \ expired
           new == Posted(left)
           m == Cardinality(new)
<1>1. /\ contracts' = left \cup new /\ next_id' = next_id + m
      BY DEF Tick
<1>2. /\ IsFiniteSet(new) /\ m \in Nat /\ next_id + m <= MaxIds + 1
      /\ \A c \in new : c.id \in next_id..(next_id + m - 1) /\ c.issuer = Colony
      /\ \A c, d \in new : c.id = d.id => c = d
  <2>1. left \in SUBSET contracts
        OBVIOUS
  <2> HIDE DEF left
  <2> QED BY <2>1, PostedIds
<1>3. left \subseteq contracts
      OBVIOUS
<1> HIDE DEF new, left
<1>4. next_id \in Nat \ {0} /\ MaxIds \in Nat
      BY CharterAssumption DEF IdsInv
<1>5. \A c \in contracts : c.id \in 1..MaxIds /\ c.id < next_id
      BY DEF IdsInv
<1> HIDE DEF m
<1>6. \A c \in new : c.id \in 1..MaxIds /\ c.id >= next_id /\ c.id < next_id + m
      BY <1>2, <1>4
<1>7. IsFiniteSet(contracts')
  <2>1. IsFiniteSet(left)
        BY <1>3, FS_Subset DEF IdsInv
  <2> QED BY <1>1, <1>2, <2>1, FS_Union
<1>8. next_id' \in 1..MaxIds + 1
      BY <1>1, <1>2, <1>4
<1>9. \A c \in contracts' : /\ c.id \in 1..MaxIds /\ c.id < next_id'
                            /\ c.issuer \in Pilots => c.kind = "supply"
  <2> SUFFICES ASSUME NEW c \in contracts'
               PROVE  /\ c.id \in 1..MaxIds /\ c.id < next_id'
                      /\ c.issuer \in Pilots => c.kind = "supply"
      OBVIOUS
  <2>1. CASE c \in left
        BY <1>1, <1>2, <1>3, <1>4, <1>5, <2>1 DEF IdsInv
  <2>2. CASE c \in new
        BY <1>1, <1>2, <1>6, <2>2, CharterAssumption
  <2> QED BY <1>1, <2>1, <2>2
<1>10. \A c \in new : c \notin contracts
      BY <1>4, <1>5, <1>6
<1>11. \A c, d \in contracts' : c.id = d.id => c = d
  <2>1. \A c \in left, d \in new : c.id # d.id
        BY <1>3, <1>4, <1>5, <1>6
  <2>2. \A c, d \in left : c.id = d.id => c = d
        BY <1>3 DEF IdsInv
  <2> QED BY <1>1, <1>2, <2>1, <2>2
<1>12. IdsInv'
      BY <1>7, <1>8, <1>9, <1>11 DEF IdsInv
<1> QED BY <1>2, <1>10, <1>12 DEF new, left

-----------------------------------------------------------------------------
(* The credits and the goods.  The colony's contracts have no escrow. *)

Escrow(c) == IF c.issuer \in Pilots THEN unpaid(c) ELSE 0
EscrowIn(cs) == SumFunctionOnSet([c \in cs |-> Escrow(c)], cs)

Owed(acc) == [p \in Pilots |-> acc[p].credits]
Kept(acc) == [p \in Pilots |-> acc[p].goods]

Purses ==
    /\ accounts \in [Pilots -> [credits : Nat, goods : Nat]] /\ at_desk \in [Pilots -> Nat]
    /\ credits \in [Pilots -> Nat] /\ stores \in [Pilots -> Nat]
    /\ built \in 0..WorksNeed /\ colony_paid \in Nat /\ received \in Nat

AllCredits(cr, desk, acc, cs) ==
    SumFunctionOnSet(cr, Pilots) + SumFunctionOnSet(desk, Pilots)
        + SumFunctionOnSet(Owed(acc), Pilots) + EscrowIn(cs)

AllGoods(st, acc) == SumFunctionOnSet(st, Pilots) + SumFunctionOnSet(Kept(acc), Pilots)

MoneyInv ==
    /\ Purses
    /\ AllCredits(credits, at_desk, accounts, contracts) = SumFunctionOnSet(Credits, Pilots) + colony_paid
    /\ AllGoods(stores, accounts) + received + built = SumFunctionOnSet(Goods, Pilots)

BoardInv == ContractsInv /\ IdsInv /\ MoneyInv

LEMMA EscrowIs ==
    ASSUME NEW cs, IsFiniteSet(cs), \A c \in cs : Sound(c)
    PROVE  /\ \A c \in cs : Escrow(c) \in Int
           /\ EscrowIn(cs) \in Int
<1> DEFINE f == [c \in cs |-> Escrow(c)]
<1>1. \A c \in cs : Escrow(c) \in Int
  <2> TAKE c \in cs
  <2>1. unpaid(c) \in Int
        BY SoundIs
  <2> QED BY <2>1 DEF Escrow
<1>2. \A c \in cs : f[c] \in Int
      BY <1>1
<1> HIDE DEF f
<1>3. SumFunctionOnSet(f, cs) \in Int
      BY <1>2, SumType
<1> QED BY <1>1, <1>3 DEF EscrowIn, f

LEMMA EscrowAdds ==
    ASSUME NEW cs, IsFiniteSet(cs), NEW d, d \notin cs, \A c \in cs \cup {d} : Sound(c)
    PROVE  EscrowIn(cs \cup {d}) = EscrowIn(cs) + Escrow(d)
<1> DEFINE T == cs \cup {d}
           f == [c \in T |-> Escrow(c)]
           g == [c \in cs |-> Escrow(c)]
<1>1. IsFiniteSet(T)
      BY FS_AddElement
<1>2. \A c \in T : Escrow(c) \in Int
  <2> HIDE DEF T
  <2>1. \A c \in T : Sound(c)
        BY DEF T
  <2> QED BY <1>1, <2>1, EscrowIs
<1>3. /\ \A c \in cs \cup {d} : f[c] \in Int
      /\ \A c \in cs : g[c] \in Int /\ f[c] = g[c]
      /\ f[d] = Escrow(d)
      BY <1>2
<1> HIDE DEF f, g
<1>4. SumFunctionOnSet(f, cs \cup {d}) = SumFunctionOnSet(f, cs) + f[d]
      BY <1>3, SumAdds
<1>5. SumFunctionOnSet(f, cs) = SumFunctionOnSet(g, cs)
      BY <1>3, SumSame
<1> QED BY <1>3, <1>4, <1>5, Zenon DEF EscrowIn, f, g

LEMMA EscrowTakes ==
    ASSUME ContractsInv, IdsInv, NEW c \in contracts
    PROVE  /\ EscrowIn(contracts) \in Int /\ EscrowIn(contracts \ {c}) \in Int /\ Escrow(c) \in Int
           /\ EscrowIn(contracts) = EscrowIn(contracts \ {c}) + Escrow(c)
           /\ \A d : d \notin contracts \ {c} /\ Sound(d) =>
                  /\ EscrowIn((contracts \ {c}) \cup {d}) = EscrowIn(contracts \ {c}) + Escrow(d)
                  /\ Escrow(d) \in Int
<1> DEFINE cs == contracts \ {c}
<1>1. IsFiniteSet(contracts) /\ \A d \in contracts : Sound(d)
      BY DEF IdsInv, ContractsInv
<1>2. IsFiniteSet(cs) /\ c \notin cs /\ cs \cup {c} = contracts /\ \A d \in cs : Sound(d)
      BY <1>1, FS_RemoveElement
<1>3. EscrowIn(contracts) \in Int /\ Escrow(c) \in Int
      BY <1>1, EscrowIs
<1> HIDE DEF cs
<1>4. EscrowIn(cs) \in Int
      BY <1>2, EscrowIs
<1>5. EscrowIn(cs \cup {c}) = EscrowIn(cs) + Escrow(c)
  <2>1. \A d \in cs \cup {c} : Sound(d)
        BY <1>1, <1>2
  <2> QED BY <1>2, <2>1, EscrowAdds
<1>6. EscrowIn(contracts) = EscrowIn(cs) + Escrow(c)
      BY <1>2, <1>5, Zenon
<1>7. ASSUME NEW d, d \notin cs, Sound(d)
      PROVE  EscrowIn(cs \cup {d}) = EscrowIn(cs) + Escrow(d) /\ Escrow(d) \in Int
  <2>1. \A e \in cs \cup {d} : Sound(e)
        BY <1>2, <1>7
  <2>2. unpaid(d) \in Int
        BY <1>7, SoundIs
  <2> QED BY <1>2, <1>7, <2>1, <2>2, EscrowAdds DEF Escrow
<1> QED BY <1>3, <1>4, <1>6, <1>7 DEF cs

(* The sums are whole numbers. *)
LEMMA SumsAre ==
    ASSUME BoardInv
    PROVE  /\ SumFunctionOnSet(credits, Pilots) \in Int
           /\ SumFunctionOnSet(stores, Pilots) \in Int
           /\ SumFunctionOnSet(at_desk, Pilots) \in Int
           /\ SumFunctionOnSet(Owed(accounts), Pilots) \in Int
           /\ SumFunctionOnSet(Kept(accounts), Pilots) \in Int
           /\ EscrowIn(contracts) \in Int
           /\ SumFunctionOnSet(Credits, Pilots) \in Int /\ SumFunctionOnSet(Goods, Pilots) \in Int
<1>1. \A p \in Pilots : /\ credits[p] \in Int /\ stores[p] \in Int /\ at_desk[p] \in Int
                        /\ Owed(accounts)[p] \in Int /\ Kept(accounts)[p] \in Int
                        /\ Credits[p] \in Int /\ Goods[p] \in Int
      BY CharterAssumption DEF BoardInv, MoneyInv, Purses, Owed, Kept
<1>2. EscrowIn(contracts) \in Int
      BY EscrowIs DEF BoardInv, ContractsInv, IdsInv
<1> QED BY <1>1, <1>2, Finite, SumType

(* A step in which p's value changes by x, and nobody else's. *)
Adds(f, g, p, x) == \A o \in Pilots : /\ f[o] \in Int /\ g[o] \in Int
                                      /\ g[o] = IF o = p THEN f[o] + x ELSE f[o]

LEMMA SumOfAdds ==
    ASSUME NEW f, NEW g, NEW p \in Pilots, NEW x \in Int, Adds(f, g, p, x)
    PROVE  SumFunctionOnSet(g, Pilots) = SumFunctionOnSet(f, Pilots) + x
<1>1. ChangesAt(f, g, Pilots, p) /\ f[p] \in Int /\ g[p] = f[p] + x
      BY DEF Adds, ChangesAt
<1>2. /\ SumFunctionOnSet(f, Pilots) \in Int
      /\ SumFunctionOnSet(g, Pilots) = SumFunctionOnSet(f, Pilots) + g[p] - f[p]
      BY <1>1, Finite, SumChanges
<1> QED BY <1>1, <1>2

(* What may change in a step of p's, and of q's account: credits in p's hangar, at the desk,
   on q's account and in escrow; goods in p's stores, on q's account, with the colony and in
   the works. *)
Moved(p, q, x, z, u, e, w) ==
    /\ x \in Int /\ z \in Int /\ u \in Int /\ e \in Int /\ w \in Int /\ x + z + u + e = w
    /\ Adds(credits, credits', p, x) /\ Adds(at_desk, at_desk', p, z)
    /\ Adds(Owed(accounts), Owed(accounts'), q, u)
    /\ EscrowIn(contracts') = EscrowIn(contracts) + e
    /\ colony_paid' = colony_paid + w

Hauled(p, q, y, v, r, b) ==
    /\ y \in Int /\ v \in Int /\ r \in Int /\ b \in Int /\ y + v + r + b = 0
    /\ Adds(stores, stores', p, y) /\ Adds(Kept(accounts), Kept(accounts'), q, v)
    /\ received' = received + r /\ built' = built + b

LEMMA Balances ==
    ASSUME BoardInv, Purses', NEW p \in Pilots, NEW q \in Pilots,
           NEW x, NEW z, NEW u, NEW e, NEW w, Moved(p, q, x, z, u, e, w),
           NEW y, NEW v, NEW r, NEW b, Hauled(p, q, y, v, r, b)
    PROVE  MoneyInv'
<1>0. /\ x \in Int /\ z \in Int /\ u \in Int /\ e \in Int /\ w \in Int
      /\ y \in Int /\ v \in Int /\ r \in Int /\ b \in Int
      /\ x + z + u + e = w /\ y + v + r + b = 0
      /\ EscrowIn(contracts') = EscrowIn(contracts) + e
      /\ colony_paid' = colony_paid + w /\ received' = received + r /\ built' = built + b
      BY DEF Moved, Hauled
<1>1. /\ SumFunctionOnSet(credits', Pilots) = SumFunctionOnSet(credits, Pilots) + x
      /\ SumFunctionOnSet(at_desk', Pilots) = SumFunctionOnSet(at_desk, Pilots) + z
      /\ SumFunctionOnSet(Owed(accounts'), Pilots) = SumFunctionOnSet(Owed(accounts), Pilots) + u
      /\ SumFunctionOnSet(stores', Pilots) = SumFunctionOnSet(stores, Pilots) + y
      /\ SumFunctionOnSet(Kept(accounts'), Pilots) = SumFunctionOnSet(Kept(accounts), Pilots) + v
      BY <1>0, SumOfAdds DEF Moved, Hauled
<1>2. /\ AllCredits(credits, at_desk, accounts, contracts) = SumFunctionOnSet(Credits, Pilots) + colony_paid
      /\ AllGoods(stores, accounts) + received + built = SumFunctionOnSet(Goods, Pilots)
      /\ colony_paid \in Int /\ received \in Int /\ built \in Int
      BY CharterAssumption DEF BoardInv, MoneyInv, Purses
<1>3. AllCredits(credits', at_desk', accounts', contracts') = SumFunctionOnSet(Credits, Pilots) + colony_paid'
      BY <1>0, <1>1, <1>2, SumsAre DEF AllCredits
<1>4. AllGoods(stores', accounts') + received' + built' = SumFunctionOnSet(Goods, Pilots)
  <2>1. /\ SumFunctionOnSet(stores, Pilots) \in Int
        /\ SumFunctionOnSet(Kept(accounts), Pilots) \in Int
        BY SumsAre
  <2>2. SumFunctionOnSet(stores, Pilots) + SumFunctionOnSet(Kept(accounts), Pilots) + received + built
        = SumFunctionOnSet(Goods, Pilots)
        BY <1>2 DEF AllGoods
  <2>3. AllGoods(stores', accounts')
        = (SumFunctionOnSet(stores, Pilots) + y) + (SumFunctionOnSet(Kept(accounts), Pilots) + v)
        BY <1>1 DEF AllGoods
  <2> HIDE DEF AllGoods
  <2> QED BY <1>0, <1>2, <2>1, <2>2, <2>3
<1> QED BY <1>3, <1>4 DEF MoneyInv

LEMMA PursesAre ==
    ASSUME BoardInv, NEW p \in Pilots
    PROVE  /\ accounts \in [Pilots -> [credits : Nat, goods : Nat]] /\ at_desk \in [Pilots -> Nat]
           /\ credits \in [Pilots -> Nat] /\ stores \in [Pilots -> Nat]
           /\ built \in 0..WorksNeed /\ colony_paid \in Nat /\ received \in Nat /\ built \in Nat
           /\ accounts[p].credits \in Nat /\ accounts[p].goods \in Nat /\ at_desk[p] \in Nat
           /\ credits[p] \in Nat /\ stores[p] \in Nat
<1>1. Purses
      BY DEF BoardInv, MoneyInv
<1> QED BY <1>1, CharterAssumption DEF Purses

LEMMA AddsNone ==
    ASSUME BoardInv, NEW p \in Pilots
    PROVE  /\ Adds(credits, credits, p, 0) /\ Adds(stores, stores, p, 0)
           /\ Adds(at_desk, at_desk, p, 0)
           /\ Adds(Owed(accounts), Owed(accounts), p, 0) /\ Adds(Kept(accounts), Kept(accounts), p, 0)
<1>1. \A o \in Pilots : /\ credits[o] \in Nat /\ stores[o] \in Nat /\ at_desk[o] \in Nat
                        /\ accounts[o].credits \in Nat /\ accounts[o].goods \in Nat
      BY PursesAre
<1> QED BY <1>1 DEF Adds, Owed, Kept

LEMMA AddsOne ==
    ASSUME NEW f \in [Pilots -> Nat], NEW p \in Pilots, NEW x \in Int, f[p] + x \in Nat
    PROVE  LET g == [f EXCEPT ![p] = f[p] + x]
           IN  g \in [Pilots -> Nat] /\ Adds(f, g, p, x)
BY DEF Adds

(* A step that leaves all of it where it is, but for the escrow, and that the same. *)
LEMMA StillMoney ==
    ASSUME BoardInv, EscrowIn(contracts') = EscrowIn(contracts),
           UNCHANGED <<accounts, at_desk, hangars, built, colony_paid, received>>
    PROVE  MoneyInv'
<1>1. UNCHANGED <<accounts, at_desk, credits, stores, built, colony_paid, received>>
      BY DEF hangars
<1>2. MoneyInv
      BY DEF BoardInv
<1> QED BY <1>1, <1>2 DEF MoneyInv, Purses, AllCredits, AllGoods

(* A contract that becomes another of as much escrow. *)
LEMMA SwapIs ==
    ASSUME BoardInv, NEW c \in contracts, NEW d, Becomes(c, d), ContractsInv',
           d.id = c.id, d.issuer = c.issuer, d.kind = c.kind, next_id' = next_id
    PROVE  /\ IdsInv' /\ Sound(c) /\ Sound(d) /\ Escrow(c) \in Int /\ Escrow(d) \in Int
           /\ EscrowIn(contracts') = EscrowIn(contracts) + (Escrow(d) - Escrow(c))
<1>1. ContractsInv /\ IdsInv
      BY DEF BoardInv
<1>2. IdsInv' /\ d \notin contracts \ {c}
      BY <1>1, BecomesIds
<1>3. contracts' = (contracts \ {c}) \cup {d} /\ d \in contracts'
      BY DEF Becomes
<1>4. Sound(d)'
      BY <1>3 DEF ContractsInv
<1>5. Sound(d) /\ Sound(c)
      BY <1>1, <1>4 DEF Sound, ContractsInv
<1>6. /\ EscrowIn(contracts \ {c}) \in Int /\ Escrow(c) \in Int
      /\ EscrowIn(contracts) = EscrowIn(contracts \ {c}) + Escrow(c)
      /\ EscrowIn((contracts \ {c}) \cup {d}) = EscrowIn(contracts \ {c}) + Escrow(d)
      /\ Escrow(d) \in Int
      BY <1>1, <1>2, <1>5, EscrowTakes
<1>7. EscrowIn(contracts') = EscrowIn(contracts \ {c}) + Escrow(d)
      BY <1>3, <1>6, Zenon
<1> QED BY <1>2, <1>5, <1>6, <1>7

LEMMA SwapMoney ==
    ASSUME BoardInv, NEW c \in contracts, NEW d, Becomes(c, d), ContractsInv',
           d.id = c.id, d.issuer = c.issuer, d.kind = c.kind,
           d.reward = c.reward, d.paid = c.paid,
           UNCHANGED <<next_id, accounts, at_desk, hangars, built, colony_paid, received>>
    PROVE  IdsInv' /\ MoneyInv'
<1>1. /\ IdsInv' /\ Escrow(c) \in Int /\ Escrow(d) \in Int
      /\ EscrowIn(contracts') = EscrowIn(contracts) + (Escrow(d) - Escrow(c))
      BY SwapIs
<1>2. Escrow(d) = Escrow(c)
      BY DEF Escrow, unpaid
<1>3. EscrowIn(contracts) \in Int
      BY SumsAre
<1>4. EscrowIn(contracts') = EscrowIn(contracts)
      BY <1>1, <1>2, <1>3
<1> QED BY <1>1, <1>4, StillMoney

LEMMA PatrolMoney ==
    ASSUME BoardInv, ContractsInv', NEW p \in Pilots, NEW c \in contracts,
           Take(p, c) \/ DropPatrol(p, c)
    PROVE  IdsInv' /\ MoneyInv'
<1>1. PICK d : /\ Becomes(c, d)
               /\ \/ d = [c EXCEPT !.holder = p, !.lapsed = FALSE]
                  \/ d = GivenUp(c)
      BY DEF Take, DropPatrol
<1>2. Sound(c)
      BY DEF BoardInv, ContractsInv
<1>3. /\ d.id = c.id /\ d.issuer = c.issuer /\ d.kind = c.kind
      /\ d.reward = c.reward /\ d.paid = c.paid
      BY <1>1, <1>2, SoundIs DEF GivenUp
<1>4. UNCHANGED <<next_id, accounts, at_desk, hangars, built, colony_paid, received>>
      BY DEF Take, DropPatrol
<1>5. Becomes(c, d)
      BY <1>1
<1> QED BY <1>3, <1>4, <1>5, SwapMoney

LEMMA PostMoney ==
    ASSUME BoardInv, ContractsInv', NEW p \in Pilots, NEW qty \in Quantities, NEW reward \in Rewards,
           Post(p, qty, reward)
    PROVE  IdsInv' /\ MoneyInv'
<1> DEFINE c == Contract(p, "supply", qty, reward)
<1>1. /\ contracts' = contracts \cup {c} /\ credits[p] >= reward
      /\ credits' = [credits EXCEPT ![p] = credits[p] - reward]
      /\ UNCHANGED <<accounts, at_desk, stores, built, colony_paid, received>>
      BY DEF Post, affords
<1>2. IdsInv' /\ c \notin contracts
      BY PostIds DEF BoardInv
<1>3. reward \in Nat
      BY CharterAssumption
<1>4. c.issuer = p /\ unpaid(c) = reward
      BY <1>3 DEF Contract, unpaid
<1> HIDE DEF c
<1>5. Sound(c)
  <2>1. \A d \in contracts' : Sound(d)
    <3> TAKE d \in contracts'
    <3>1. Sound(d)'
          BY DEF ContractsInv
    <3> QED BY <3>1 DEF Sound
  <2> QED BY <1>1, <2>1
<1>6. EscrowIn(contracts') = EscrowIn(contracts) + reward
  <2>1. IsFiniteSet(contracts) /\ \A d \in contracts \cup {c} : Sound(d)
        BY <1>5 DEF BoardInv, IdsInv, ContractsInv
  <2>2. EscrowIn(contracts \cup {c}) = EscrowIn(contracts) + Escrow(c)
        BY <1>2, <2>1, EscrowAdds
  <2>3. Escrow(c) = reward
        BY <1>4 DEF Escrow
  <2> QED BY <1>1, <2>2, <2>3, Zenon
<1>7. credits \in [Pilots -> Nat] /\ credits[p] \in Nat /\ colony_paid \in Nat /\ received \in Nat /\ built \in Nat
      BY PursesAre
<1> DEFINE x == 0 - reward
<1>8. x \in Int /\ credits[p] - reward = credits[p] + x /\ credits[p] + x \in Nat
      BY <1>1, <1>3, <1>7
<1>9. credits' = [credits EXCEPT ![p] = credits[p] + x]
      BY <1>1, <1>8, Zenon
<1>10. x + 0 + 0 + reward = 0 /\ colony_paid' = colony_paid + 0 /\ received' = received + 0
       /\ built' = built + 0 /\ 0 + 0 + 0 + 0 = 0 /\ reward \in Int
      BY <1>1, <1>3, <1>7
<1> HIDE DEF x
<1>11. credits' \in [Pilots -> Nat] /\ Adds(credits, credits', p, x)
      BY <1>7, <1>8, <1>9, AddsOne, Zenon
<1>12. Purses'
      BY <1>1, <1>11 DEF BoardInv, MoneyInv, Purses
<1>13. /\ Adds(stores, stores', p, 0) /\ Adds(at_desk, at_desk', p, 0)
       /\ Adds(Owed(accounts), Owed(accounts'), p, 0) /\ Adds(Kept(accounts), Kept(accounts'), p, 0)
      BY <1>1, AddsNone
<1>14. Moved(p, p, x, 0, 0, reward, 0)
      BY <1>6, <1>8, <1>10, <1>11, <1>13 DEF Moved
<1>15. Hauled(p, p, 0, 0, 0, 0)
      BY <1>10, <1>13 DEF Hauled
<1>16. MoneyInv'
      BY <1>12, <1>14, <1>15, Balances, Zenon
<1> QED BY <1>2, <1>16

(* A pilot's account collected, with m more, of which z was at the desk and the rest in
   escrow. *)
LEMMA CollectMoney ==
    ASSUME BoardInv, NEW p \in Pilots, NEW m \in Nat, NEW z \in Nat, collect(p, m),
           z <= at_desk[p], at_desk' = [at_desk EXCEPT ![p] = at_desk[p] + (0 - z)],
           EscrowIn(contracts') = EscrowIn(contracts) + (z - m),
           UNCHANGED <<built, colony_paid, received>>
    PROVE  MoneyInv'
<1> DEFINE x == accounts[p].credits + m
           y == accounts[p].goods
           a == accounts[p].credits
<1>1. /\ credits \in [Pilots -> Nat] /\ credits[p] \in Nat /\ stores \in [Pilots -> Nat]
      /\ stores[p] \in Nat /\ a \in Nat /\ y \in Nat
      /\ at_desk \in [Pilots -> Nat] /\ at_desk[p] \in Nat
      /\ colony_paid \in Nat /\ received \in Nat /\ built \in Nat
      /\ accounts \in [Pilots -> [credits : Nat, goods : Nat]]
      BY PursesAre
<1>2. /\ credits' = [credits EXCEPT ![p] = credits[p] + a + m]
      /\ stores' = [stores EXCEPT ![p] = stores[p] + y]
      /\ accounts' = [accounts EXCEPT ![p] = Nothing]
      BY DEF collect
<1>3. /\ x \in Int /\ credits[p] + a + m = credits[p] + x /\ credits[p] + x \in Nat
      /\ 0 - z \in Int /\ at_desk[p] + (0 - z) \in Nat /\ y \in Int /\ stores[p] + y \in Nat
      /\ 0 - a \in Int /\ 0 - y \in Int /\ z - m \in Int
      /\ x + (0 - z) + (0 - a) + (z - m) = 0 /\ y + (0 - y) + 0 + 0 = 0
      BY <1>1
<1>4. credits' = [credits EXCEPT ![p] = credits[p] + x]
      BY <1>2, <1>3, Zenon
<1>5. /\ Nothing \in [credits : Nat, goods : Nat] /\ Nothing.credits = 0 /\ Nothing.goods = 0
      BY DEF Nothing
<1>6. accounts' \in [Pilots -> [credits : Nat, goods : Nat]]
      BY <1>1, <1>2, <1>5
<1>7. \A o \in Pilots : /\ accounts'[o] = IF o = p THEN Nothing ELSE accounts[o]
                        /\ accounts[o].credits \in Nat /\ accounts[o].goods \in Nat
      BY <1>1, <1>2
<1>8. /\ Adds(Owed(accounts), Owed(accounts'), p, 0 - a)
      /\ Adds(Kept(accounts), Kept(accounts'), p, 0 - y)
      BY <1>5, <1>7 DEF Adds, Owed, Kept
<1> HIDE DEF x, y, a
<1>9. /\ credits' \in [Pilots -> Nat] /\ Adds(credits, credits', p, x)
      /\ stores' \in [Pilots -> Nat] /\ Adds(stores, stores', p, y)
      /\ at_desk' \in [Pilots -> Nat] /\ Adds(at_desk, at_desk', p, 0 - z)
  <2>1. credits' \in [Pilots -> Nat] /\ Adds(credits, credits', p, x)
        BY <1>1, <1>3, <1>4, AddsOne, Zenon
  <2>2. stores' \in [Pilots -> Nat] /\ Adds(stores, stores', p, y)
        BY <1>1, <1>2, <1>3, AddsOne, Zenon
  <2>3. at_desk' \in [Pilots -> Nat] /\ Adds(at_desk, at_desk', p, 0 - z)
        BY <1>1, <1>3, AddsOne, Zenon
  <2> QED BY <2>1, <2>2, <2>3
<1>10. Purses'
      BY <1>6, <1>9 DEF BoardInv, MoneyInv, Purses
<1>11. colony_paid' = colony_paid + 0 /\ received' = received + 0 /\ built' = built + 0
      BY <1>1
<1>12. Moved(p, p, x, 0 - z, 0 - a, z - m, 0)
      BY <1>3, <1>8, <1>9, <1>11 DEF Moved
<1>13. Hauled(p, p, y, 0 - y, 0, 0)
      BY <1>3, <1>8, <1>9, <1>11 DEF Hauled
<1> QED BY <1>10, <1>12, <1>13, Balances, Zenon

(* A contract gone from the board. *)
LEMMA GoneIs ==
    ASSUME BoardInv, NEW c \in contracts, contracts' = contracts \ {c}, next_id' = next_id
    PROVE  /\ IdsInv' /\ Escrow(c) \in Int /\ EscrowIn(contracts) \in Int
           /\ EscrowIn(contracts') = EscrowIn(contracts) - Escrow(c)
<1>1. ContractsInv /\ IdsInv
      BY DEF BoardInv
<1>2. /\ EscrowIn(contracts) \in Int /\ EscrowIn(contracts \ {c}) \in Int /\ Escrow(c) \in Int
      /\ EscrowIn(contracts) = EscrowIn(contracts \ {c}) + Escrow(c)
      BY <1>1, EscrowTakes
<1>3. contracts' \subseteq contracts
      OBVIOUS
<1>4. IdsInv'
      BY <1>1, <1>3, FewerIds
<1>5. EscrowIn(contracts') = EscrowIn(contracts \ {c})
      BY Zenon
<1> QED BY <1>2, <1>4, <1>5

LEMMA WithdrawMoney ==
    ASSUME BoardInv, NEW p \in Pilots, NEW c \in contracts, Withdraw(p, c)
    PROVE  IdsInv' /\ MoneyInv'
<1>1. /\ c.issuer = p /\ contracts' = contracts \ {c} /\ next_id' = next_id
      /\ collect(p, unpaid(c)) /\ UNCHANGED <<at_desk, built, colony_paid, received>>
      BY DEF Withdraw
<1>2. Sound(c) /\ c.kind = "supply"
      BY <1>1 DEF BoardInv, ContractsInv, IdsInv
<1> DEFINE m == unpaid(c)
<1>3. m \in Nat /\ Escrow(c) = m
      BY <1>1, <1>2, SoundIs DEF Escrow
<1>4. IdsInv' /\ EscrowIn(contracts) \in Int /\ EscrowIn(contracts') = EscrowIn(contracts) - Escrow(c)
      BY <1>1, GoneIs
<1> HIDE DEF m
<1>5. EscrowIn(contracts') = EscrowIn(contracts) + (0 - m)
      BY <1>3, <1>4
<1>6. at_desk \in [Pilots -> Nat] /\ at_desk[p] \in Nat
      BY PursesAre
<1>7. 0 \in Nat /\ 0 <= at_desk[p] /\ at_desk[p] + (0 - 0) = at_desk[p]
      BY <1>6
<1>8. at_desk' = [at_desk EXCEPT ![p] = at_desk[p] + (0 - 0)]
  <2>1. at_desk = [at_desk EXCEPT ![p] = at_desk[p]]
        BY <1>6
  <2> QED BY <1>1, <1>7, <2>1, Zenon
<1>9. collect(p, m)
      BY <1>1 DEF m
<1>10. MoneyInv'
      BY <1>1, <1>3, <1>5, <1>7, <1>8, <1>9, CollectMoney
<1> QED BY <1>4, <1>10

LEMMA SettleMoney ==
    ASSUME BoardInv, NEW p \in Pilots, NEW there \in BOOLEAN, Settle(p, there)
    PROVE  IdsInv' /\ MoneyInv'
<1> DEFINE m == IF there THEN at_desk[p] ELSE 0
<1>1. /\ contracts' = contracts /\ next_id' = next_id
      /\ collect(p, m) /\ UNCHANGED <<built, colony_paid, received>>
      /\ at_desk' = [at_desk EXCEPT ![p] = IF there THEN 0 ELSE at_desk[p]]
      BY DEF Settle
<1>2. at_desk[p] \in Nat
      BY PursesAre
<1>3. m \in Nat /\ m <= at_desk[p] /\ (IF there THEN 0 ELSE at_desk[p]) = at_desk[p] + (0 - m)
      BY <1>2
<1> HIDE DEF m
<1>4. at_desk' = [at_desk EXCEPT ![p] = at_desk[p] + (0 - m)]
      BY <1>1, <1>3, Zenon
<1>5. EscrowIn(contracts) \in Int
      BY SumsAre
<1>6. EscrowIn(contracts') = EscrowIn(contracts) + (m - m)
      BY <1>1, <1>3, <1>5
<1>7. MoneyInv'
      BY <1>1, <1>3, <1>4, <1>6, CollectMoney
<1>8. IdsInv'
      BY <1>1 DEF BoardInv, IdsInv
<1> QED BY <1>7, <1>8

(* What a delivery pays: a share, and all of the rest with the last of the goods. *)
LEMMA PayIs ==
    ASSUME NEW c, Sound(c), c.kind = "supply", NEW n \in Nat, n <= c.qty - c.done
    PROVE  /\ pay(c, n) \in Nat /\ c.paid = pay_for(c, c.done)
           /\ Filled(c, n) => pay(c, n) = unpaid(c)
<1>1. /\ c.reward \in Nat /\ c.qty \in Nat \ {0} /\ c.done \in Nat /\ c.done < c.qty
      /\ c.paid = pay_for(c, c.done) /\ unpaid(c) = c.reward - c.paid
      BY SoundIs DEF Sound, pay_for
<1>2. c.done + n \in 0..c.qty /\ c.done \in 0..(c.done + n)
      BY <1>1
<1>3. /\ pay_for(c, c.done + n) \in Nat /\ pay_for(c, c.done) \in Nat
      /\ pay_for(c, c.done) <= pay_for(c, c.done + n)
      BY <1>1, <1>2, Share DEF pay_for
<1>4. Filled(c, n) => pay_for(c, c.done + n) = c.reward
  <2> SUFFICES ASSUME Filled(c, n) PROVE pay_for(c, c.qty) = c.reward
      BY DEF Filled
  <2> DEFINE r == c.reward
             q == c.qty
  <2>1. r \in Nat /\ q \in Nat \ {0}
        BY <1>1
  <2> HIDE DEF r, q
  <2>2. r * q = q * r /\ (q * r) \div q = r
        BY <2>1
  <2> QED BY <2>2 DEF pay_for, r, q
<1> QED BY <1>1, <1>3, <1>4 DEF pay

LEMMA DeliverEscrow ==
    ASSUME BoardInv, ContractsInv', NEW p \in Pilots, NEW c \in contracts, NEW n \in Nat,
           Deliver(p, c, n)
    PROVE  /\ IdsInv' /\ pay(c, n) \in Nat
           /\ EscrowIn(contracts') = EscrowIn(contracts) + (IF c.issuer \in Pilots THEN 0 - pay(c, n) ELSE 0)
<1> DEFINE m == pay(c, n)
<1>1. /\ c.kind = "supply" /\ n <= c.qty - c.done /\ next_id' = next_id
      /\ IF Filled(c, n) THEN contracts' = contracts \ {c}
         ELSE Becomes(c, [c EXCEPT !.done = c.done + n, !.paid = c.paid + m])
      BY DEF Deliver
<1>2. Sound(c)
      BY DEF BoardInv, ContractsInv
<1>3. m \in Nat /\ (Filled(c, n) => m = unpaid(c))
      BY <1>1, <1>2, PayIs
<1>4. EscrowIn(contracts) \in Int
      BY SumsAre
<1> HIDE DEF m
<1>5. unpaid(c) \in Int /\ Escrow(c) = (IF c.issuer \in Pilots THEN unpaid(c) ELSE 0)
      /\ unpaid(c) = c.reward - c.paid /\ c.reward \in Nat /\ c.paid \in Nat
      BY <1>2, SoundIs DEF Escrow
<1>6. CASE Filled(c, n)
  <2>1. contracts' = contracts \ {c}
        BY <1>1, <1>6
  <2>2. IdsInv' /\ EscrowIn(contracts') = EscrowIn(contracts) - Escrow(c)
        BY <1>1, <2>1, GoneIs
  <2>3. m = unpaid(c)
        BY <1>3, <1>6
  <2>4. EscrowIn(contracts') = EscrowIn(contracts) + (IF c.issuer \in Pilots THEN 0 - m ELSE 0)
        BY <1>3, <1>4, <1>5, <2>2, <2>3
  <2> QED BY <1>3, <2>2, <2>4 DEF m
<1>7. CASE ~Filled(c, n)
  <2>1. PICK d : d = [c EXCEPT !.done = c.done + n, !.paid = c.paid + m]
        OBVIOUS
  <2>2. Becomes(c, d)
        BY <1>1, <1>7, <2>1
  <2>3. /\ d.id = c.id /\ d.issuer = c.issuer /\ d.kind = c.kind
        /\ d.reward = c.reward /\ d.paid = c.paid + m
        BY <1>2, <2>1, SoundIs
  <2>4. /\ IdsInv' /\ Escrow(c) \in Int /\ Escrow(d) \in Int
        /\ EscrowIn(contracts') = EscrowIn(contracts) + (Escrow(d) - Escrow(c))
        BY <1>1, <2>2, <2>3, SwapIs
  <2>5. Escrow(d) - Escrow(c) = IF c.issuer \in Pilots THEN 0 - m ELSE 0
        BY <1>3, <1>5, <2>3 DEF Escrow, unpaid
  <2> QED BY <1>3, <2>4, <2>5 DEF m
<1> QED BY <1>6, <1>7

LEMMA DeliverMoney ==
    ASSUME BoardInv, ContractsInv', NEW p \in Pilots, NEW c \in contracts, NEW n \in Nat,
           Deliver(p, c, n)
    PROVE  IdsInv' /\ MoneyInv'
<1> DEFINE m == pay(c, n)
           y == 0 - n
<1>1. /\ IdsInv' /\ m \in Nat
      /\ EscrowIn(contracts') = EscrowIn(contracts) + (IF c.issuer \in Pilots THEN 0 - m ELSE 0)
      BY DeliverEscrow
<1>2. /\ n <= stores[p] /\ stores' = [stores EXCEPT ![p] = stores[p] - n]
      /\ credits' = [credits EXCEPT ![p] = credits[p] + m]
      /\ IF c.issuer = Colony
         THEN colony_paid' = colony_paid + m /\ received' = received + n /\ accounts' = accounts
         ELSE /\ accounts' = [accounts EXCEPT ![c.issuer].goods = accounts[c.issuer].goods + n]
              /\ UNCHANGED <<colony_paid, received>>
      /\ UNCHANGED <<at_desk, built>>
      BY DEF Deliver, colony_pays
<1>3. c.issuer \in Pilots \cup {Colony} /\ Colony \notin Pilots
      BY SoundIs, CharterAssumption DEF BoardInv, ContractsInv
<1> HIDE DEF m
<1>4. /\ credits \in [Pilots -> Nat] /\ credits[p] \in Nat /\ stores \in [Pilots -> Nat]
      /\ stores[p] \in Nat /\ colony_paid \in Nat /\ received \in Nat /\ built \in Nat
      /\ accounts \in [Pilots -> [credits : Nat, goods : Nat]]
      BY PursesAre
<1>5. /\ y \in Int /\ stores[p] - n = stores[p] + y /\ stores[p] + y \in Nat
      /\ m \in Int /\ credits[p] + m \in Nat /\ n \in Int /\ 0 \in Int /\ 0 - m \in Int
      /\ m + 0 + 0 + 0 = m /\ m + 0 + 0 + (0 - m) = 0 /\ y + 0 + n + 0 = 0 /\ y + n + 0 + 0 = 0
      /\ colony_paid + m \in Nat /\ received + n \in Nat
      /\ colony_paid + 0 = colony_paid /\ received + 0 = received /\ built + 0 = built
  <2>1. n <= stores[p] /\ m \in Nat
        BY <1>1, <1>2
  <2>2. /\ credits[p] \in Nat /\ stores[p] \in Nat
        /\ colony_paid \in Nat /\ received \in Nat /\ built \in Nat
        BY <1>4
  <2> QED BY <2>1, <2>2
<1> HIDE DEF y
<1>6. credits' \in [Pilots -> Nat] /\ Adds(credits, credits', p, m)
      BY <1>2, <1>4, <1>5, AddsOne, Zenon
<1>7. stores' \in [Pilots -> Nat] /\ Adds(stores, stores', p, y)
  <2>1. stores' = [stores EXCEPT ![p] = stores[p] + y]
        BY <1>2, <1>5, Zenon
  <2> QED BY <1>4, <1>5, <2>1, AddsOne, Zenon
<1>8. Adds(at_desk, at_desk', p, 0) /\ built' = built + 0
      BY <1>2, <1>5, AddsNone
<1>9. CASE c.issuer = Colony
  <2>1. colony_paid' = colony_paid + m /\ received' = received + n /\ accounts' = accounts
        BY <1>2, <1>9
  <2>2. EscrowIn(contracts') = EscrowIn(contracts) + 0
        BY <1>1, <1>3, <1>9
  <2>3. Adds(Owed(accounts), Owed(accounts'), p, 0) /\ Adds(Kept(accounts), Kept(accounts'), p, 0)
        BY <2>1, AddsNone
  <2>4. Purses'
        BY <1>2, <1>5, <1>6, <1>7, <2>1 DEF BoardInv, MoneyInv, Purses
  <2>5. Moved(p, p, m, 0, 0, 0, m)
        BY <1>5, <1>6, <1>8, <2>1, <2>2, <2>3 DEF Moved
  <2>6. Hauled(p, p, y, 0, n, 0)
        BY <1>5, <1>7, <1>8, <2>1, <2>3 DEF Hauled
  <2> QED BY <1>1, <2>4, <2>5, <2>6, Balances, Zenon
<1>10. CASE c.issuer # Colony
  <2>0. PICK q \in Pilots : q = c.issuer
        BY <1>3, <1>10
  <2>1. /\ accounts' = [accounts EXCEPT ![q].goods = accounts[q].goods + n]
        /\ UNCHANGED <<colony_paid, received>>
        BY <1>2, <1>10, <2>0
  <2>2. EscrowIn(contracts') = EscrowIn(contracts) + (0 - m)
        BY <1>1, <2>0
  <2>3. accounts' \in [Pilots -> [credits : Nat, goods : Nat]]
        BY <1>4, <2>1
  <2>4. \A o \in Pilots : /\ accounts[o].credits \in Nat /\ accounts[o].goods \in Nat
                          /\ accounts'[o].credits = accounts[o].credits
                          /\ accounts'[o].goods = IF o = q THEN accounts[o].goods + n ELSE accounts[o].goods
        BY <1>4, <2>1
  <2>5. Adds(Owed(accounts), Owed(accounts'), q, 0) /\ Adds(Kept(accounts), Kept(accounts'), q, n)
        BY <2>4 DEF Adds, Owed, Kept
  <2>6. Purses'
        BY <1>2, <1>5, <1>6, <1>7, <2>1, <2>3 DEF BoardInv, MoneyInv, Purses
  <2>7. colony_paid' = colony_paid + 0 /\ received' = received + 0
        BY <1>5, <2>1
  <2>8. Moved(p, q, m, 0, 0, 0 - m, 0)
        BY <1>5, <1>6, <1>8, <2>2, <2>5, <2>7 DEF Moved
  <2>9. Hauled(p, q, y, n, 0, 0)
        BY <1>5, <1>7, <1>8, <2>5, <2>7 DEF Hauled
  <2> QED BY <1>1, <2>6, <2>8, <2>9, Balances, Zenon
<1> QED BY <1>9, <1>10

LEMMA FliesMoney ==
    ASSUME BoardInv, ContractsInv', NEW p \in Pilots, NEW c \in contracts, NEW b \in Bounties,
           Flies(p, c, b)
    PROVE  IdsInv' /\ MoneyInv'
<1> DEFINE earned == IF c.done + b < c.qty THEN c.done + b ELSE c.qty
           m == c.reward
<1>1. /\ c.holder = p
      /\ UNCHANGED <<next_id, accounts, built, hangars, received>>
      /\ IF earned < c.qty
         THEN Becomes(c, [c EXCEPT !.done = earned]) /\ UNCHANGED <<at_desk, colony_paid>>
         ELSE /\ contracts' = contracts \ {c} /\ colony_paid' = colony_paid + m
              /\ at_desk' = [at_desk EXCEPT ![p] = at_desk[p] + m]
      BY DEF Flies, colony_pays
<1>2. Sound(c)
      BY DEF BoardInv, ContractsInv
<1> HIDE DEF earned
<1>3. CASE earned < c.qty
  <2>1. PICK d : d = [c EXCEPT !.done = earned]
        OBVIOUS
  <2>2. Becomes(c, d) /\ UNCHANGED <<next_id, accounts, at_desk, hangars, built, colony_paid, received>>
        BY <1>1, <1>3, <2>1
  <2>3. /\ d.id = c.id /\ d.issuer = c.issuer /\ d.kind = c.kind
        /\ d.reward = c.reward /\ d.paid = c.paid
        BY <1>2, <2>1, SoundIs
  <2> QED BY <2>2, <2>3, SwapMoney
<1>4. CASE ~(earned < c.qty)
  <2>1. /\ contracts' = contracts \ {c} /\ colony_paid' = colony_paid + m
        /\ at_desk' = [at_desk EXCEPT ![p] = at_desk[p] + m]
        BY <1>1, <1>4
  <2>2. m \in Nat /\ c.kind # "supply"
        BY <1>1, <1>2, SoundIs, CharterAssumption DEF Sound
  <2>3. Escrow(c) = 0
        BY <2>2 DEF Escrow, BoardInv, IdsInv
  <2>4. /\ IdsInv' /\ EscrowIn(contracts) \in Int
        /\ EscrowIn(contracts') = EscrowIn(contracts) - Escrow(c)
        BY <1>1, <2>1, GoneIs
  <2>5. EscrowIn(contracts') = EscrowIn(contracts) + 0
        BY <2>3, <2>4
  <2>6. /\ at_desk \in [Pilots -> Nat] /\ at_desk[p] \in Nat
        /\ colony_paid \in Nat /\ received \in Nat /\ built \in Nat
        BY PursesAre
  <2> HIDE DEF m
  <2>7. /\ m \in Int /\ at_desk[p] + m \in Nat /\ 0 \in Int /\ 0 + m + 0 + 0 = m
        /\ 0 + 0 + 0 + 0 = 0 /\ colony_paid + m \in Nat
        /\ received + 0 = received /\ built + 0 = built
        BY <2>2, <2>6
  <2>8. at_desk' \in [Pilots -> Nat] /\ Adds(at_desk, at_desk', p, m)
        BY <2>1, <2>6, <2>7, AddsOne, Zenon
  <2>9. UNCHANGED <<accounts, built, credits, stores, received>>
        BY <1>1 DEF hangars
  <2>10. /\ Adds(credits, credits', p, 0) /\ Adds(stores, stores', p, 0)
         /\ Adds(Owed(accounts), Owed(accounts'), p, 0) /\ Adds(Kept(accounts), Kept(accounts'), p, 0)
        BY <2>9, AddsNone
  <2>11. Purses'
        BY <2>1, <2>7, <2>8, <2>9 DEF BoardInv, MoneyInv, Purses
  <2>12. Moved(p, p, 0, m, 0, 0, m)
        BY <2>1, <2>5, <2>7, <2>8, <2>10 DEF Moved
  <2>13. Hauled(p, p, 0, 0, 0, 0)
        BY <2>7, <2>9, <2>10 DEF Hauled
  <2> QED BY <2>4, <2>11, <2>12, <2>13, Balances, Zenon
<1> QED BY <1>3, <1>4

LEMMA ContributeMoney ==
    ASSUME BoardInv, NEW p \in Pilots, NEW n \in Nat, Contribute(p, n)
    PROVE  IdsInv' /\ MoneyInv'
<1> DEFINE m == n * WorksPrice
           y == 0 - n
<1>1. /\ n <= stores[p] /\ n <= WorksNeed - built
      /\ stores' = [stores EXCEPT ![p] = stores[p] - n]
      /\ credits' = [credits EXCEPT ![p] = credits[p] + m]
      /\ colony_paid' = colony_paid + m /\ built' = built + n
      /\ UNCHANGED <<contracts, next_id, accounts, at_desk, received>>
      BY DEF Contribute, colony_pays, needed
<1>2. IdsInv' /\ EscrowIn(contracts) \in Int
      BY <1>1, SumsAre DEF BoardInv, IdsInv
<1>3. /\ credits \in [Pilots -> Nat] /\ stores \in [Pilots -> Nat]
      /\ credits[p] \in Nat /\ stores[p] \in Nat /\ colony_paid \in Nat /\ received \in Nat
      /\ built \in Nat /\ built \in 0..WorksNeed
      BY PursesAre
<1>4. m \in Nat /\ WorksNeed \in Nat
      BY CharterAssumption
<1> HIDE DEF m
<1>5. /\ y \in Int /\ stores[p] - n = stores[p] + y /\ stores[p] + y \in Nat
      /\ m \in Int /\ credits[p] + m \in Nat /\ n \in Int /\ 0 \in Int
      /\ m + 0 + 0 + 0 = m /\ y + 0 + 0 + n = 0
      /\ colony_paid + m \in Nat /\ built + n \in 0..WorksNeed /\ received + 0 = received
      /\ EscrowIn(contracts) = EscrowIn(contracts) + 0
  <2>1. n <= stores[p] /\ n <= WorksNeed - built
        BY <1>1
  <2> QED BY <1>2, <1>3, <1>4, <2>1
<1> HIDE DEF y
<1>6. credits' \in [Pilots -> Nat] /\ Adds(credits, credits', p, m)
      BY <1>1, <1>3, <1>5, AddsOne, Zenon
<1>7. stores' \in [Pilots -> Nat] /\ Adds(stores, stores', p, y)
  <2>1. stores' = [stores EXCEPT ![p] = stores[p] + y]
        BY <1>1, <1>5, Zenon
  <2> QED BY <1>3, <1>5, <2>1, AddsOne, Zenon
<1>8. /\ Adds(at_desk, at_desk', p, 0)
      /\ Adds(Owed(accounts), Owed(accounts'), p, 0) /\ Adds(Kept(accounts), Kept(accounts'), p, 0)
      BY <1>1, AddsNone
<1>9. Purses'
      BY <1>1, <1>5, <1>6, <1>7 DEF BoardInv, MoneyInv, Purses
<1>10. EscrowIn(contracts') = EscrowIn(contracts) + 0 /\ received' = received + 0
      BY <1>1, <1>5
<1>11. Moved(p, p, m, 0, 0, 0, m)
      BY <1>1, <1>5, <1>6, <1>8, <1>10 DEF Moved
<1>12. Hauled(p, p, y, 0, 0, n)
      BY <1>1, <1>5, <1>7, <1>8, <1>10 DEF Hauled
<1> QED BY <1>2, <1>9, <1>11, <1>12, Balances, Zenon

-----------------------------------------------------------------------------
(* The Board's clock: what has lapsed is refunded. *)

(* The escrow is that of the pilots' contracts. *)
LEMMA EscrowOfPilots ==
    ASSUME NEW cs, IsFiniteSet(cs), \A c \in cs : Sound(c)
    PROVE  LET S == {d \in cs : d.issuer \in Pilots}
           IN  /\ \A c \in S : unpaid(c) \in Int
               /\ SumFunctionOnSet([c \in S |-> unpaid(c)], S) = EscrowIn(cs)
<1> DEFINE S == {d \in cs : d.issuer \in Pilots}
           f == [c \in S |-> unpaid(c)]
           g == [c \in cs |-> Escrow(c)]
<1>1. S \in SUBSET cs
      OBVIOUS
<1>2. \A c \in S : unpaid(c) \in Int
      BY SoundIs
<1>3. (\A c \in S : f[c] \in Int /\ g[c] = f[c]) /\ (\A c \in cs \ S : g[c] = 0)
      BY <1>2 DEF Escrow
<1> HIDE DEF f, g, S
<1>4. SumFunctionOnSet(g, cs) = SumFunctionOnSet(f, S)
      BY <1>1, <1>3, SumPick
<1> QED BY <1>2, <1>4 DEF f, g, S, EscrowIn

LEMMA RefundsAre ==
    ASSUME BoardInv, NEW cs \in SUBSET contracts
    PROVE  /\ \A p \in Pilots : Refund(cs, p) \in Nat
           /\ SumFunctionOnSet([p \in Pilots |-> Refund(cs, p)], Pilots) = EscrowIn(cs)
<1> DEFINE S == {d \in cs : d.issuer \in Pilots}
           of(p) == {d \in cs : d.issuer = p}
           f == [c \in S |-> unpaid(c)]
           key == [c \in S |-> c.issuer]
           g == [p \in Pilots |-> Refund(cs, p)]
<1>1. IsFiniteSet(cs) /\ IsFiniteSet(S) /\ \A c \in cs : Sound(c)
  <2>1. IsFiniteSet(cs)
        BY FS_Subset DEF BoardInv, IdsInv
  <2>2. S \in SUBSET cs
        OBVIOUS
  <2> HIDE DEF S
  <2>3. IsFiniteSet(S)
        BY <2>1, <2>2, FS_Subset
  <2> QED BY <2>1, <2>3 DEF BoardInv, ContractsInv
<1>2. \A c \in S : unpaid(c) \in Nat
      BY <1>1, SoundIs DEF BoardInv, IdsInv
<1>3. ASSUME NEW p \in Pilots
      PROVE  /\ g[p] = Refund(cs, p) /\ g[p] \in Nat
             /\ g[p] = SumFunctionOnSet(f, {c \in S : key[c] = p})
  <2> DEFINE T == of(p)
             h == [c \in T |-> unpaid(c)]
  <2>1. {c \in S : key[c] = p} = T /\ T \in SUBSET S
        BY <1>3
  <2>2. IsFiniteSet(T)
        BY <1>1, <2>1, FS_Subset
  <2>3. \A c \in T : h[c] \in Nat /\ f[c] = h[c]
        BY <1>2, <2>1
  <2>4. g[p] = Refund(cs, p) /\ Refund(cs, p) = SumFunction(h)
        BY <1>3 DEF Refund
  <2>5. SumFunction(h) = SumFunctionOnSet(h, DOMAIN h)
        BY DEF SumFunction
  <2>6. DOMAIN h = T
        OBVIOUS
  <2> HIDE DEF T, h, f, g, S, key
  <2>7. SumFunctionOnSet(h, T) \in Nat
        BY <2>2, <2>3, SumNat
  <2>8. SumFunctionOnSet(f, T) = SumFunctionOnSet(h, T)
    <3>1. \A c \in T : h[c] \in Int /\ f[c] = h[c]
          BY <2>3
    <3> QED BY <2>2, <3>1, SumSame
  <2> QED BY <2>1, <2>4, <2>5, <2>6, <2>7, <2>8, Zenon
<1>4. \A c \in S : f[c] \in Int /\ key[c] \in Pilots
      BY <1>2
<1>5. SumFunctionOnSet(f, S) = EscrowIn(cs)
      BY <1>1, EscrowOfPilots
<1> HIDE DEF f, g, S, key
<1>6. Keyed(f, g, key, Pilots, S)
      BY <1>3, <1>4 DEF Keyed
<1>7. SumFunctionOnSet(g, Pilots) = SumFunctionOnSet(f, S)
      BY <1>1, <1>6, Finite, SumByKey
<1>8. \A p \in Pilots : Refund(cs, p) \in Nat
      BY <1>3
<1> QED BY <1>5, <1>7, <1>8 DEF g

LEMMA EscrowUnion ==
    ASSUME NEW S, NEW T, IsFiniteSet(S), IsFiniteSet(T), S \cap T = {}, \A c \in S \cup T : Sound(c)
    PROVE  EscrowIn(S \cup T) = EscrowIn(S) + EscrowIn(T)
<1> DEFINE U == S \cup T
           f == [c \in U |-> Escrow(c)]
           g == [c \in S |-> Escrow(c)]
           h == [c \in T |-> Escrow(c)]
<1>1. IsFiniteSet(U)
      BY FS_Union
<1>2. \A c \in U : Escrow(c) \in Int
  <2> HIDE DEF U
  <2>1. \A c \in U : Sound(c)
        BY DEF U
  <2> QED BY <1>1, <2>1, EscrowIs
<1>3. /\ \A c \in S \cup T : f[c] \in Int
      /\ \A c \in S : g[c] \in Int /\ f[c] = g[c]
      /\ \A c \in T : h[c] \in Int /\ f[c] = h[c]
      BY <1>2
<1> HIDE DEF f, g, h
<1>4. SumFunctionOnSet(f, S \cup T) = SumFunctionOnSet(f, S) + SumFunctionOnSet(f, T)
      BY <1>3, SumUnion
<1>5. SumFunctionOnSet(f, S) = SumFunctionOnSet(g, S) /\ SumFunctionOnSet(f, T) = SumFunctionOnSet(h, T)
      BY <1>3, SumSame
<1> QED BY <1>4, <1>5, Zenon DEF EscrowIn, f, g, h

LEMMA TickEscrow ==
    ASSUME BoardInv, ContractsInv', Tick
    PROVE  LET expired == {c \in contracts : c.lapsed}
           IN  /\ IdsInv' /\ EscrowIn(expired) \in Int
               /\ EscrowIn(contracts') = EscrowIn(contracts) - EscrowIn(expired)
<1> DEFINE expired == {c \in contracts : c.lapsed}
           left == contracts \ expired
           new == Posted(left)
<1>1. contracts' = left \cup new
      BY DEF Tick
<1>2. IdsInv' /\ IsFiniteSet(new) /\ \A c \in new : c \notin contracts /\ c.issuer = Colony
      BY TickIds DEF BoardInv
<1>3. /\ expired \subseteq contracts /\ left \subseteq contracts /\ left \cap expired = {}
      /\ left \cup expired = contracts
      OBVIOUS
<1>4. IsFiniteSet(contracts) /\ \A c \in contracts : Sound(c)
      BY DEF BoardInv, IdsInv, ContractsInv
<1>5. \A c \in contracts' : Sound(c)
  <2> TAKE c \in contracts'
  <2>1. Sound(c)'
        BY DEF ContractsInv
  <2> QED BY <2>1 DEF Sound
<1> HIDE DEF expired, left, new
<1>6. IsFiniteSet(left) /\ IsFiniteSet(expired)
      BY <1>3, <1>4, FS_Subset
<1>7. left \cap new = {} /\ \A c \in left \cup new : Sound(c)
      BY <1>1, <1>2, <1>3, <1>5
<1>8. EscrowIn(left \cup new) = EscrowIn(left) + EscrowIn(new)
      BY <1>2, <1>6, <1>7, EscrowUnion
<1>9. EscrowIn(left \cup expired) = EscrowIn(left) + EscrowIn(expired)
  <2>1. \A c \in left \cup expired : Sound(c)
        BY <1>3, <1>4
  <2> QED BY <1>3, <1>6, <2>1, EscrowUnion
<1>10. EscrowIn(new) = 0
  <2> DEFINE f == [c \in new |-> Escrow(c)]
  <2>1. \A c \in new : f[c] = 0
        BY <1>2, CharterAssumption DEF Escrow
  <2> HIDE DEF f
  <2>2. SumFunctionOnSet(f, new) = Cardinality(new) * 0 /\ Cardinality(new) \in Nat
        BY <1>2, <2>1, SumConstant, FS_CardinalityType
  <2>3. SumFunctionOnSet(f, new) = 0
        BY <2>2
  <2> QED BY <2>3 DEF EscrowIn, f
<1>11. EscrowIn(left) \in Int /\ EscrowIn(expired) \in Int
  <2>1. (\A c \in left : Sound(c)) /\ (\A c \in expired : Sound(c))
        BY <1>3, <1>4
  <2> QED BY <1>6, <2>1, EscrowIs
<1>12. /\ EscrowIn(contracts') = EscrowIn(left) + EscrowIn(new)
       /\ EscrowIn(contracts) = EscrowIn(left) + EscrowIn(expired)
      BY <1>1, <1>3, <1>8, <1>9, Zenon
<1>13. EscrowIn(contracts') = EscrowIn(contracts) - EscrowIn(expired)
      BY <1>10, <1>11, <1>12
<1> QED BY <1>2, <1>11, <1>13 DEF expired

LEMMA TickMoney ==
    ASSUME BoardInv, ContractsInv', Tick
    PROVE  IdsInv' /\ MoneyInv'
<1> DEFINE expired == {c \in contracts : c.lapsed}
           back == [p \in Pilots |-> Refund(expired, p)]
<1>1. /\ IdsInv' /\ EscrowIn(expired) \in Int
      /\ EscrowIn(contracts') = EscrowIn(contracts) - EscrowIn(expired)
      BY TickEscrow
<1>2. /\ accounts' = [p \in Pilots |->
                         [accounts[p] EXCEPT !.credits = accounts[p].credits + Refund(expired, p)]]
      /\ UNCHANGED <<at_desk, built, colony_paid, credits, stores, received>>
      BY DEF Tick, hangars
<1>3. expired \in SUBSET contracts
      OBVIOUS
<1> HIDE DEF expired
<1>4. /\ \A p \in Pilots : Refund(expired, p) \in Nat
      /\ SumFunctionOnSet(back, Pilots) = EscrowIn(expired)
      BY <1>3, RefundsAre
<1>5. accounts \in [Pilots -> [credits : Nat, goods : Nat]]
      BY DEF BoardInv, MoneyInv, Purses
<1>6. \A p \in Pilots :
         /\ accounts'[p] \in [credits : Nat, goods : Nat]
         /\ accounts[p].credits \in Int /\ accounts[p].goods \in Int
         /\ accounts'[p].credits = accounts[p].credits + Refund(expired, p)
         /\ accounts'[p].goods = accounts[p].goods
      BY <1>2, <1>4, <1>5
<1>7. accounts' \in [Pilots -> [credits : Nat, goods : Nat]]
      BY <1>2, <1>6
<1>8. \A p \in Pilots :
         /\ Owed(accounts)[p] \in Int /\ back[p] \in Int
         /\ Owed(accounts')[p] = Owed(accounts)[p] + back[p]
         /\ Kept(accounts)[p] \in Int /\ Kept(accounts')[p] = Kept(accounts)[p]
      BY <1>4, <1>6 DEF Owed, Kept
<1> HIDE DEF back
<1>9. /\ SumFunctionOnSet(Owed(accounts'), Pilots)
         = SumFunctionOnSet(Owed(accounts), Pilots) + SumFunctionOnSet(back, Pilots)
      /\ SumFunctionOnSet(Kept(accounts'), Pilots) = SumFunctionOnSet(Kept(accounts), Pilots)
  <2>1. SumFunctionOnSet(Owed(accounts'), Pilots)
        = SumFunctionOnSet(Owed(accounts), Pilots) + SumFunctionOnSet(back, Pilots)
        BY <1>8, Finite, SumPlus
  <2>2. SumFunctionOnSet(Kept(accounts'), Pilots) = SumFunctionOnSet(Kept(accounts), Pilots)
        BY <1>8, Finite, SumSame
  <2> QED BY <2>1, <2>2
<1>10. Purses'
      BY <1>2, <1>7 DEF BoardInv, MoneyInv, Purses
<1>11. /\ AllCredits(credits, at_desk, accounts, contracts) = SumFunctionOnSet(Credits, Pilots) + colony_paid
       /\ AllGoods(stores, accounts) + received + built = SumFunctionOnSet(Goods, Pilots)
      BY DEF BoardInv, MoneyInv
<1>12. AllCredits(credits', at_desk', accounts', contracts')
       = AllCredits(credits, at_desk, accounts, contracts)
  <2>1. /\ SumFunctionOnSet(credits, Pilots) \in Int /\ SumFunctionOnSet(at_desk, Pilots) \in Int
        /\ SumFunctionOnSet(Owed(accounts), Pilots) \in Int /\ EscrowIn(contracts) \in Int
        BY SumsAre
  <2>2. AllCredits(credits', at_desk', accounts', contracts')
        = SumFunctionOnSet(credits, Pilots) + SumFunctionOnSet(at_desk, Pilots)
          + (SumFunctionOnSet(Owed(accounts), Pilots) + EscrowIn(expired))
          + (EscrowIn(contracts) - EscrowIn(expired))
        BY <1>1, <1>2, <1>4, <1>9, Zenon DEF AllCredits
  <2>3. AllCredits(credits, at_desk, accounts, contracts)
        = SumFunctionOnSet(credits, Pilots) + SumFunctionOnSet(at_desk, Pilots)
          + SumFunctionOnSet(Owed(accounts), Pilots) + EscrowIn(contracts)
        BY DEF AllCredits
  <2>4. EscrowIn(expired) \in Int
        BY <1>1
  <2> QED BY <2>1, <2>2, <2>3, <2>4
<1>13. AllGoods(stores', accounts') = AllGoods(stores, accounts)
      BY <1>2, <1>9 DEF AllGoods
<1>14. MoneyInv'
      BY <1>2, <1>10, <1>11, <1>12, <1>13 DEF MoneyInv
<1> QED BY <1>1, <1>14

-----------------------------------------------------------------------------
LEMMA BoardKept == BoardInv /\ [Next]_vars => BoardInv'
<1> SUFFICES ASSUME BoardInv, [Next]_vars PROVE BoardInv'
    OBVIOUS
<1>1. ContractsInv /\ IdsInv /\ MoneyInv /\ ContractsInv'
      BY ContractsKept DEF BoardInv
<1> SUFFICES IdsInv' /\ MoneyInv'
    BY <1>1 DEF BoardInv
<1>2. CASE Tick
      BY <1>1, <1>2, TickMoney
<1>3. ASSUME NEW c \in contracts, Lapse(c)
      PROVE  IdsInv' /\ MoneyInv'
  <2>1. PICK d : d = [c EXCEPT !.lapsed = TRUE]
        OBVIOUS
  <2>2. Becomes(c, d) /\ UNCHANGED <<next_id, accounts, at_desk, hangars, built, colony_paid, received>>
        BY <1>3, <2>1 DEF Lapse
  <2>3. Sound(c)
        BY <1>1 DEF ContractsInv
  <2>4. /\ d.id = c.id /\ d.issuer = c.issuer /\ d.kind = c.kind
        /\ d.reward = c.reward /\ d.paid = c.paid
        BY <2>1, <2>3, SoundIs
  <2> QED BY <1>1, <2>2, <2>4, SwapMoney
<1>4. ASSUME NEW p \in Pilots, Asks(p)
      PROVE  IdsInv' /\ MoneyInv'
  <2>1. ASSUME NEW qty \in Quantities, NEW reward \in Rewards, Post(p, qty, reward)
        PROVE  IdsInv' /\ MoneyInv'
        BY <1>1, <2>1, PostMoney
  <2>2. ASSUME NEW c \in contracts, Withdraw(p, c)
        PROVE  IdsInv' /\ MoneyInv'
        BY <2>2, WithdrawMoney
  <2>3. ASSUME NEW c \in contracts, Take(p, c) \/ DropPatrol(p, c)
        PROVE  IdsInv' /\ MoneyInv'
        BY <1>1, <2>3, PatrolMoney
  <2>4. stores[p] \in Nat
        BY PursesAre
  <2>5. ASSUME NEW c \in contracts, NEW n \in 1..stores[p], Deliver(p, c, n)
        PROVE  IdsInv' /\ MoneyInv'
    <3>1. n \in Nat
          BY <2>4
    <3> QED BY <1>1, <2>5, <3>1, DeliverMoney
  <2>6. ASSUME NEW n \in 1..stores[p], Contribute(p, n)
        PROVE  IdsInv' /\ MoneyInv'
    <3>1. n \in Nat
          BY <2>4
    <3> QED BY <2>6, <3>1, ContributeMoney
  <2>7. CASE Sign(p)
    <3>1. /\ contracts' = contracts /\ next_id' = next_id
          /\ UNCHANGED <<accounts, at_desk, hangars, built, colony_paid, received>>
          BY <2>7 DEF Sign
    <3>2. MoneyInv'
          BY <3>1, StillMoney
    <3> QED BY <1>1, <3>1, <3>2 DEF IdsInv
  <2> QED BY <1>4, <2>1, <2>2, <2>3, <2>5, <2>6, <2>7 DEF Asks
<1>5. ASSUME NEW p \in Pilots, NEW c \in contracts, NEW b \in Bounties, Flies(p, c, b)
      PROVE  IdsInv' /\ MoneyInv'
      BY <1>1, <1>5, FliesMoney
<1>6. ASSUME NEW p \in Pilots, NEW there \in BOOLEAN, Settle(p, there)
      PROVE  IdsInv' /\ MoneyInv'
      BY <1>6, SettleMoney
<1>7. CASE UNCHANGED vars
  <2>1. /\ contracts' = contracts /\ next_id' = next_id
        /\ UNCHANGED <<accounts, at_desk, hangars, built, colony_paid, received>>
        BY <1>7 DEF vars, board
  <2>2. MoneyInv'
        BY <2>1, StillMoney
  <2> QED BY <1>1, <2>1, <2>2 DEF IdsInv
<1> QED BY <1>2, <1>3, <1>4, <1>5, <1>6, <1>7 DEF Next

LEMMA BoardInit == Init => IdsInv /\ MoneyInv
<1> SUFFICES ASSUME Init PROVE IdsInv /\ MoneyInv
    OBVIOUS
<1>1. /\ contracts = {} /\ next_id = 1 /\ accounts = [p \in Pilots |-> Nothing]
      /\ at_desk = [p \in Pilots |-> 0] /\ built = 0 /\ colony_paid = 0
      /\ credits = Credits /\ stores = Goods /\ received = 0
      BY DEF Init
<1>2. IdsInv
  <2>1. next_id \in 1..MaxIds + 1
        BY <1>1, CharterAssumption
  <2> QED BY <1>1, <2>1, FS_EmptySet DEF IdsInv
<1>3. Purses
      BY <1>1, CharterAssumption DEF Purses, Nothing
<1>4. \A p \in Pilots : /\ at_desk[p] = 0 /\ Owed(accounts)[p] = 0 /\ Kept(accounts)[p] = 0
                        /\ credits[p] \in Int /\ stores[p] \in Int
      BY <1>1, CharterAssumption DEF Owed, Kept, Nothing
<1>5. /\ SumFunctionOnSet(at_desk, Pilots) = 0
      /\ SumFunctionOnSet(Owed(accounts), Pilots) = 0
      /\ SumFunctionOnSet(Kept(accounts), Pilots) = 0
  <2>1. Cardinality(Pilots) \in Nat
        BY Finite, FS_CardinalityType
  <2>2. Cardinality(Pilots) * 0 = 0
        BY <2>1
  <2>3. SumFunctionOnSet(at_desk, Pilots) = Cardinality(Pilots) * 0
        BY <1>4, Finite, SumConstant
  <2>4. SumFunctionOnSet(Owed(accounts), Pilots) = Cardinality(Pilots) * 0
        BY <1>4, Finite, SumConstant
  <2>5. SumFunctionOnSet(Kept(accounts), Pilots) = Cardinality(Pilots) * 0
        BY <1>4, Finite, SumConstant
  <2> QED BY <2>2, <2>3, <2>4, <2>5
<1>6. EscrowIn(contracts) = 0
      BY <1>1, SumEmpty DEF EscrowIn
<1>7. SumFunctionOnSet(credits, Pilots) \in Int /\ SumFunctionOnSet(stores, Pilots) \in Int
      BY <1>4, Finite, SumType
<1>8. /\ AllCredits(credits, at_desk, accounts, contracts) = SumFunctionOnSet(credits, Pilots)
      /\ AllGoods(stores, accounts) + received + built = SumFunctionOnSet(stores, Pilots)
      BY <1>1, <1>5, <1>6, <1>7 DEF AllCredits, AllGoods
<1>9. SumFunctionOnSet(credits, Pilots) = SumFunctionOnSet(Credits, Pilots) + colony_paid
      BY <1>1, <1>7
<1>10. SumFunctionOnSet(stores, Pilots) = SumFunctionOnSet(Goods, Pilots)
      BY <1>1, Zenon
<1> QED BY <1>2, <1>3, <1>8, <1>9, <1>10 DEF MoneyInv

LEMMA ConservedFollows == BoardInv /\ VoteInv => Conserved
<1> SUFFICES ASSUME BoardInv, VoteInv PROVE Conserved
    OBVIOUS
<1>1. ContractsInv /\ IdsInv /\ Purses
      BY DEF BoardInv, MoneyInv
<1>2. contracts \subseteq ContractType
  <2> SUFFICES ASSUME NEW c \in contracts PROVE c \in ContractType
      OBVIOUS
  <2>1. Sound(c) /\ c.id \in 1..MaxIds
        BY <1>1 DEF ContractsInv, IdsInv
  <2> QED BY <2>1 DEF Sound, ContractType
<1>3. TypeOK
  <2>1. next_id \in 1..MaxIds + 1
        BY <1>1 DEF IdsInv
  <2>2. flown \in [Pilots -> Nat]
        BY <1>1 DEF ContractsInv
  <2>3. standing \in [Pilots -> Nat] /\ signatures \in Seq(Pilots) /\ era \in {0, 1}
        BY DEF VoteInv
  <2>4. /\ accounts \in [Pilots -> [credits : Nat, goods : Nat]] /\ at_desk \in [Pilots -> Nat]
        /\ built \in 0..WorksNeed /\ colony_paid \in Nat
        /\ credits \in [Pilots -> Nat] /\ stores \in [Pilots -> Nat] /\ received \in Nat
        BY <1>1 DEF Purses
  <2> QED BY <1>2, <2>1, <2>2, <2>3, <2>4, Zenon DEF TypeOK
<1>4. /\ DOMAIN credits = Pilots /\ DOMAIN stores = Pilots /\ DOMAIN at_desk = Pilots
      /\ DOMAIN Credits = Pilots /\ DOMAIN Goods = Pilots
      /\ DOMAIN Owed(accounts) = Pilots /\ DOMAIN Kept(accounts) = Pilots
      BY <1>1, CharterAssumption DEF Purses, Owed, Kept
<1>5. /\ SumFunction(credits) = SumFunctionOnSet(credits, Pilots)
      /\ SumFunction(stores) = SumFunctionOnSet(stores, Pilots)
      /\ SumFunction(at_desk) = SumFunctionOnSet(at_desk, Pilots)
      /\ SumFunction(Credits) = SumFunctionOnSet(Credits, Pilots)
      /\ SumFunction(Goods) = SumFunctionOnSet(Goods, Pilots)
      /\ SumFunction([p \in Pilots |-> accounts[p].credits]) = SumFunctionOnSet(Owed(accounts), Pilots)
      /\ SumFunction([p \in Pilots |-> accounts[p].goods]) = SumFunctionOnSet(Kept(accounts), Pilots)
      BY <1>4, Zenon DEF SumFunction, Owed, Kept
<1>6. SumFunction([c \in {d \in contracts : d.issuer \in Pilots} |-> unpaid(c)]) = EscrowIn(contracts)
  <2> DEFINE S == {d \in contracts : d.issuer \in Pilots}
             f == [c \in S |-> unpaid(c)]
  <2>1. SumFunctionOnSet(f, S) = EscrowIn(contracts)
        BY <1>1, EscrowOfPilots DEF ContractsInv, IdsInv
  <2>2. DOMAIN f = S
        OBVIOUS
  <2>3. SumFunction(f) = SumFunctionOnSet(f, DOMAIN f)
        BY DEF SumFunction
  <2> HIDE DEF S, f
  <2>4. SumFunction(f) = EscrowIn(contracts)
        BY <2>1, <2>2, <2>3, Zenon
  <2> QED BY <2>4 DEF S, f
<1>7. CreditsConserved
  <2>1. AllCredits(credits, at_desk, accounts, contracts) = SumFunctionOnSet(Credits, Pilots) + colony_paid
        BY DEF BoardInv, MoneyInv
  <2> QED BY <1>5, <1>6, <2>1, Zenon DEF CreditsConserved, AllCredits
<1>8. GoodsConserved
  <2>1. AllGoods(stores, accounts) + received + built = SumFunctionOnSet(Goods, Pilots)
        BY DEF BoardInv, MoneyInv
  <2> QED BY <1>5, <2>1, Zenon DEF GoodsConserved, AllGoods
<1> QED BY <1>3, <1>7, <1>8 DEF Conserved

(* No contract, patrol or great work makes or loses a credit or a good, however many pilots
   and contracts there are: hangars, bays, desk and escrow add up to what there was and what
   the colony paid, and no amount wraps (Board::post, deliver, withdraw, tick, collect). *)
THEOREM BoardConserves == Spec => []Conserved
<1>1. Init => BoardInv
  <2>1. Init => ContractsInv
        BY DEF Init, ContractsInv, Lone
  <2> QED BY <2>1, BoardInit DEF BoardInv
<1>2. Spec => []BoardInv
      BY <1>1, BoardKept, PTL DEF Spec
<1> QED BY <1>2, VoteAlways, ConservedFollows, PTL

-----------------------------------------------------------------------------
(***************************************************************************)
(* The Board's desk and the files (Desk), for every number of rifles,      *)
(* goods, lines and stops of the server: wherever it stops nothing goes    *)
(* missing, and nothing is handed over twice if it stops at rest.          *)
(*                                                                         *)
(* Neither is inductive: a stop puts the files in the place of what is in  *)
(* memory, and a write under way puts its snapshot in the place of a file. *)
(* So the invariant says of every copy there is of a shared file (Copies:  *)
(* the file, and the snapshots under way) what the properties say of the   *)
(* one in memory, against both copies of the pilot's record; which of the  *)
(* two, the order of the saves yet to come decides (Waiting, Before).      *)
(***************************************************************************)


C == "charter"
M == "market"
H == "homes"
R == "record"

(* What the session has yet to save, in any order. *)
Waiting(q) == {q[i] : i \in DOMAIN q}

(* The shared file f is to be saved before the record. *)
Before(f) == todo # <<>> /\ Head(todo) = f /\ R \in Waiting(todo)

(* What file f says, or will when a write under way is done. *)
Copies(f) == {file[f]} \cup {w.what : w \in {v \in writing : v.file = f}}

(* What each shared file may hold. *)
Contents(f) == IF f = C THEN [Things -> Nat] ELSE IF f = M THEN 0..Rifles ELSE Nat

IsHangar(x) ==
    /\ x \in [sheet : [Lines -> 0..MaxLines], held : [Things -> Nat], stores : Nat]
    /\ x.sheet["certified"] \in {0, 1}

Shapes ==
    /\ DOMAIN mem = Shared /\ DOMAIN file = Shared \cup {R}
    /\ \A f \in Shared : mem[f] \in Contents(f) /\ Copies(f) \subseteq Contents(f)
    /\ IsHangar(hangar) /\ IsHangar(file[R])
    /\ \A w \in writing : w.file \in Shared /\ w.by \in {"session", "other"}
    /\ early \in BOOLEAN /\ crashes \in 0..MaxCrashes
    /\ mishaps \subseteq {"unheard", "abrupt", "raced"}

(* What may be left to save, in each state of the session. *)
QueueInv ==
    \/ session = "away" /\ todo = <<>>
    \/ session = "in" /\ todo \in {<<>>, <<C, M, R>>, <<M, R>>, <<C, R>>, <<H, R>>, <<R>>,
                                   <<R, C>>, <<R, H>>, <<C>>, <<H>>}
    \/ session = "telling" /\ todo \in {<<R, C>>, <<H, R>>, <<R, H>>}
    \/ session = "leaving" /\ todo \in {<<>>, <<C, R>>, <<H, R>>, <<R>>}

(* One write of a file at a time; and the session's is of what it has to save next, as it is
   in memory. *)
WritesInv ==
    /\ \A v, w \in writing : v.file = w.file => v = w
    /\ \A w \in writing : w.by = "session" =>
          session # "telling" /\ todo # <<>> /\ Head(todo) = w.file /\ w.what = mem[w.file]

(* A session with no record to keep has what its record says; and a record is never ahead. *)
RecordInv ==
    /\ R \notin Waiting(todo) => hangar = file[R] /\ ~early
    /\ \A l \in Lines : file[R].sheet[l] <= hangar.sheet[l]

(* The desk c has, or h has been handed, what is on h's sheet. *)
Paid(c, h) == \A l \in Lines : h.sheet[l] <= Of(c, l) + Of(h.held, l)

(* Whichever copies are read after a stop, nothing on the sheet goes missing. *)
PaidInv ==
    "raced" \notin mishaps =>
        /\ Paid(mem[C], hangar)
        /\ ~early => \A c \in Copies(C) : Paid(c, file[R])
        /\ ~Before(C) => \A c \in Copies(C) : Paid(c, hangar)
        /\ Before(C) => hangar.held = file[R].held

(* Nor anything put in a home. *)
HomeInv ==
    mishaps \cap {"raced", "unheard"} = {} =>
        /\ hangar.stores + mem[H] >= Belongings
        /\ ~early => \A n \in Copies(H) : file[R].stores + n >= Belongings
        /\ ~Before(H) => \A n \in Copies(H) : hangar.stores + n >= Belongings
        /\ Before(H) => hangar.stores <= file[R].stores

(* What the session has not to save, every copy has. *)
SettledInv ==
    "unheard" \notin mishaps =>
        \A f \in Shared : f \notin Waiting(todo) => \A c \in Copies(f) : c = mem[f]

DeskInv ==
    /\ Shapes /\ QueueInv /\ WritesInv /\ RecordInv
    /\ PaidInv /\ HomeInv /\ SettledInv /\ HandedOnceIfTold

-----------------------------------------------------------------------------
(* What is left to save, in every queue there is. *)
LEMMA Queues ==
    ASSUME NEW a, NEW b, NEW c
    PROVE  /\ Waiting(<<>>) = {}
           /\ Waiting(<<a>>) = {a} /\ Head(<<a>>) = a /\ Tail(<<a>>) = <<>>
           /\ <<a>> # <<>>
           /\ Waiting(<<a, b>>) = {a, b} /\ Head(<<a, b>>) = a /\ Tail(<<a, b>>) = <<b>>
           /\ <<a, b>> # <<>>
           /\ Waiting(<<a, b, c>>) = {a, b, c} /\ Head(<<a, b, c>>) = a
           /\ Tail(<<a, b, c>>) = <<b, c>> /\ <<a, b, c>> # <<>>
<1>1. Waiting(<<>>) = {} BY DEF Waiting
<1>2. Waiting(<<a>>) = {a} /\ Head(<<a>>) = a /\ Tail(<<a>>) = <<>> /\ <<a>> # <<>> BY DEF Waiting
<1>3. Waiting(<<a, b>>) = {a, b} BY DEF Waiting
<1>4. Head(<<a, b>>) = a /\ Tail(<<a, b>>) = <<b>> /\ <<a, b>> # <<>> OBVIOUS
<1>5. Waiting(<<a, b, c>>) = {a, b, c} BY DEF Waiting
<1>6. Head(<<a, b, c>>) = a /\ Tail(<<a, b, c>>) = <<b, c>> /\ <<a, b, c>> # <<>> OBVIOUS
<1> QED BY <1>1, <1>2, <1>3, <1>4, <1>5, <1>6

(* What the next save leaves to be saved: no file it must come before. *)
LEMMA Saves ==
    ASSUME QueueInv
    PROVE  /\ todo = <<>> => Waiting(todo) = {}
           /\ todo # <<>> =>
                /\ Head(todo) \in Waiting(todo)
                /\ Waiting(Tail(todo)) = Waiting(todo) \ {Head(todo)}
                /\ Tail(todo) # <<>> /\ R \in Waiting(Tail(todo)) => Head(Tail(todo)) \notin {C, H}
           /\ session \in {"away", "in", "telling", "leaving"}
<1>1. CASE todo = <<>> BY <1>1, Queues DEF QueueInv
<1>2. CASE todo = <<C, M, R>>
    <2>1. Waiting(<<C, M, R>>) = {C, M, R} /\ Waiting(<<M, R>>) = {M, R} BY DEF Waiting
    <2>2. /\ Head(<<C, M, R>>) = C /\ Tail(<<C, M, R>>) = <<M, R>> /\ Head(<<M, R>>) = M
          /\ <<M, R>> # <<>> OBVIOUS
    <2> QED BY <1>2, <2>1, <2>2 DEF QueueInv, C, M, H, R
<1>3. CASE todo \in {<<M, R>>, <<C, R>>, <<H, R>>, <<R, C>>, <<R, H>>}
    <2>1. PICK a \in {C, M, H, R}, b \in {C, M, H, R} :
              todo = <<a, b>> /\ a # b /\ (b = R \/ a = R)
        BY <1>3 DEF C, M, H, R
    <2>2. /\ Waiting(todo) = {a, b} /\ Head(todo) = a /\ Tail(todo) = <<b>>
          /\ Waiting(<<b>>) = {b} /\ Head(<<b>>) = b /\ <<a, b>> # <<>> BY <2>1, Queues, ZenonT(60)
    <2> QED BY <2>1, <2>2 DEF QueueInv, C, M, H, R
<1>4. CASE todo \in {<<R>>, <<C>>, <<H>>}
    <2>1. PICK a \in {C, H, R} : todo = <<a>>
        BY <1>4 DEF C, M, H, R
    <2>2. /\ Waiting(todo) = {a} /\ Head(todo) = a /\ Tail(todo) = <<>>
          /\ Waiting(<<>>) = {} /\ <<a>> # <<>> BY <2>1, Queues, Zenon
    <2> QED BY <2>1, <2>2 DEF QueueInv, C, M, H, R
<1> QED BY <1>1, <1>2, <1>3, <1>4 DEF QueueInv

(* The pairs and the triple the session has to save. *)
LEMMA Keeps ==
    /\ CertifyKeeps = <<C, M, R>> /\ BountyKeeps = <<C, R>> /\ HandOverKeeps = <<R, C>>
    /\ PutInKeeps = <<H, R>>
    /\ \A home \in BOOLEAN : LeaveKeeps(home) \subseteq {<<R>>, <<H, R>>}
BY DEF CertifyKeeps, BountyKeeps, HandOverKeeps, PutInKeeps, LeaveKeeps, C, M, H, R

LEMMA QueueStep ==
    ASSUME QueueInv, WritesInv, [DeskNext]_deskVars
    PROVE  QueueInv'
<1> SUFFICES ASSUME DeskNext PROVE QueueInv' BY DEF deskVars, QueueInv
<1>1. ASSUME session # "telling", todo # <<>>, todo' = Tail(todo), session' = session
      PROVE  QueueInv'
    <2>1. /\ Tail(<<C, M, R>>) = <<M, R>> /\ Tail(<<M, R>>) = <<R>> /\ Tail(<<C, R>>) = <<R>>
          /\ Tail(<<H, R>>) = <<R>> /\ Tail(<<R>>) = <<>> /\ Tail(<<R, C>>) = <<C>>
          /\ Tail(<<R, H>>) = <<H>> /\ Tail(<<C>>) = <<>> /\ Tail(<<H>>) = <<>>
        OBVIOUS
    <2>2. CASE session = "in" BY <1>1, <2>1, <2>2 DEF QueueInv
    <2>3. CASE session = "leaving" BY <1>1, <2>1, <2>3 DEF QueueInv
    <2> QED BY <1>1, <2>2, <2>3 DEF QueueInv
<1>2. CASE SaveRecord BY <1>1, <1>2 DEF SaveRecord, Saving
<1>3. CASE \E f \in Shared : SessionWrites(f) \/ OtherWrites(f)
    BY <1>3 DEF SessionWrites, OtherWrites, QueueInv
<1>4. CASE \E w \in writing : Written(w) BY <1>1, <1>4 DEF Written, WritesInv, QueueInv
<1>5. CASE Enter BY <1>5 DEF Enter, QueueInv
<1>6. CASE Certify BY <1>6, Keeps DEF Certify, Idle, QueueInv
<1>7. CASE HandOver BY <1>7, Keeps DEF HandOver, Idle, QueueInv
<1>8. CASE PutIn BY <1>8, Keeps DEF PutIn, Idle, QueueInv
<1>9. CASE TakeOut BY <1>9 DEF TakeOut, Idle, QueueInv, R, H
<1>10. CASE Told BY <1>10 DEF Told, QueueInv
<1>11. CASE Unheard
    <2>1. todo' \in {<<R>>, <<H, R>>} BY <1>11, Keeps DEF Unheard
    <2> QED BY <2>1, <1>11 DEF Unheard, QueueInv
<1>12. CASE Leave
    <2>1. todo' \in {<<R>>, <<H, R>>, <<C, R>>} BY <1>12, Keeps DEF Leave
    <2> QED BY <2>1, <1>12 DEF Leave, QueueInv
<1>13. CASE Gone BY <1>13 DEF Gone, QueueInv
<1>14. CASE \E b \in BountyKinds : Bounty(b) BY <1>14, Keeps DEF Bounty, Idle, QueueInv
<1>15. CASE Crash BY <1>15 DEF Crash, QueueInv
<1> QED BY <1>2, <1>3, <1>4, <1>5, <1>6, <1>7, <1>8, <1>9, <1>10, <1>11, <1>12, <1>13, <1>14,
           <1>15 DEF DeskNext

-----------------------------------------------------------------------------
(* How the copies of the shared files come and go. *)
LEMMA CopyBegins ==
    ASSUME Shapes, NEW f \in Shared, NEW who, Begin(f, who), UNCHANGED file, NEW g \in Shared
    PROVE  Copies(g)' \subseteq Copies(g) \cup (IF g = f THEN {mem[f]} ELSE {})
BY DEF Begin, Copies

LEMMA CopyWritten ==
    ASSUME Shapes, WritesInv, NEW w \in writing, Written(w), NEW g \in Shared
    PROVE  /\ Copies(g)' \subseteq Copies(g)
           /\ g = w.file => Copies(g)' = {w.what}
           /\ file'[R] = file[R] /\ DOMAIN file' = Shared \cup {R}
<1>1. w.file \in Shared /\ DOMAIN file = Shared \cup {R} BY DEF Shapes
<1>2. /\ file'[w.file] = w.what /\ \A f \in Shared \cup {R} : f # w.file => file'[f] = file[f]
      /\ DOMAIN file' = Shared \cup {R}
    BY <1>1 DEF Written
<1>3. file'[R] = file[R] BY <1>1, <1>2 DEF Shared, R
<1>4. w.what \in Copies(w.file) BY DEF Copies
<1>5. writing' = writing \ {w} BY DEF Written
<1>6. \A v \in writing : v.file = w.file => v = w BY DEF WritesInv
<1>7. CASE g = w.file
    <2>1. {v \in writing' : v.file = g} = {} BY <1>5, <1>6, <1>7
    <2>2. Copies(g)' = {w.what} BY <2>1, <1>2, <1>7 DEF Copies
    <2> QED BY <2>2, <1>2, <1>3, <1>4, <1>7
<1>8. CASE g # w.file BY <1>2, <1>3, <1>5, <1>8 DEF Copies
<1> QED BY <1>7, <1>8

LEMMA CopySame ==
    ASSUME NEW g \in Shared, UNCHANGED writing, file'[g] = file[g]
    PROVE  Copies(g)' = Copies(g)
BY DEF Copies

LEMMA RecordSaved ==
    ASSUME Shapes, SaveRecord
    PROVE  /\ file'[R] = hangar /\ DOMAIN file' = Shared \cup {R}
           /\ \A g \in Shared : file'[g] = file[g] /\ Copies(g)' = Copies(g)
<1>1. DOMAIN file = Shared \cup {R} BY DEF Shapes
<1>2. /\ file'[R] = hangar /\ DOMAIN file' = Shared \cup {R}
      /\ \A g \in Shared : file'[g] = file[g]
    BY <1>1 DEF SaveRecord, R, Shared
<1>3. UNCHANGED writing BY DEF SaveRecord
<1> QED BY <1>2, <1>3, CopySame

LEMMA CopyHas ==
    ASSUME NEW g \in Shared
    PROVE  file[g] \in Copies(g) /\ \A w \in writing : w.file = g => w.what \in Copies(g)
BY DEF Copies

(* What a stop leaves. *)
LEMMA Stopped ==
    ASSUME Shapes, Crash
    PROVE  /\ DOMAIN mem' = Shared /\ \A g \in Shared : mem'[g] = file[g] /\ Copies(g)' = {file[g]}
           /\ hangar' = file[R] /\ file' = file
<1>1. /\ DOMAIN mem' = Shared /\ \A g \in Shared : mem'[g] = file[g]
      /\ hangar' = file[R] /\ file' = file /\ writing' = {}
    BY DEF Crash, R
<1> QED BY <1>1 DEF Copies

(* What each request changes of what is in memory. *)
LEMMA MemIs ==
    ASSUME Shapes
    PROVE  /\ mem[C] \in [Things -> Nat] /\ mem[M] \in 0..Rifles /\ mem[H] \in Nat
           /\ hangar.sheet \in [Lines -> 0..MaxLines] /\ hangar.held \in [Things -> Nat]
           /\ hangar.stores \in Nat /\ DOMAIN hangar = {"sheet", "held", "stores"}
           /\ DOMAIN mem = {C, M, H} /\ Shared = {C, M, H}
<1>1. mem[C] \in Contents(C) /\ mem[M] \in Contents(M) /\ mem[H] \in Contents(H)
    BY DEF Shapes, Shared, C, M, H
<1>2. Contents(C) = [Things -> Nat] /\ Contents(M) = 0..Rifles /\ Contents(H) = Nat
    BY DEF Contents, C, M, H
<1>3. hangar \in [sheet : [Lines -> 0..MaxLines], held : [Things -> Nat], stores : Nat]
    BY DEF Shapes, IsHangar
<1>4. DOMAIN mem = {C, M, H} /\ Shared = {C, M, H} BY DEF Shapes, Shared, C, M, H
<1> QED BY <1>1, <1>2, <1>3, <1>4

(* A line on the sheet, and what it pays at the desk (Certify and Pays). *)
Credited ==
    /\ \A f \in Shared : mem'[f] \in Contents(f)
    /\ DOMAIN mem' = Shared /\ mem'[H] = mem[H] /\ IsHangar(hangar')
    /\ hangar'.held = hangar.held /\ hangar'.stores = hangar.stores
    /\ \A l \in Lines : \E n \in {0, 1} : /\ Of(mem'[C], l) = Of(mem[C], l) + n
                                          /\ hangar'.sheet[l] = hangar.sheet[l] + n
    /\ mem'[M] + mem'[C]["rifle"] = mem[M] + mem[C]["rifle"]

LEMMA CertifyCredits ==
    ASSUME Shapes, Certify
    PROVE  Credited
<1> DEFINE thing == IF mem.market > 0 THEN "rifle" ELSE "worth"
<1> USE DEF C, M, H
<1>0. /\ mem[C] \in [Things -> Nat] /\ mem[M] \in 0..Rifles /\ mem[H] \in Nat
      /\ hangar.sheet \in [Lines -> 0..MaxLines] /\ hangar.held \in [Things -> Nat]
      /\ hangar.stores \in Nat /\ DOMAIN hangar = {"sheet", "held", "stores"}
      /\ DOMAIN mem = {C, M, H} /\ Shared = {C, M, H}
    BY MemIs
<1>1. Rifles \in Nat /\ MaxLines \in Nat \ {0} BY DeskAssumption
<1>2. mem' = [mem EXCEPT !.charter[thing] = @ + 1, !.market = IF thing = "rifle" THEN @ - 1 ELSE @]
    BY DEF Certify
<1>3. hangar' = [hangar EXCEPT !.sheet["certified"] = @ + 1] BY DEF Certify
<1>4. /\ mem'[C] = [mem[C] EXCEPT ![thing] = @ + 1]
      /\ mem'[M] = (IF thing = "rifle" THEN mem[M] - 1 ELSE mem[M])
      /\ mem'[H] = mem[H] /\ DOMAIN mem' = Shared
    BY <1>0, <1>2
<1>5. thing \in Things /\ thing \in {"rifle", "worth"} /\ (thing = "rifle" => mem[M] > 0)
    BY DEF Things
<1> HIDE DEF thing
<1>6. /\ mem'[C] \in [Things -> Nat] /\ mem'[C][thing] = mem[C][thing] + 1
      /\ \A t \in Things : t # thing => mem'[C][t] = mem[C][t]
    BY <1>0, <1>4, <1>5
<1>7. /\ mem'[M] \in 0..Rifles /\ {"rifle", "worth"} \subseteq Things
      /\ \A t \in Things : mem[C][t] \in Nat
    BY <1>0, <1>1, <1>4, <1>5 DEF Things
<1>8. mem'[M] + mem'[C]["rifle"] = mem[M] + mem[C]["rifle"]
    <2>1. CASE thing = "rifle" BY <2>1, <1>0, <1>1, <1>4, <1>6, <1>7
    <2>2. CASE thing = "worth" BY <2>2, <1>0, <1>1, <1>4, <1>6, <1>7
    <2> QED BY <2>1, <2>2, <1>5
<1>9. /\ hangar'.sheet = [hangar.sheet EXCEPT !["certified"] = @ + 1]
      /\ hangar'.held = hangar.held /\ hangar'.stores = hangar.stores
      /\ DOMAIN hangar' = {"sheet", "held", "stores"}
    BY <1>0, <1>3
<1>10. hangar.sheet["certified"] = 0 BY DEF Certify, Unissued
<1>11. /\ hangar'.sheet["certified"] = 1
       /\ \A l \in Lines : l # "certified" => hangar'.sheet[l] = hangar.sheet[l]
       /\ hangar'.sheet \in [Lines -> 0..MaxLines] /\ "certified" \in Lines
    BY <1>0, <1>1, <1>9, <1>10 DEF Lines
<1>12. IsHangar(hangar')
    <2>1. hangar' = [sheet |-> hangar'.sheet, held |-> hangar'.held, stores |-> hangar'.stores]
        BY <1>3, <1>0, <1>9 DEF Shapes, IsHangar
    <2> QED BY <2>1, <1>0, <1>9, <1>11 DEF IsHangar
<1>13. ASSUME NEW l \in Lines
       PROVE  \E n \in {0, 1} : /\ Of(mem'[C], l) = Of(mem[C], l) + n
                                /\ hangar'.sheet[l] = hangar.sheet[l] + n
    <2>1. CASE l = "certified"
        <3>1. Of(mem'[C], l) = Of(mem[C], l) + 1 BY <2>1, <1>5, <1>6, <1>7 DEF Of
        <3> QED BY <3>1, <2>1, <1>10, <1>11
    <2>2. CASE l # "certified"
        <3>1. l \in Things /\ l \notin {"rifle", "worth"} BY <2>2 DEF Lines, Things, BountyKinds
        <3>2. Of(mem'[C], l) = Of(mem[C], l) + 0 BY <3>1, <2>2, <1>5, <1>6, <1>7 DEF Of
        <3>3. hangar.sheet[l] = hangar.sheet[l] + 0 BY <1>0, <1>1
        <3> QED BY <3>2, <3>3, <2>2, <1>11
    <2> QED BY <2>1, <2>2
<1>14. \A f \in Shared : mem'[f] \in Contents(f) BY <1>0, <1>4, <1>6, <1>7 DEF Contents
<1> QED BY <1>4, <1>8, <1>9, <1>12, <1>13, <1>14 DEF Credited

LEMMA PaysCredits ==
    ASSUME Shapes, NEW b \in BountyKinds, Pays(b)
    PROVE  Credited
<1> USE DEF C, M, H
<1>0. /\ mem[C] \in [Things -> Nat] /\ mem[M] \in 0..Rifles /\ mem[H] \in Nat
      /\ hangar.sheet \in [Lines -> 0..MaxLines] /\ hangar.held \in [Things -> Nat]
      /\ hangar.stores \in Nat /\ DOMAIN hangar = {"sheet", "held", "stores"}
      /\ DOMAIN mem = {C, M, H} /\ Shared = {C, M, H}
    BY MemIs
<1>1. Rifles \in Nat /\ MaxLines \in Nat \ {0} BY DeskAssumption
<1>2. mem' = [mem EXCEPT !.charter[b] = @ + 1] BY DEF Pays
<1>3. hangar' = [hangar EXCEPT !.sheet[b] = @ + 1] BY DEF Pays
<1>4. /\ mem'[C] = [mem[C] EXCEPT ![b] = @ + 1]
      /\ mem'[M] = mem[M] /\ mem'[H] = mem[H] /\ DOMAIN mem' = Shared
    BY <1>0, <1>2
<1>5. b \in Things /\ b \notin {"rifle", "worth", "certified"} /\ b \in Lines
    BY DEF BountyKinds, Things, Lines
<1>6. /\ mem'[C] \in [Things -> Nat] /\ mem'[C][b] = mem[C][b] + 1
      /\ \A t \in Things : t # b => mem'[C][t] = mem[C][t]
    BY <1>0, <1>4, <1>5
<1>7. {"rifle", "worth"} \subseteq Things /\ \A t \in Things : mem[C][t] \in Nat
    BY <1>0 DEF Things
<1>8. mem'[M] + mem'[C]["rifle"] = mem[M] + mem[C]["rifle"] BY <1>4, <1>5, <1>6, <1>7
<1>9. /\ hangar'.sheet = [hangar.sheet EXCEPT ![b] = @ + 1]
      /\ hangar'.held = hangar.held /\ hangar'.stores = hangar.stores
      /\ DOMAIN hangar' = {"sheet", "held", "stores"}
    BY <1>0, <1>3
<1>10. hangar.sheet[b] < MaxLines BY DEF Pays
<1>11. /\ hangar'.sheet[b] = hangar.sheet[b] + 1
       /\ \A l \in Lines : l # b => hangar'.sheet[l] = hangar.sheet[l]
       /\ hangar'.sheet \in [Lines -> 0..MaxLines] /\ "certified" \in Lines
    BY <1>0, <1>1, <1>5, <1>9, <1>10 DEF Lines
<1>12. IsHangar(hangar')
    <2>1. hangar' = [sheet |-> hangar'.sheet, held |-> hangar'.held, stores |-> hangar'.stores]
        BY <1>3, <1>0, <1>9 DEF Shapes, IsHangar
    <2> QED BY <2>1, <1>0, <1>5, <1>9, <1>11 DEF IsHangar, Shapes
<1>13. ASSUME NEW l \in Lines
       PROVE  \E n \in {0, 1} : /\ Of(mem'[C], l) = Of(mem[C], l) + n
                                /\ hangar'.sheet[l] = hangar.sheet[l] + n
    <2>1. CASE l = b
        <3>1. Of(mem'[C], l) = Of(mem[C], l) + 1 BY <2>1, <1>5, <1>6, <1>7 DEF Of
        <3> QED BY <3>1, <2>1, <1>11
    <2>2. CASE l # b
        <3>1. Of(mem'[C], l) = Of(mem[C], l) /\ Of(mem[C], l) \in Nat
            <4>1. CASE l = "certified" BY <4>1, <1>5, <1>6, <1>7 DEF Of
            <4>2. CASE l # "certified"
                <5>1. l \in Things BY <4>2 DEF Lines, Things, BountyKinds
                <5> QED BY <5>1, <4>2, <2>2, <1>6, <1>7 DEF Of
            <4> QED BY <4>1, <4>2
        <3>2. Of(mem'[C], l) = Of(mem[C], l) + 0 BY <3>1
        <3>3. hangar.sheet[l] = hangar.sheet[l] + 0 BY <1>0, <1>1
        <3> QED BY <3>2, <3>3, <2>2, <1>11
    <2> QED BY <2>1, <2>2
<1>14. \A f \in Shared : mem'[f] \in Contents(f) BY <1>0, <1>4, <1>6 DEF Contents
<1> QED BY <1>4, <1>8, <1>9, <1>12, <1>13, <1>14 DEF Credited

(* What the desk held, handed over. *)
LEMMA HandOverMoves ==
    ASSUME Shapes, HandOver
    PROVE  /\ \A f \in Shared : mem'[f] \in Contents(f)
           /\ DOMAIN mem' = Shared /\ mem'[H] = mem[H] /\ mem'[M] = mem[M] /\ IsHangar(hangar')
           /\ hangar'.sheet = hangar.sheet /\ hangar'.stores = hangar.stores
           /\ \A l \in Lines : /\ Of(mem'[C], l) = 0
                               /\ Of(hangar'.held, l) = Of(hangar.held, l) + Of(mem[C], l)
           /\ mem'[C]["rifle"] = 0
           /\ hangar'.held["rifle"] = hangar.held["rifle"] + mem[C]["rifle"]
<1> USE DEF C, M, H
<1>0. /\ mem[C] \in [Things -> Nat] /\ mem[M] \in 0..Rifles /\ mem[H] \in Nat
      /\ hangar.sheet \in [Lines -> 0..MaxLines] /\ hangar.held \in [Things -> Nat]
      /\ hangar.stores \in Nat /\ DOMAIN hangar = {"sheet", "held", "stores"}
      /\ DOMAIN mem = {C, M, H} /\ Shared = {C, M, H}
    BY MemIs
<1>1. mem' = [mem EXCEPT !.charter = [t \in Things |-> 0]] BY DEF HandOver
<1>2. hangar' = [hangar EXCEPT !.held = [t \in Things |-> @[t] + mem.charter[t]]] BY DEF HandOver
<1>3. /\ mem'[C] = [t \in Things |-> 0] /\ mem'[M] = mem[M] /\ mem'[H] = mem[H]
      /\ DOMAIN mem' = Shared
    BY <1>0, <1>1
<1>4. /\ hangar'.held = [t \in Things |-> hangar.held[t] + mem[C][t]]
      /\ hangar'.sheet = hangar.sheet /\ hangar'.stores = hangar.stores
      /\ DOMAIN hangar' = {"sheet", "held", "stores"}
    BY <1>0, <1>2
<1>5. /\ \A t \in Things : /\ mem'[C][t] = 0 /\ hangar'.held[t] = hangar.held[t] + mem[C][t]
                           /\ mem[C][t] \in Nat /\ hangar.held[t] \in Nat
      /\ mem'[C] \in [Things -> Nat] /\ hangar'.held \in [Things -> Nat]
      /\ {"rifle", "worth"} \subseteq Things
    BY <1>0, <1>3, <1>4 DEF Things
<1>6. IsHangar(hangar')
    <2>1. hangar' = [sheet |-> hangar'.sheet, held |-> hangar'.held, stores |-> hangar'.stores]
        BY <1>2, <1>0, <1>4 DEF Shapes, IsHangar
    <2> QED BY <2>1, <1>0, <1>5, <1>4 DEF IsHangar, Shapes
<1>7. ASSUME NEW l \in Lines
      PROVE  /\ Of(mem'[C], l) = 0
             /\ Of(hangar'.held, l) = Of(hangar.held, l) + Of(mem[C], l)
    <2>1. CASE l = "certified" BY <2>1, <1>5 DEF Of
    <2>2. CASE l # "certified"
        <3>1. l \in Things BY <2>2 DEF Lines, Things, BountyKinds
        <3> QED BY <3>1, <2>2, <1>5 DEF Of
    <2> QED BY <2>1, <2>2
<1>8. \A f \in Shared : mem'[f] \in Contents(f) BY <1>0, <1>3, <1>5 DEF Contents
<1> QED BY <1>3, <1>4, <1>5, <1>6, <1>7, <1>8

(* Something put in a home, or taken out of it. *)
LEMMA HomeMoves ==
    ASSUME Shapes, PutIn \/ TakeOut
    PROVE  /\ \A f \in Shared : mem'[f] \in Contents(f)
           /\ DOMAIN mem' = Shared /\ mem'[C] = mem[C] /\ mem'[M] = mem[M] /\ IsHangar(hangar')
           /\ hangar'.sheet = hangar.sheet /\ hangar'.held = hangar.held
           /\ hangar'.stores + mem'[H] = hangar.stores + mem[H]
           /\ TakeOut => hangar'.stores >= hangar.stores
<1> USE DEF C, M, H
<1>0. /\ mem[C] \in [Things -> Nat] /\ mem[M] \in 0..Rifles /\ mem[H] \in Nat
      /\ hangar.sheet \in [Lines -> 0..MaxLines] /\ hangar.held \in [Things -> Nat]
      /\ hangar.stores \in Nat /\ DOMAIN hangar = {"sheet", "held", "stores"}
      /\ DOMAIN mem = {C, M, H} /\ Shared = {C, M, H}
    BY MemIs
<1>1. PICK i \in {1, -1} : /\ mem' = [mem EXCEPT !.homes = mem[H] + i]
                           /\ hangar' = [hangar EXCEPT !.stores = hangar.stores - i]
                           /\ mem[H] + i \in Nat /\ hangar.stores - i \in Nat
                           /\ TakeOut => i = -1
    <2>1. CASE PutIn /\ ~TakeOut
        <3>1. /\ mem' = [mem EXCEPT !.homes = mem[H] + 1]
              /\ hangar' = [hangar EXCEPT !.stores = hangar.stores - 1]
              /\ mem[H] + 1 \in Nat /\ hangar.stores - 1 \in Nat
            BY <2>1, <1>0 DEF PutIn
        <3> QED BY <2>1, <3>1
    <2>2. CASE TakeOut
        <3>1. /\ mem' = [mem EXCEPT !.homes = mem[H] - 1]
              /\ hangar' = [hangar EXCEPT !.stores = hangar.stores + 1] /\ mem[H] > 0
            BY <2>2 DEF TakeOut
        <3>2. mem[H] - 1 = mem[H] + (-1) /\ hangar.stores + 1 = hangar.stores - (-1)
            BY <1>0
        <3>3. mem[H] + (-1) \in Nat /\ hangar.stores - (-1) \in Nat BY <3>1, <1>0
        <3> QED BY <3>1, <3>2, <3>3
    <2> QED BY <2>1, <2>2
<1>3. /\ mem'[C] = mem[C] /\ mem'[M] = mem[M] /\ mem'[H] = mem[H] + i /\ DOMAIN mem' = Shared
    BY <1>0, <1>1
<1>4. /\ hangar'.stores = hangar.stores - i /\ hangar'.sheet = hangar.sheet
      /\ hangar'.held = hangar.held /\ DOMAIN hangar' = {"sheet", "held", "stores"}
    BY <1>0, <1>1
<1>6. IsHangar(hangar')
    <2>1. hangar' = [sheet |-> hangar'.sheet, held |-> hangar'.held, stores |-> hangar'.stores]
        BY <1>1, <1>0, <1>4 DEF Shapes, IsHangar
    <2> QED BY <2>1, <1>0, <1>1, <1>4 DEF IsHangar, Shapes
<1>7. /\ hangar'.stores + mem'[H] = hangar.stores + mem[H]
      /\ TakeOut => hangar'.stores >= hangar.stores
    BY <1>0, <1>1, <1>3, <1>4
<1>8. \A f \in Shared : mem'[f] \in Contents(f) BY <1>0, <1>1, <1>3 DEF Contents
<1> QED BY <1>3, <1>4, <1>6, <1>7, <1>8

-----------------------------------------------------------------------------
(* The invariant, part by part. *)

LEMMA DeskStarts == DeskInit => DeskInv
<1> SUFFICES ASSUME DeskInit PROVE DeskInv OBVIOUS
<1> USE DeskAssumption DEF C, M, H, R
<1>1. /\ mem[C] = [t \in Things |-> 0] /\ mem[M] = Rifles /\ mem[H] = 0 /\ DOMAIN mem = Shared
      /\ hangar = [sheet |-> [l \in Lines |-> 0], held |-> [t \in Things |-> 0], stores |-> Belongings]
      /\ \A f \in Shared : file[f] = mem[f]
      /\ file[R] = hangar /\ DOMAIN file = Shared \cup {R}
      /\ writing = {} /\ session = "away" /\ todo = <<>> /\ early = FALSE /\ crashes = 0
      /\ mishaps = {}
    BY DEF DeskInit, Shared
<1>2. /\ hangar.sheet = [l \in Lines |-> 0] /\ hangar.held = [t \in Things |-> 0]
      /\ hangar.stores = Belongings
    BY <1>1
<1>3. \A f \in Shared : Copies(f) = {mem[f]} BY <1>1 DEF Copies
<1>4. IsHangar(hangar) BY <1>1, <1>2 DEF IsHangar, Lines
<1>5. \A f \in Shared : mem[f] \in Contents(f) BY <1>1 DEF Contents, Shared
<1>6. Shapes
    <2>1. \A f \in Shared : Copies(f) \subseteq Contents(f) BY <1>3, <1>5
    <2>2. IsHangar(file[R]) BY <1>1, <1>4, Zenon
    <2>3. /\ DOMAIN mem = Shared /\ DOMAIN file = Shared \cup {R} /\ writing = {}
          /\ early = FALSE /\ crashes = 0 /\ mishaps = {}
        BY <1>1, Zenon
    <2>4. crashes \in 0..MaxCrashes BY <2>3
    <2>5. /\ early \in BOOLEAN /\ mishaps \subseteq {"unheard", "abrupt", "raced"}
          /\ \A w \in writing : w.file \in Shared /\ w.by \in {"session", "other"}
        BY <2>3
    <2> QED BY <1>4, <1>5, <2>1, <2>2, <2>3, <2>4, <2>5, Zenon DEF Shapes
<1>7. Waiting(todo) = {} BY <1>1, Queues
<1>8. \A l \in Lines : Of(mem[C], l) = 0 /\ Of(hangar.held, l) = 0 /\ hangar.sheet[l] = 0
    BY <1>1, <1>2 DEF Of, Lines, Things, BountyKinds
<1>9. QueueInv /\ WritesInv BY <1>1 DEF QueueInv, WritesInv
<1>10. RecordInv BY <1>1, <1>8 DEF RecordInv
<1>11. Paid(mem[C], hangar) BY <1>8 DEF Paid
<1>12. PaidInv BY <1>1, <1>3, <1>11 DEF PaidInv, Shared, Before
<1>13. HomeInv BY <1>1, <1>2, <1>3 DEF HomeInv, Shared, Before
<1>14. SettledInv BY <1>3 DEF SettledInv
<1>15. mem[M] + mem[C]["rifle"] + hangar.held["rifle"] = Rifles BY <1>1, <1>2 DEF Things
<1>16. HandedOnceIfTold BY <1>1, <1>2, <1>8, <1>15 DEF HandedOnceIfTold
<1> QED BY <1>6, <1>9, <1>10, <1>12, <1>13, <1>14, <1>16 DEF DeskInv

(* The shapes of what a step leaves alone. *)
LEMMA ShapesKept ==
    ASSUME Shapes, UNCHANGED writing, UNCHANGED file, UNCHANGED crashes, early' \in BOOLEAN,
           mishaps' \subseteq mishaps \cup {"unheard"},
           DOMAIN mem' = Shared, \A f \in Shared : mem'[f] \in Contents(f), IsHangar(hangar')
    PROVE  Shapes'
<1>1. \A f \in Shared : Copies(f)' = Copies(f) BY CopySame
<1> QED BY <1>1 DEF Shapes, IsHangar

LEMMA ShapesStep ==
    ASSUME DeskInv, [DeskNext]_deskVars
    PROVE  Shapes'
<1>1. Shapes /\ WritesInv BY DEF DeskInv
<1>2. /\ DOMAIN mem = Shared /\ \A f \in Shared : mem[f] \in Contents(f)
      /\ IsHangar(hangar) /\ IsHangar(file[R]) /\ early \in BOOLEAN
    BY <1>1 DEF Shapes
<1>3. CASE UNCHANGED deskVars BY <1>1, <1>2, <1>3, ShapesKept DEF deskVars
<1>4. CASE SaveRecord
    <2>1. /\ file'[R] = hangar /\ DOMAIN file' = Shared \cup {R}
          /\ \A g \in Shared : file'[g] = file[g] /\ Copies(g)' = Copies(g)
        BY <1>1, <1>4, RecordSaved
    <2>2. /\ UNCHANGED <<mem, hangar, writing, crashes, mishaps>> /\ early' = FALSE
        BY <1>4 DEF SaveRecord
    <2>3. IsHangar(hangar') /\ IsHangar(file'[R]) BY <1>2, <2>1, <2>2
    <2>4. \A f \in Shared : mem'[f] \in Contents(f) /\ Copies(f)' \subseteq Contents(f)
        BY <1>1, <2>1, <2>2 DEF Shapes
    <2> QED BY <1>1, <2>1, <2>2, <2>3, <2>4 DEF Shapes
<1>5. ASSUME NEW f \in Shared, NEW who \in {"session", "other"}, Begin(f, who),
             UNCHANGED <<file, mem, hangar, crashes, mishaps>>, early' \in BOOLEAN
      PROVE  Shapes'
    <2>1. \A g \in Shared : Copies(g)' \subseteq Contents(g)
        <3> SUFFICES ASSUME NEW g \in Shared PROVE Copies(g)' \subseteq Contents(g) OBVIOUS
        <3>1. Copies(g)' \subseteq Copies(g) \cup (IF g = f THEN {mem[f]} ELSE {})
            BY <1>1, <1>5, CopyBegins
        <3>2. Copies(g) \subseteq Contents(g) BY <1>1 DEF Shapes
        <3> QED BY <3>1, <3>2, <1>2
    <2>2. \A w \in writing' : w.file \in Shared /\ w.by \in {"session", "other"}
        BY <1>1, <1>5 DEF Begin, Shapes
    <2> QED BY <1>1, <1>5, <2>1, <2>2 DEF Shapes, IsHangar
<1>6. CASE \E f \in Shared : SessionWrites(f) \/ OtherWrites(f)
    <2>1. PICK f \in Shared : SessionWrites(f) \/ OtherWrites(f) BY <1>6
    <2>2. CASE SessionWrites(f) BY <2>2, <1>2, <1>5 DEF SessionWrites
    <2>3. CASE OtherWrites(f)
        <3>1. early' \in BOOLEAN BY <2>3, <1>2 DEF OtherWrites
        <3> QED BY <3>1, <2>3, <1>5 DEF OtherWrites
    <2> QED BY <2>1, <2>2, <2>3
<1>7. ASSUME NEW w \in writing, Written(w) PROVE Shapes'
    <2>1. \A g \in Shared : Copies(g)' \subseteq Copies(g) BY <1>1, <1>7, CopyWritten
    <2>2. file'[R] = file[R] /\ DOMAIN file' = Shared \cup {R}
        BY <1>1, <1>7, CopyWritten DEF Shared, C
    <2>3. \A v \in writing' : v.file \in Shared /\ v.by \in {"session", "other"}
        BY <1>1, <1>7 DEF Written, Shapes
    <2> QED BY <1>1, <1>7, <2>1, <2>2, <2>3 DEF Written, Shapes, IsHangar
<1>8. CASE Enter BY <1>1, <1>2, <1>8, ShapesKept DEF Enter, R
<1>9. CASE Told \/ Unheard \/ Gone BY <1>1, <1>2, <1>9, ShapesKept DEF Told, Unheard, Gone
<1>10. ASSUME Credited, UNCHANGED <<file, writing, early, crashes, mishaps>> PROVE Shapes'
    BY <1>1, <1>2, <1>10, ShapesKept DEF Credited
<1>11. CASE Certify BY <1>1, <1>10, <1>11, CertifyCredits DEF Certify
<1>12. CASE \E b \in BountyKinds : Bounty(b) BY <1>1, <1>10, <1>12, PaysCredits DEF Bounty
<1>13. CASE Leave
    <2>1. CASE Pays("ace")
        <3>1. "ace" \in BountyKinds BY DEF BountyKinds
        <3> QED BY <3>1, <2>1, <1>1, <1>10, <1>13, PaysCredits DEF Leave
    <2>2. CASE UNCHANGED <<mem, hangar>> BY <2>2, <1>1, <1>2, <1>13, ShapesKept DEF Leave
    <2> QED BY <2>1, <2>2, <1>13 DEF Leave
<1>14. CASE HandOver
    <2>1. /\ \A f \in Shared : mem'[f] \in Contents(f)
          /\ DOMAIN mem' = Shared /\ IsHangar(hangar')
        BY <1>1, <1>14, HandOverMoves
    <2> QED BY <2>1, <1>1, <1>2, <1>14, ShapesKept DEF HandOver
<1>15. CASE PutIn \/ TakeOut
    <2>1. /\ \A f \in Shared : mem'[f] \in Contents(f)
          /\ DOMAIN mem' = Shared /\ IsHangar(hangar')
        BY <1>1, <1>15, HomeMoves
    <2> QED BY <2>1, <1>1, <1>2, <1>15, ShapesKept DEF PutIn, TakeOut
<1>16. CASE Crash
    <2>1. /\ DOMAIN mem' = Shared /\ \A g \in Shared : mem'[g] = file[g] /\ Copies(g)' = {file[g]}
          /\ hangar' = file[R] /\ file' = file
        BY <1>1, <1>16, Stopped
    <2>2. \A g \in Shared : file[g] \in Contents(g) BY <1>1, CopyHas DEF Shapes
    <2>3. crashes' \in 0..MaxCrashes BY <1>1, <1>16, DeskAssumption DEF Crash, Shapes
    <2>4. /\ mishaps' \subseteq {"unheard", "abrupt", "raced"} /\ writing' = {} /\ early' = FALSE
        BY <1>1, <1>16 DEF Crash, Shapes
    <2>5. IsHangar(hangar') /\ IsHangar(file'[R]) BY <1>2, <2>1
    <2>6. \A f \in Shared : mem'[f] \in Contents(f) /\ Copies(f)' \subseteq Contents(f)
        BY <2>1, <2>2
    <2>7. DOMAIN file' = Shared \cup {R} BY <1>1, <2>1 DEF Shapes
    <2> QED BY <2>1, <2>3, <2>4, <2>5, <2>6, <2>7 DEF Shapes
<1> QED BY <1>3, <1>4, <1>6, <1>7, <1>8, <1>9, <1>11, <1>12, <1>13, <1>14, <1>15, <1>16 DEF DeskNext

LEMMA WritesStep ==
    ASSUME DeskInv, [DeskNext]_deskVars
    PROVE  WritesInv'
<1>1. Shapes /\ QueueInv /\ WritesInv BY DEF DeskInv
<1>2. CASE UNCHANGED deskVars BY <1>1, <1>2 DEF deskVars, WritesInv
<1>3. CASE SaveRecord
    <2>1. \A w \in writing : w.by # "session"
        BY <1>1, <1>3 DEF SaveRecord, Saving, WritesInv, Shapes, Shared
    <2> QED BY <1>1, <1>3, <2>1 DEF SaveRecord, WritesInv
<1>4. CASE \E f \in Shared : SessionWrites(f) \/ OtherWrites(f)
    <2>1. PICK f \in Shared : SessionWrites(f) \/ OtherWrites(f) BY <1>4
    <2>2. PICK who \in {"session", "other"} :
              /\ Begin(f, who) /\ UNCHANGED <<mem, session, todo>>
              /\ who = "session" => Saving(f)
        BY <2>1 DEF SessionWrites, OtherWrites
    <2> DEFINE new == [file |-> f, by |-> who, what |-> mem[f]]
    <2>3. /\ \A w \in writing : w.file # f
          /\ writing' = writing \cup {new}
        BY <2>2 DEF Begin, Free
    <2>4. new.file = f /\ new.by = who /\ new.what = mem[f] OBVIOUS
    <2> HIDE DEF new
    <2>5. \A v, w \in writing' : v.file = w.file => v = w BY <1>1, <2>3, <2>4 DEF WritesInv
    <2>6. ASSUME NEW w \in writing', w.by = "session"
          PROVE  session # "telling" /\ todo # <<>> /\ Head(todo) = w.file /\ w.what = mem[w.file]
        <3>1. CASE w \in writing BY <3>1, <1>1, <2>6 DEF WritesInv
        <3>2. CASE w = new BY <3>2, <2>2, <2>4, <2>6 DEF Saving
        <3> QED BY <3>1, <3>2, <2>3
    <2> QED BY <2>2, <2>5, <2>6 DEF WritesInv
<1>5. ASSUME NEW w \in writing, Written(w) PROVE WritesInv'
    <2>1. writing' = writing \ {w} /\ UNCHANGED <<mem, session>>
          /\ todo' = IF w.by = "session" THEN Tail(todo) ELSE todo BY <1>5 DEF Written
    <2>2. w.by = "session" => \A v \in writing' : v.by # "session"
        BY <1>1, <2>1 DEF WritesInv
    <2> QED BY <1>1, <2>1, <2>2 DEF WritesInv
<1>6. ASSUME todo = <<>> \/ session = "telling", UNCHANGED writing PROVE WritesInv'
    BY <1>1, <1>6 DEF WritesInv
<1>7. CASE Enter
    <2>1. todo = <<>> BY <1>1, <1>7 DEF Enter, QueueInv
    <2> QED BY <2>1, <1>6, <1>7 DEF Enter
<1>8. CASE Certify \/ HandOver \/ PutIn \/ TakeOut \/ Leave \/ Gone \/ \E b \in BountyKinds : Bounty(b)
    BY <1>6, <1>8 DEF Certify, HandOver, PutIn, TakeOut, Leave, Gone, Bounty, Idle
<1>9. CASE Told \/ Unheard BY <1>6, <1>9 DEF Told, Unheard
<1>10. CASE Crash BY <1>10 DEF Crash, WritesInv
<1> QED BY <1>2, <1>3, <1>4, <1>5, <1>7, <1>8, <1>9, <1>10 DEF DeskNext

(* With no record to keep, none is to come before it. *)
LEMMA RecordStep ==
    ASSUME DeskInv, [DeskNext]_deskVars
    PROVE  RecordInv'
<1>1. Shapes /\ QueueInv /\ WritesInv /\ RecordInv BY DEF DeskInv
<1>2. CASE UNCHANGED deskVars BY <1>1, <1>2 DEF deskVars, RecordInv
<1>3. ASSUME NEW x, IsHangar(x) PROVE \A l \in Lines : x.sheet[l] <= x.sheet[l]
    BY <1>3, DeskAssumption DEF IsHangar
<1>4. IsHangar(hangar) /\ IsHangar(file[R]) BY <1>1 DEF Shapes
<1>5. CASE SaveRecord
    <2>1. file'[R] = hangar /\ hangar' = hangar /\ early' = FALSE
        BY <1>1, <1>5, RecordSaved DEF SaveRecord
    <2> QED BY <2>1, <1>3, <1>4 DEF RecordInv
<1>6. CASE \E f \in Shared : SessionWrites(f)
    BY <1>1, <1>6 DEF SessionWrites, RecordInv
<1>7. ASSUME NEW f \in Shared, OtherWrites(f) PROVE RecordInv'
    <2>1. /\ UNCHANGED <<mem, hangar, file, todo>>
          /\ early' = (early \/ (f = "charter" /\ hangar.held # file.record.held)
                             \/ (f = "homes" /\ hangar.stores > file.record.stores))
        BY <1>7 DEF OtherWrites
    <2>2. hangar = file[R] => ~(hangar.stores > file.record.stores) /\ hangar.held = file.record.held
        BY <1>4 DEF IsHangar, R
    <2> QED BY <1>1, <2>1, <2>2 DEF RecordInv
<1>8. ASSUME NEW w \in writing, Written(w) PROVE RecordInv'
    <2>1. file'[R] = file[R] BY <1>1, <1>8, CopyWritten DEF Shared
    <2>2. /\ UNCHANGED <<hangar, early>>
          /\ todo' = IF w.by = "session" THEN Tail(todo) ELSE todo
        BY <1>8 DEF Written
    <2>3. R \notin Waiting(todo') => R \notin Waiting(todo)
        <3>1. CASE w.by # "session" BY <3>1, <2>2
        <3>2. CASE w.by = "session"
            <4>1. todo # <<>> /\ Head(todo) = w.file /\ w.file # R
                BY <3>2, <1>1 DEF WritesInv, Shapes, Shared, R
            <4> QED BY <1>1, <4>1, <3>2, <2>2, Saves
        <3> QED BY <3>1, <3>2
    <2> QED BY <1>1, <2>1, <2>2, <2>3 DEF RecordInv
<1>9. CASE Enter \/ Crash
    <2>1. hangar' = file[R] /\ file' = file BY <1>9 DEF Enter, Crash, R
    <2>2. ~early'
        <3>1. CASE Crash BY <3>1 DEF Crash
        <3>2. CASE Enter
            <4>1. todo = <<>> BY <1>1, <3>2 DEF Enter, QueueInv
            <4> QED BY <4>1, <1>1, <3>2, Saves DEF Enter, RecordInv
        <3> QED BY <1>9, <3>1, <3>2
    <2> QED BY <2>1, <2>2, <1>3, <1>4 DEF RecordInv
<1>10. ASSUME R \in Waiting(todo'), UNCHANGED file, \A l \in Lines : hangar.sheet[l] <= hangar'.sheet[l],
              IsHangar(hangar')
       PROVE  RecordInv'
    <2>1. /\ \A l \in Lines : file[R].sheet[l] <= hangar.sheet[l]
          /\ \A l \in Lines : /\ file[R].sheet[l] \in Int /\ hangar.sheet[l] \in Int
                              /\ hangar'.sheet[l] \in Int
        BY <1>1, <1>4, <1>10, DeskAssumption DEF RecordInv, IsHangar
    <2>2. \A l \in Lines : file[R].sheet[l] <= hangar'.sheet[l] BY <1>10, <2>1
    <2> QED BY <1>10, <2>2 DEF RecordInv
<1>11. /\ R \in Waiting(<<C, M, R>>) /\ R \in Waiting(<<C, R>>) /\ R \in Waiting(<<R, C>>)
       /\ R \in Waiting(<<H, R>>) /\ R \in Waiting(<<R, H>>) /\ R \in Waiting(<<R>>)
    BY DEF Waiting
<1>12. ASSUME Credited, todo' \in {<<C, M, R>>, <<C, R>>}, UNCHANGED file PROVE RecordInv'
    <2>1. \A l \in Lines : hangar.sheet[l] \in Int BY <1>4, DeskAssumption DEF IsHangar
    <2>2. \A l \in Lines : hangar.sheet[l] <= hangar'.sheet[l]
        BY <1>12, <2>1 DEF Credited
    <2> QED BY <2>2, <1>10, <1>11, <1>12 DEF Credited
<1>13. CASE Certify BY <1>1, <1>12, <1>13, CertifyCredits, Keeps DEF Certify
<1>14. CASE \E b \in BountyKinds : Bounty(b) BY <1>1, <1>12, <1>14, PaysCredits, Keeps DEF Bounty
<1>15. ASSUME IsHangar(hangar'), hangar'.sheet = hangar.sheet, UNCHANGED file,
              todo' \in {<<R, C>>, <<H, R>>, <<R, H>>, <<R>>}
       PROVE  RecordInv'
    BY <1>3, <1>10, <1>11, <1>15
<1>16. CASE HandOver
    <2>1. IsHangar(hangar') /\ hangar'.sheet = hangar.sheet BY <1>1, <1>16, HandOverMoves
    <2> QED BY <2>1, <1>15, <1>16, Keeps DEF HandOver
<1>17. CASE PutIn \/ TakeOut
    <2>1. IsHangar(hangar') /\ hangar'.sheet = hangar.sheet BY <1>1, <1>17, HomeMoves
    <2> QED BY <2>1, <1>15, <1>17, Keeps DEF PutIn, TakeOut, R, H
<1>18. CASE Leave
    <2>1. CASE Pays("ace") /\ todo' = BountyKeeps
        BY <1>1, <2>1, <1>12, <1>18, PaysCredits, Keeps DEF Leave, BountyKinds
    <2>2. CASE todo' \in LeaveKeeps(TRUE) /\ UNCHANGED <<mem, hangar>>
        <3>1. todo' \in {<<R>>, <<H, R>>} BY <2>2, Keeps
        <3> QED BY <3>1, <2>2, <1>4, <1>15, <1>18 DEF Leave
    <2> QED BY <2>1, <2>2, <1>18 DEF Leave
<1>19. CASE Unheard
    <2>1. todo' \in {<<R>>, <<H, R>>} BY <1>19, Keeps DEF Unheard
    <2> QED BY <2>1, <1>4, <1>15, <1>19 DEF Unheard
<1>20. CASE Told \/ Gone BY <1>1, <1>20 DEF Told, Gone, RecordInv
<1> QED BY <1>2, <1>5, <1>6, <1>7, <1>8, <1>9, <1>13, <1>14, <1>16, <1>17, <1>18, <1>19, <1>20 DEF DeskNext

LEMMA OfNat ==
    ASSUME NEW f \in [Things -> Nat], NEW l \in Lines
    PROVE  Of(f, l) \in Nat
<1>1. CASE l = "certified" BY <1>1 DEF Of, Things
<1>2. CASE l # "certified"
    <2>1. l \in Things BY <1>2 DEF Lines, Things, BountyKinds
    <2> QED BY <1>2, <2>1 DEF Of
<1> QED BY <1>1, <1>2

(* The hangar's amounts. *)
LEMMA HangarIs ==
    ASSUME NEW h, IsHangar(h), NEW l \in Lines
    PROVE  h.sheet[l] \in Nat /\ Of(h.held, l) \in Nat
<1>1. h.held \in [Things -> Nat] /\ h.sheet \in [Lines -> 0..MaxLines] BY DEF IsHangar
<1> QED BY <1>1, OfNat, DeskAssumption

(* A queue begun or shortened. *)
LEMMA Begun ==
    ASSUME NEW f \in {C, H}
    PROVE  /\ (todo' \in {<<>>, <<R>>, <<R, C>>, <<R, H>>} => ~Before(f)')
           /\ (todo' \in {<<C, M, R>>, <<C, R>>} => (Before(f)' <=> f = C))
           /\ (todo' = <<H, R>> => (Before(f)' <=> f = H))
           /\ (QueueInv /\ todo # <<>> /\ todo' = Tail(todo) => ~Before(f)')
           /\ (todo' = todo => Before(f)' = Before(f))
<1>1. /\ Waiting(<<C, M, R>>) = {C, M, R} /\ Waiting(<<C, R>>) = {C, R}
      /\ Waiting(<<H, R>>) = {H, R}
    BY DEF Waiting
<1>2. todo' \in {<<>>, <<R>>, <<R, C>>, <<R, H>>} => ~Before(f)' BY DEF Before, C, R, H
<1>3. todo' \in {<<C, M, R>>, <<C, R>>} => (Before(f)' <=> f = C)
    BY <1>1 DEF Before, C, R, H
<1>4. todo' = <<H, R>> => (Before(f)' <=> f = H) BY <1>1 DEF Before, C, R, H
<1>5. QueueInv /\ todo # <<>> /\ todo' = Tail(todo) => ~Before(f)' BY Saves DEF Before
<1>6. todo' = todo => Before(f)' = Before(f) BY DEF Before
<1> QED BY <1>2, <1>3, <1>4, <1>5, <1>6

LEMMA Mishaps ==
    ASSUME [DeskNext]_deskVars
    PROVE  mishaps \subseteq mishaps'
<1>1. CASE UNCHANGED deskVars BY <1>1 DEF deskVars
<1>2. CASE SaveRecord \/ Enter \/ Certify \/ HandOver \/ PutIn \/ TakeOut \/ Told \/ Leave \/ Gone
    BY <1>2 DEF SaveRecord, Enter, Certify, HandOver, PutIn, TakeOut, Told, Leave, Gone
<1>3. CASE \/ \E f \in Shared : SessionWrites(f) \/ OtherWrites(f)
           \/ \E w \in writing : Written(w)
           \/ \E b \in BountyKinds : Bounty(b)
    BY <1>3 DEF SessionWrites, OtherWrites, Written, Bounty
<1>4. CASE Unheard \/ Crash BY <1>4 DEF Unheard, Crash
<1> QED BY <1>1, <1>2, <1>3, <1>4 DEF DeskNext

LEMMA PaidStep ==
    ASSUME DeskInv, [DeskNext]_deskVars
    PROVE  PaidInv'
<1>1. Shapes /\ QueueInv /\ WritesInv /\ RecordInv BY DEF DeskInv
<1> SUFFICES ASSUME "raced" \notin mishaps'
             PROVE  /\ Paid(mem'[C], hangar')
                    /\ ~early' => \A c \in Copies(C)' : Paid(c, file'[R])
                    /\ ~Before(C)' => \A c \in Copies(C)' : Paid(c, hangar')
                    /\ Before(C)' => hangar'.held = file'[R].held
    BY DEF PaidInv, Paid
<1> DEFINE Goal == /\ Paid(mem'[C], hangar')
                   /\ ~early' => \A c \in Copies(C)' : Paid(c, file'[R])
                   /\ ~Before(C)' => \A c \in Copies(C)' : Paid(c, hangar')
                   /\ Before(C)' => hangar'.held = file'[R].held
<1> SUFFICES Goal OBVIOUS
<1>2. /\ Paid(mem[C], hangar)
      /\ ~early => \A c \in Copies(C) : Paid(c, file[R])
      /\ ~Before(C) => \A c \in Copies(C) : Paid(c, hangar)
      /\ Before(C) => hangar.held = file[R].held
    BY Mishaps DEF DeskInv, PaidInv
<1>3. IsHangar(hangar) /\ IsHangar(file[R]) /\ C \in Shared /\ C # R
    BY <1>1 DEF Shapes, Shared, C, R
<1>4. /\ mem[C] \in [Things -> Nat]
      /\ \A c \in Copies(C) : c \in [Things -> Nat]
    BY <1>1, <1>3, MemIs DEF Shapes, Contents
<1>5. CASE UNCHANGED deskVars
    <2>1. Copies(C)' = Copies(C) /\ Before(C)' = Before(C) BY <1>5 DEF deskVars, Copies, Before
    <2> QED BY <1>2, <1>5, <2>1 DEF deskVars
<1>6. CASE SaveRecord
    <2>1. file'[R] = hangar /\ Copies(C)' = Copies(C) BY <1>1, <1>3, <1>6, RecordSaved
    <2>2. UNCHANGED <<mem, hangar>> BY <1>6 DEF SaveRecord
    <2>3. ~Before(C) /\ ~Before(C)'
        BY <1>1, <1>3, <1>6, Begun DEF SaveRecord, Saving, Before, R
    <2> QED BY <1>2, <2>1, <2>2, <2>3
<1>7. hangar.held = file[R].held => Paid(mem[C], file[R])
    <2>1. \A l \in Lines : /\ hangar.sheet[l] \in Nat /\ file[R].sheet[l] \in Nat
                           /\ Of(hangar.held, l) \in Nat /\ Of(mem[C], l) \in Nat
        BY <1>3, <1>4, HangarIs, OfNat
    <2>2. \A l \in Lines : file[R].sheet[l] <= hangar.sheet[l] BY <1>1 DEF RecordInv
    <2> QED BY <1>2, <2>1, <2>2 DEF Paid
<1>8. ASSUME NEW f \in Shared, NEW who, Begin(f, who), UNCHANGED <<mem, hangar, file, todo>>,
             f = C /\ ~early' => hangar.held = file[R].held, ~early' => ~early
      PROVE  Goal
    <2>1. Copies(C)' \subseteq Copies(C) \cup (IF C = f THEN {mem[f]} ELSE {})
        BY <1>1, <1>3, <1>8, CopyBegins
    <2>2. Before(C)' = Before(C) BY <1>8, Begun
    <2> QED BY <1>2, <1>7, <1>8, <2>1, <2>2
<1>9. ASSUME NEW f \in Shared, SessionWrites(f) PROVE Goal
    <2>1. /\ Begin(f, "session") /\ UNCHANGED <<mem, hangar, file, todo, early>> /\ Saving(f)
        BY <1>9 DEF SessionWrites
    <2>2. f = C => hangar.held = file[R].held
        <3>1. CASE R \in Waiting(todo) BY <3>1, <2>1, <1>2 DEF Saving, Before
        <3>2. CASE R \notin Waiting(todo) BY <3>2, <1>1 DEF RecordInv
        <3> QED BY <3>1, <3>2
    <2> QED BY <2>1, <2>2, <1>8
<1>10. ASSUME NEW f \in Shared, OtherWrites(f) PROVE Goal
    <2>1. /\ Begin(f, "other") /\ UNCHANGED <<mem, hangar, file, todo>>
          /\ ~early' => ~early
          /\ f = C /\ ~early' => hangar.held = file[R].held
        BY <1>10 DEF OtherWrites, C, R
    <2> QED BY <2>1, <1>8
<1>11. ASSUME NEW w \in writing, Written(w) PROVE Goal
    <2>1. /\ Copies(C)' \subseteq Copies(C) /\ file'[R] = file[R]
          /\ C = w.file => Copies(C)' = {w.what}
        BY <1>1, <1>3, <1>11, CopyWritten
    <2>2. /\ UNCHANGED <<mem, hangar, early>>
          /\ todo' = IF w.by = "session" THEN Tail(todo) ELSE todo
        BY <1>11 DEF Written
    <2>3. CASE w.by # "session"
        <3>1. Before(C)' = Before(C) BY <2>2, <2>3, Begun
        <3> QED BY <1>2, <2>1, <2>2, <3>1
    <2>4. CASE w.by = "session"
        <3>1. todo # <<>> /\ Head(todo) = w.file /\ w.what = mem[w.file]
            BY <1>1, <2>4 DEF WritesInv
        <3>2. ~Before(C)' BY <1>1, <2>2, <2>4, <3>1, Begun
        <3>3. CASE Before(C)
            <4>1. w.file = C BY <3>1, <3>3 DEF Before
            <4> QED BY <1>2, <2>1, <2>2, <3>1, <3>2, <4>1
        <3>4. CASE ~Before(C) BY <1>2, <2>1, <2>2, <3>2, <3>4
        <3> QED BY <3>3, <3>4
    <2> QED BY <2>3, <2>4
<1>12. todo = <<>> => hangar = file[R] /\ ~early /\ ~Before(C)
    BY <1>1, Saves DEF RecordInv, Before
<1>13. ASSUME UNCHANGED <<mem, hangar, file, writing, early>>, ~Before(C), ~Before(C)' PROVE Goal
    BY <1>2, <1>3, <1>13, CopySame
<1>14. CASE Enter
    <2>1. todo = <<>> BY <1>1, <1>14 DEF Enter, QueueInv
    <2>2. hangar' = hangar BY <2>1, <1>12, <1>14 DEF Enter, R
    <2>3. ~Before(C)' BY <2>1, <1>14, Begun DEF Enter
    <2> QED BY <2>1, <2>2, <2>3, <1>12, <1>13, <1>14 DEF Enter
<1>15. CASE Told
    <2>1. ~Before(C) /\ todo' = todo BY <1>1, <1>15, <1>3 DEF Told, QueueInv, Before, C, R, H
    <2>2. ~Before(C)' BY <2>1, Begun
    <2> QED BY <2>1, <2>2, <1>13, <1>15 DEF Told
<1>16. CASE Unheard
    <2>1. ~Before(C) BY <1>1, <1>16, <1>3 DEF Unheard, QueueInv, Before, C, R, H
    <2>2. todo' \in {<<R>>, <<H, R>>} BY <1>16, Keeps DEF Unheard
    <2>3. ~Before(C)' BY <2>2, Begun DEF C, H
    <2> QED BY <2>1, <2>3, <1>13, <1>16 DEF Unheard
<1>17. CASE Gone
    <2>1. ~Before(C) /\ ~Before(C)' BY <1>12, <1>17, Begun DEF Gone
    <2> QED BY <2>1, <1>13, <1>17 DEF Gone
<1>18. ASSUME todo = <<>>, Credited, todo' \in {<<C, M, R>>, <<C, R>>},
              UNCHANGED <<file, writing, early>>
       PROVE  Goal
    <2>1. Before(C)' /\ Copies(C)' = Copies(C) BY <1>3, <1>18, Begun, CopySame
    <2>2. hangar'.held = file'[R].held BY <1>12, <1>18 DEF Credited
    <2>3. Paid(mem'[C], hangar')
        <3> SUFFICES ASSUME NEW l \in Lines
                     PROVE  hangar'.sheet[l] <= Of(mem'[C], l) + Of(hangar'.held, l)
            BY DEF Paid
        <3>1. /\ hangar.sheet[l] \in Nat /\ Of(hangar.held, l) \in Nat /\ Of(mem[C], l) \in Nat
            BY <1>3, <1>4, HangarIs, OfNat
        <3>2. hangar.sheet[l] <= Of(mem[C], l) + Of(hangar.held, l) BY <1>2 DEF Paid
        <3>3. PICK n \in {0, 1} : /\ Of(mem'[C], l) = Of(mem[C], l) + n
                                  /\ hangar'.sheet[l] = hangar.sheet[l] + n
            BY <1>18 DEF Credited
        <3>4. hangar'.held = hangar.held BY <1>18 DEF Credited
        <3> QED BY <3>1, <3>2, <3>3, <3>4
    <2>4. ~early' => \A c \in Copies(C)' : Paid(c, file'[R]) BY <1>2, <1>18, <2>1
    <2> QED BY <2>1, <2>2, <2>3, <2>4
<1>19. CASE Certify BY <1>1, <1>18, <1>19, CertifyCredits, Keeps DEF Certify, Idle
<1>20. CASE \E b \in BountyKinds : Bounty(b) BY <1>1, <1>18, <1>20, PaysCredits, Keeps DEF Bounty, Idle
<1>21. CASE Leave
    <2>1. todo = <<>> /\ UNCHANGED <<file, writing, early>> BY <1>21 DEF Leave, Idle
    <2>2. CASE Pays("ace") /\ todo' = BountyKeeps
        BY <1>1, <2>1, <2>2, <1>18, PaysCredits, Keeps DEF BountyKinds
    <2>3. CASE todo' \in LeaveKeeps(TRUE) /\ UNCHANGED <<mem, hangar>>
        <3>1. todo' \in {<<R>>, <<H, R>>} BY <2>3, Keeps
        <3>2. ~Before(C)' BY <3>1, Begun DEF C, H
        <3> QED BY <3>2, <2>1, <2>3, <1>12, <1>13
    <2> QED BY <2>2, <2>3, <1>21 DEF Leave
<1>22. CASE HandOver
    <2>1. todo = <<>> /\ UNCHANGED <<file, writing, early>> /\ todo' = <<R, C>>
        BY <1>22, Keeps DEF HandOver, Idle
    <2>2. ~Before(C) /\ ~Before(C)' /\ Copies(C)' = Copies(C) BY <2>1, <1>3, <1>12, Begun, CopySame
    <2>3. /\ hangar'.sheet = hangar.sheet
          /\ \A l \in Lines : /\ Of(mem'[C], l) = 0
                              /\ Of(hangar'.held, l) = Of(hangar.held, l) + Of(mem[C], l)
        BY <1>1, <1>22, HandOverMoves
    <2>4. \A l \in Lines : /\ hangar.sheet[l] \in Nat /\ Of(hangar.held, l) \in Nat
                           /\ Of(mem[C], l) \in Nat /\ \A c \in Copies(C) : Of(c, l) \in Nat
        BY <1>3, <1>4, HangarIs, OfNat
    <2>5. Paid(mem'[C], hangar') BY <1>2, <2>3, <2>4 DEF Paid
    <2>6. \A c \in Copies(C) : Paid(c, hangar')
        <3> SUFFICES ASSUME NEW c \in Copies(C), NEW l \in Lines
                     PROVE  hangar'.sheet[l] <= Of(c, l) + Of(hangar'.held, l)
            BY DEF Paid
        <3>1. hangar.sheet[l] <= Of(c, l) + Of(hangar.held, l) BY <1>2, <2>2 DEF Paid
        <3> QED BY <3>1, <2>3, <2>4
    <2> QED BY <1>2, <2>1, <2>2, <2>5, <2>6
<1>23. CASE PutIn \/ TakeOut
    <2>1. /\ todo = <<>> /\ UNCHANGED <<file, writing, early>> /\ todo' \in {<<H, R>>, <<R, H>>}
        BY <1>23, Keeps DEF PutIn, TakeOut, Idle, R, H
    <2>2. ~Before(C) /\ ~Before(C)' /\ Copies(C)' = Copies(C)
        BY <2>1, <1>3, <1>12, Begun, CopySame DEF C, H
    <2>3. /\ hangar'.sheet = hangar.sheet /\ hangar'.held = hangar.held /\ mem'[C] = mem[C]
        BY <1>1, <1>23, HomeMoves
    <2> QED BY <1>2, <2>1, <2>2, <2>3 DEF Paid
<1>24. CASE Crash
    <2>1. ~early BY <1>24 DEF Crash
    <2>2. mem'[C] = file[C] /\ Copies(C)' = {file[C]} /\ hangar' = file[R] /\ file' = file
        BY <1>1, <1>3, <1>24, Stopped
    <2>3. Paid(file[C], file[R]) BY <1>2, <1>3, <2>1, CopyHas
    <2> QED BY <2>2, <2>3
<1> HIDE DEF Goal
<1> QED BY <1>5, <1>6, <1>9, <1>10, <1>11, <1>14, <1>15, <1>16, <1>17, <1>19, <1>20, <1>21, <1>22,
           <1>23, <1>24 DEF DeskNext

LEMMA HomeStep ==
    ASSUME DeskInv, [DeskNext]_deskVars
    PROVE  HomeInv'
<1>1. Shapes /\ QueueInv /\ WritesInv /\ RecordInv BY DEF DeskInv
<1> SUFFICES ASSUME mishaps' \cap {"raced", "unheard"} = {}
             PROVE  /\ hangar'.stores + mem'[H] >= Belongings
                    /\ ~early' => \A n \in Copies(H)' : file'[R].stores + n >= Belongings
                    /\ ~Before(H)' => \A n \in Copies(H)' : hangar'.stores + n >= Belongings
                    /\ Before(H)' => hangar'.stores <= file'[R].stores
    BY DEF HomeInv
<1> DEFINE Goal == /\ hangar'.stores + mem'[H] >= Belongings
                   /\ ~early' => \A n \in Copies(H)' : file'[R].stores + n >= Belongings
                   /\ ~Before(H)' => \A n \in Copies(H)' : hangar'.stores + n >= Belongings
                   /\ Before(H)' => hangar'.stores <= file'[R].stores
<1> SUFFICES Goal OBVIOUS
<1>2. /\ hangar.stores + mem[H] >= Belongings
      /\ ~early => \A n \in Copies(H) : file[R].stores + n >= Belongings
      /\ ~Before(H) => \A n \in Copies(H) : hangar.stores + n >= Belongings
      /\ Before(H) => hangar.stores <= file[R].stores
    BY Mishaps DEF DeskInv, HomeInv
<1>3. H \in Shared /\ H # R BY <1>1 DEF Shapes, Shared, H, R
<1>4. /\ hangar.stores \in Nat /\ file[R].stores \in Nat /\ mem[H] \in Nat /\ Belongings \in Nat
      /\ \A n \in Copies(H) : n \in Nat
    <2>1. Contents(H) = Nat BY DEF Contents, C, M, H
    <2> QED BY <1>1, <1>3, <2>1, DeskAssumption DEF Shapes, IsHangar
<1>5. CASE UNCHANGED deskVars
    <2>1. Copies(H)' = Copies(H) /\ Before(H)' = Before(H) BY <1>5 DEF deskVars, Copies, Before
    <2> QED BY <1>2, <1>5, <2>1 DEF deskVars
<1>6. CASE SaveRecord
    <2>1. file'[R] = hangar /\ Copies(H)' = Copies(H) BY <1>1, <1>3, <1>6, RecordSaved
    <2>2. UNCHANGED <<mem, hangar>> BY <1>6 DEF SaveRecord
    <2>3. ~Before(H) /\ ~Before(H)'
        BY <1>1, <1>3, <1>6, Begun DEF SaveRecord, Saving, Before, R
    <2> QED BY <1>2, <2>1, <2>2, <2>3
<1>8. ASSUME NEW f \in Shared, NEW who, Begin(f, who), UNCHANGED <<mem, hangar, file, todo>>,
             f = H /\ ~early' => hangar.stores <= file[R].stores, ~early' => ~early
      PROVE  Goal
    <2>1. Copies(H)' \subseteq Copies(H) \cup (IF H = f THEN {mem[f]} ELSE {})
        BY <1>1, <1>3, <1>8, CopyBegins
    <2>2. Before(H)' = Before(H) BY <1>8, Begun
    <2> QED BY <1>2, <1>4, <1>8, <2>1, <2>2
<1>9. ASSUME NEW f \in Shared, SessionWrites(f) PROVE Goal
    <2>1. /\ Begin(f, "session") /\ UNCHANGED <<mem, hangar, file, todo, early>> /\ Saving(f)
        BY <1>9 DEF SessionWrites
    <2>2. f = H => hangar.stores <= file[R].stores
        <3>1. CASE R \in Waiting(todo) BY <3>1, <2>1, <1>2 DEF Saving, Before
        <3>2. CASE R \notin Waiting(todo) BY <3>2, <1>1, <1>4 DEF RecordInv
        <3> QED BY <3>1, <3>2
    <2> QED BY <2>1, <2>2, <1>8
<1>10. ASSUME NEW f \in Shared, OtherWrites(f) PROVE Goal
    <2>1. /\ Begin(f, "other") /\ UNCHANGED <<mem, hangar, file, todo>>
          /\ ~early' => ~early
          /\ f = H /\ ~early' => ~(hangar.stores > file[R].stores)
        BY <1>10 DEF OtherWrites, H, R
    <2> QED BY <2>1, <1>4, <1>8
<1>11. ASSUME NEW w \in writing, Written(w) PROVE Goal
    <2>1. /\ Copies(H)' \subseteq Copies(H) /\ file'[R] = file[R]
          /\ H = w.file => Copies(H)' = {w.what}
        BY <1>1, <1>3, <1>11, CopyWritten
    <2>2. /\ UNCHANGED <<mem, hangar, early>>
          /\ todo' = IF w.by = "session" THEN Tail(todo) ELSE todo
        BY <1>11 DEF Written
    <2>3. CASE w.by # "session"
        <3>1. Before(H)' = Before(H) BY <2>2, <2>3, Begun
        <3> QED BY <1>2, <2>1, <2>2, <3>1
    <2>4. CASE w.by = "session"
        <3>1. todo # <<>> /\ Head(todo) = w.file /\ w.what = mem[w.file]
            BY <1>1, <2>4 DEF WritesInv
        <3>2. ~Before(H)' BY <1>1, <2>2, <2>4, <3>1, Begun
        <3>3. CASE Before(H)
            <4>1. w.file = H BY <3>1, <3>3 DEF Before
            <4> QED BY <1>2, <2>1, <2>2, <3>1, <3>2, <4>1
        <3>4. CASE ~Before(H) BY <1>2, <2>1, <2>2, <3>2, <3>4
        <3> QED BY <3>3, <3>4
    <2> QED BY <2>3, <2>4
<1>12. todo = <<>> => hangar = file[R] /\ ~early /\ ~Before(H)
    BY <1>1, Saves DEF RecordInv, Before
<1>13. ASSUME hangar'.stores = hangar.stores, mem'[H] = mem[H],
              UNCHANGED <<file, writing, early>>, ~Before(H),
              Before(H)' => hangar.stores <= file[R].stores
       PROVE  Goal
    <2>1. Copies(H)' = Copies(H) BY <1>3, <1>13, CopySame
    <2> QED BY <1>2, <1>13, <2>1
<1>14. CASE Enter
    <2>1. todo = <<>> BY <1>1, <1>14 DEF Enter, QueueInv
    <2>2. hangar' = hangar BY <2>1, <1>12, <1>14 DEF Enter, R
    <2>3. ~Before(H)' BY <2>1, <1>14, Begun DEF Enter
    <2> QED BY <2>1, <2>2, <2>3, <1>12, <1>13, <1>14 DEF Enter
<1>15. CASE Told
    <2>1. Copies(H)' = Copies(H) /\ Before(H)' = Before(H)
        BY <1>3, <1>15, CopySame, Begun DEF Told
    <2> QED BY <1>2, <1>15, <2>1 DEF Told
<1>16. ~Unheard BY DEF Unheard
<1>17. CASE Gone
    <2>1. ~Before(H) /\ ~Before(H)' BY <1>12, <1>17, Begun DEF Gone
    <2> QED BY <2>1, <1>13, <1>17 DEF Gone
<1>18. ASSUME todo = <<>>, Credited, todo' \in {<<C, M, R>>, <<C, R>>},
              UNCHANGED <<file, writing, early>>
       PROVE  Goal
    <2>1. ~Before(H)' BY <1>18, Begun DEF C, H
    <2> QED BY <2>1, <1>12, <1>13, <1>18 DEF Credited
<1>19. CASE Certify BY <1>1, <1>18, <1>19, CertifyCredits, Keeps DEF Certify, Idle
<1>20. CASE \E b \in BountyKinds : Bounty(b) BY <1>1, <1>18, <1>20, PaysCredits, Keeps DEF Bounty, Idle
<1>21. CASE Leave
    <2>1. todo = <<>> /\ UNCHANGED <<file, writing, early>> BY <1>21 DEF Leave, Idle
    <2>2. CASE Pays("ace") /\ todo' = BountyKeeps
        BY <1>1, <2>1, <2>2, <1>18, PaysCredits, Keeps DEF BountyKinds
    <2>3. CASE UNCHANGED <<mem, hangar>>
        <3>1. hangar.stores <= file[R].stores BY <2>1, <1>4, <1>12
        <3> QED BY <3>1, <2>1, <2>3, <1>12, <1>13
    <2> QED BY <2>2, <2>3, <1>21 DEF Leave
<1>22. CASE HandOver
    <2>1. todo = <<>> /\ UNCHANGED <<file, writing, early>> /\ todo' = <<R, C>>
        BY <1>22, Keeps DEF HandOver, Idle
    <2>2. ~Before(H)' BY <2>1, Begun
    <2>3. hangar'.stores = hangar.stores /\ mem'[H] = mem[H] BY <1>1, <1>22, HandOverMoves
    <2> QED BY <2>1, <2>2, <2>3, <1>12, <1>13
<1>23. ASSUME PutIn \/ TakeOut PROVE Goal
    <2>1. todo = <<>> /\ UNCHANGED <<file, writing, early>> BY <1>23 DEF PutIn, TakeOut, Idle
    <2>2. /\ hangar'.stores + mem'[H] = hangar.stores + mem[H] /\ hangar'.stores \in Nat
          /\ TakeOut => hangar'.stores >= hangar.stores
        BY <1>1, <1>23, HomeMoves DEF IsHangar
    <2>3. Copies(H)' = Copies(H) /\ ~Before(H) BY <2>1, <1>3, <1>12, CopySame
    <2>4. \A n \in Copies(H)' : file'[R].stores + n >= Belongings BY <1>2, <1>12, <2>1, <2>3
    <2>5. CASE TakeOut
        <3>1. todo' = <<R, H>> BY <2>5 DEF TakeOut, R, H
        <3>2. ~Before(H)' BY <3>1, Begun
        <3>3. \A n \in Copies(H)' : hangar'.stores + n >= Belongings BY <1>2, <1>4, <2>2, <2>3, <2>5
        <3> QED BY <1>2, <2>2, <2>4, <3>2, <3>3
    <2>6. CASE PutIn
        <3>1. todo' = <<H, R>> BY <2>6, Keeps DEF PutIn
        <3>2. Before(H)' BY <3>1, Begun
        <3>3. hangar'.stores = hangar.stores - 1
            <4>1. DOMAIN hangar = {"sheet", "held", "stores"} BY <1>1, MemIs
            <4> QED BY <4>1, <2>6 DEF PutIn
        <3>4. hangar'.stores <= file'[R].stores BY <1>4, <1>12, <2>1, <3>3
        <3> QED BY <1>2, <2>2, <2>4, <3>2, <3>4
    <2> QED BY <1>23, <2>5, <2>6
<1>24. CASE Crash
    <2>1. ~early BY <1>24 DEF Crash
    <2>2. mem'[H] = file[H] /\ Copies(H)' = {file[H]} /\ hangar' = file[R] /\ file' = file
        BY <1>1, <1>3, <1>24, Stopped
    <2>3. file[R].stores + file[H] >= Belongings BY <1>2, <1>3, <2>1, CopyHas
    <2> QED BY <1>4, <2>2, <2>3
<1> HIDE DEF Goal
<1> QED BY <1>5, <1>6, <1>9, <1>10, <1>11, <1>14, <1>15, <1>16, <1>17, <1>19, <1>20, <1>21, <1>22,
           <1>23, <1>24 DEF DeskNext

LEMMA SettledStep ==
    ASSUME DeskInv, [DeskNext]_deskVars
    PROVE  SettledInv'
<1>1. Shapes /\ QueueInv /\ WritesInv /\ RecordInv BY DEF DeskInv
<1> SUFFICES ASSUME "unheard" \notin mishaps', NEW f \in Shared, f \notin Waiting(todo')
             PROVE  \A c \in Copies(f)' : c = mem'[f]
    BY DEF SettledInv
<1>2. f \notin Waiting(todo) => \A c \in Copies(f) : c = mem[f]
    BY Mishaps DEF DeskInv, SettledInv
<1>3. ASSUME UNCHANGED <<file, writing>>, f \notin Waiting(todo), mem'[f] = mem[f]
      PROVE  \A c \in Copies(f)' : c = mem'[f]
    BY <1>2, <1>3, CopySame
<1>4. CASE UNCHANGED deskVars BY <1>3, <1>4 DEF deskVars
<1>5. CASE SaveRecord
    <2>1. Copies(f)' = Copies(f) BY <1>1, <1>5, RecordSaved
    <2>2. todo # <<>> /\ Head(todo) = R /\ todo' = Tail(todo) /\ mem' = mem
        BY <1>5 DEF SaveRecord, Saving, R
    <2>3. f # R BY DEF Shared, R
    <2>4. f \notin Waiting(todo) BY <1>1, <2>2, <2>3, Saves
    <2> QED BY <1>2, <2>1, <2>2, <2>4
<1>6. CASE \E g \in Shared : SessionWrites(g) \/ OtherWrites(g)
    <2>1. PICK g \in Shared : SessionWrites(g) \/ OtherWrites(g) BY <1>6
    <2>2. PICK who : Begin(g, who) /\ UNCHANGED <<mem, file, todo>>
        BY <2>1 DEF SessionWrites, OtherWrites
    <2>3. Copies(f)' \subseteq Copies(f) \cup (IF f = g THEN {mem[g]} ELSE {})
        BY <1>1, <2>2, CopyBegins
    <2> QED BY <1>2, <2>2, <2>3
<1>7. ASSUME NEW w \in writing, Written(w) PROVE \A c \in Copies(f)' : c = mem'[f]
    <2>1. /\ Copies(f)' \subseteq Copies(f) /\ (f = w.file => Copies(f)' = {w.what})
        BY <1>1, <1>7, CopyWritten
    <2>2. /\ mem' = mem /\ todo' = IF w.by = "session" THEN Tail(todo) ELSE todo
        BY <1>7 DEF Written
    <2>3. CASE w.by # "session" BY <1>2, <2>1, <2>2, <2>3
    <2>4. CASE w.by = "session"
        <3>1. todo # <<>> /\ Head(todo) = w.file /\ w.what = mem[w.file]
            BY <1>1, <2>4 DEF WritesInv
        <3>2. CASE f = w.file BY <2>1, <2>2, <3>1, <3>2
        <3>3. CASE f # w.file
            <4>1. f \notin Waiting(todo) BY <1>1, <2>2, <2>4, <3>1, <3>3, Saves
            <4> QED BY <1>2, <2>1, <2>2, <4>1
        <3> QED BY <3>2, <3>3
    <2> QED BY <2>3, <2>4
<1>8. todo = <<>> => f \notin Waiting(todo) BY Queues
<1>9. CASE Enter
    <2>1. todo = <<>> BY <1>1, <1>9 DEF Enter, QueueInv
    <2> QED BY <2>1, <1>3, <1>8, <1>9 DEF Enter
<1>10. CASE Told \/ Gone BY <1>3, <1>10 DEF Told, Gone
<1>11. ~Unheard BY DEF Unheard
<1>12. /\ Waiting(<<C, M, R>>) = {C, M, R} /\ Waiting(<<C, R>>) = {C, R}
       /\ Waiting(<<R, C>>) = {C, R} /\ Waiting(<<H, R>>) = {H, R} /\ Waiting(<<R, H>>) = {H, R}
       /\ f \in {C, M, H}
    BY DEF Waiting, Shared, C, M, H
<1>13. CASE Certify
    <2>1. todo' = <<C, M, R>> /\ todo = <<>> /\ UNCHANGED <<file, writing>>
        BY <1>13, Keeps DEF Certify, Idle
    <2>2. mem'[H] = mem[H] BY <1>1, <1>13, CertifyCredits DEF Credited
    <2>3. f = H BY <2>1, <1>12
    <2> QED BY <2>1, <2>2, <2>3, <1>3, <1>8
<1>14. ASSUME Pays("ace") \/ Pays("patrol"), todo' = BountyKeeps, todo = <<>>,
              UNCHANGED <<file, writing>>
       PROVE  \A c \in Copies(f)' : c = mem'[f]
    <2>1. f # C BY <1>12, <1>14, Keeps
    <2>2. DOMAIN mem = Shared BY <1>1 DEF Shapes
    <2>3. mem'[f] = mem[f] BY <1>14, <2>1, <2>2 DEF Pays, C
    <2> QED BY <2>3, <1>3, <1>8, <1>14
<1>15. CASE \E b \in BountyKinds : Bounty(b) BY <1>14, <1>15 DEF Bounty, Idle, BountyKinds
<1>16. CASE Leave
    <2>1. CASE Pays("ace") /\ todo' = BountyKeeps BY <1>14, <1>16, <2>1 DEF Leave, Idle
    <2>2. CASE UNCHANGED <<mem, hangar>> BY <1>3, <1>8, <1>16, <2>2 DEF Leave, Idle
    <2> QED BY <2>1, <2>2, <1>16 DEF Leave
<1>17. CASE HandOver
    <2>1. todo' = <<R, C>> /\ todo = <<>> /\ UNCHANGED <<file, writing>>
        BY <1>17, Keeps DEF HandOver, Idle
    <2>2. mem'[H] = mem[H] /\ mem'[M] = mem[M] BY <1>1, <1>17, HandOverMoves
    <2>3. f \in {H, M} BY <2>1, <1>12
    <2> QED BY <2>1, <2>2, <2>3, <1>3, <1>8
<1>18. CASE PutIn \/ TakeOut
    <2>1. todo' \in {<<R, H>>, <<H, R>>} /\ todo = <<>> /\ UNCHANGED <<file, writing>>
        BY <1>18, Keeps DEF PutIn, TakeOut, Idle, R, H
    <2>2. mem'[C] = mem[C] /\ mem'[M] = mem[M] BY <1>1, <1>18, HomeMoves
    <2>3. f \in {C, M} BY <2>1, <1>12
    <2> QED BY <2>1, <2>2, <2>3, <1>3, <1>8
<1>19. CASE Crash
    <2>1. mem'[f] = file[f] /\ Copies(f)' = {file[f]} BY <1>1, <1>19, Stopped
    <2> QED BY <2>1
<1> QED BY <1>4, <1>5, <1>6, <1>7, <1>9, <1>10, <1>11, <1>13, <1>15, <1>16, <1>17, <1>18, <1>19 DEF DeskNext

LEMMA HandedStep ==
    ASSUME DeskInv, [DeskNext]_deskVars
    PROVE  HandedOnceIfTold'
<1>1. Shapes /\ QueueInv /\ WritesInv /\ RecordInv /\ SettledInv BY DEF DeskInv
<1> DEFINE Goal == /\ \A l \in Lines : Of(hangar'.held, l) + Of(mem'[C], l) = hangar'.sheet[l]
                   /\ hangar'.stores + mem'[H] = Belongings
                   /\ mishaps' = {} =>
                        mem'[M] + mem'[C]["rifle"] + hangar'.held["rifle"] = Rifles
<1> SUFFICES ASSUME mishaps' \cap {"unheard", "abrupt"} = {} PROVE Goal
    BY DEF HandedOnceIfTold, C, M, H, Of
<1>2. /\ \A l \in Lines : Of(hangar.held, l) + Of(mem[C], l) = hangar.sheet[l]
      /\ hangar.stores + mem[H] = Belongings
      /\ mishaps' = {} => mem[M] + mem[C]["rifle"] + hangar.held["rifle"] = Rifles
    BY Mishaps DEF DeskInv, HandedOnceIfTold, C, M, H
<1>3. /\ mem[C] \in [Things -> Nat] /\ mem[M] \in Nat /\ mem[H] \in Nat
      /\ hangar.held \in [Things -> Nat] /\ hangar.stores \in Nat /\ IsHangar(hangar)
      /\ "rifle" \in Things
    BY <1>1, MemIs, DeskAssumption DEF Shapes, Things
<1>4. ASSUME UNCHANGED <<mem, hangar>> PROVE Goal BY <1>2, <1>4
<1>5. todo = <<>> => hangar = file[R] /\ ~early /\ Waiting(todo) = {}
    BY <1>1, Saves DEF RecordInv
<1>6. CASE UNCHANGED deskVars BY <1>4, <1>6 DEF deskVars
<1>7. CASE SaveRecord \/ Told \/ Unheard \/ Gone BY <1>4, <1>7 DEF SaveRecord, Told, Unheard, Gone
<1>8. CASE \/ \E f \in Shared : SessionWrites(f) \/ OtherWrites(f)
           \/ \E w \in writing : Written(w)
    BY <1>4, <1>8 DEF SessionWrites, OtherWrites, Written
<1>9. CASE Enter
    <2>1. todo = <<>> BY <1>1, <1>9 DEF Enter, QueueInv
    <2> QED BY <2>1, <1>4, <1>5, <1>9 DEF Enter, R
<1>10. ASSUME Credited PROVE Goal
    <2>1. ASSUME NEW l \in Lines
          PROVE  Of(hangar'.held, l) + Of(mem'[C], l) = hangar'.sheet[l]
        <3>1. PICK n \in {0, 1} : /\ Of(mem'[C], l) = Of(mem[C], l) + n
                                  /\ hangar'.sheet[l] = hangar.sheet[l] + n
            BY <1>10 DEF Credited
        <3>2. Of(hangar.held, l) \in Nat /\ Of(mem[C], l) \in Nat /\ hangar'.held = hangar.held
            BY <1>3, <1>10, OfNat DEF Credited
        <3>3. Of(hangar.held, l) + Of(mem[C], l) = hangar.sheet[l] BY <1>2
        <3> QED BY <3>1, <3>2, <3>3
    <2>2. hangar'.stores + mem'[H] = Belongings BY <1>2, <1>10 DEF Credited
    <2>3. mem'[M] + mem'[C]["rifle"] = mem[M] + mem[C]["rifle"] /\ hangar'.held = hangar.held
        BY <1>10 DEF Credited
    <2> QED BY <1>2, <2>1, <2>2, <2>3
<1>11. CASE Certify BY <1>1, <1>10, <1>11, CertifyCredits
<1>12. CASE \E b \in BountyKinds : Bounty(b) BY <1>1, <1>10, <1>12, PaysCredits DEF Bounty
<1>13. CASE Leave
    <2>1. CASE Pays("ace") BY <1>1, <1>10, <2>1, PaysCredits DEF BountyKinds
    <2>2. CASE UNCHANGED <<mem, hangar>> BY <1>4, <2>2
    <2> QED BY <2>1, <2>2, <1>13 DEF Leave
<1>14. CASE HandOver
    <2>1. /\ hangar'.sheet = hangar.sheet /\ hangar'.stores = hangar.stores
          /\ \A l \in Lines : /\ Of(mem'[C], l) = 0
                              /\ Of(hangar'.held, l) = Of(hangar.held, l) + Of(mem[C], l)
          /\ mem'[C]["rifle"] = 0 /\ mem'[H] = mem[H] /\ mem'[M] = mem[M]
          /\ hangar'.held["rifle"] = hangar.held["rifle"] + mem[C]["rifle"]
        BY <1>1, <1>14, HandOverMoves
    <2>2. \A l \in Lines : Of(hangar.held, l) \in Nat /\ Of(mem[C], l) \in Nat BY <1>3, OfNat
    <2>3. \A l \in Lines : Of(hangar'.held, l) + Of(mem'[C], l) = hangar'.sheet[l]
        BY <1>2, <2>1, <2>2
    <2>4. mem[C]["rifle"] \in Nat /\ hangar.held["rifle"] \in Nat BY <1>3
    <2>5. mem'[M] + mem'[C]["rifle"] + hangar'.held["rifle"]
          = mem[M] + mem[C]["rifle"] + hangar.held["rifle"]
        BY <1>3, <2>1, <2>4
    <2> QED BY <1>2, <2>1, <2>3, <2>5
<1>15. CASE PutIn \/ TakeOut
    <2>1. /\ mem'[C] = mem[C] /\ mem'[M] = mem[M]
          /\ hangar'.sheet = hangar.sheet /\ hangar'.held = hangar.held
          /\ hangar'.stores + mem'[H] = hangar.stores + mem[H]
        BY <1>1, <1>15, HomeMoves
    <2> QED BY <1>2, <2>1
<1>16. CASE Crash
    <2>1. todo = <<>> BY <1>16 DEF Crash
    <2>2. \A f \in Shared : file[f] = mem[f]
        BY <1>1, <1>5, <2>1, Mishaps, CopyHas DEF SettledInv
    <2>3. /\ \A g \in Shared : mem'[g] = mem[g]
          /\ hangar' = hangar
        BY <1>1, <1>5, <1>16, <2>1, <2>2, Stopped
    <2>4. {C, M, H} \subseteq Shared BY DEF C, M, H, Shared
    <2> QED BY <1>2, <2>3, <2>4
<1> HIDE DEF Goal
<1> QED BY <1>6, <1>7, <1>8, <1>9, <1>11, <1>12, <1>13, <1>14, <1>15, <1>16 DEF DeskNext

-----------------------------------------------------------------------------
LEMMA DeskInvHolds == DeskSpec => []DeskInv
<1>1. DeskInv /\ [DeskNext]_deskVars => DeskInv'
    BY ShapesStep, QueueStep, WritesStep, RecordStep, PaidStep, HomeStep, SettledStep, HandedStep
       DEF DeskInv
<1> QED BY <1>1, DeskStarts, PTL DEF DeskSpec

(* One certificate to a hangar, no amount below zero and no more rifles at the colony's desk
   than there were, however often the server stops and whichever writes it loses
   (Session::certify; Board::certify). *)
THEOREM DeskKeepsShape == DeskSpec => []DeskTypeOK
<1>1. DeskInv => DeskTypeOK
    <2> SUFFICES ASSUME DeskInv PROVE DeskTypeOK OBVIOUS
    <2>1. Shapes /\ QueueInv BY DEF DeskInv
    <2>2. \A f \in Shared : mem[f] \in Contents(f) /\ file[f] \in Contents(f)
        BY <2>1, CopyHas DEF Shapes
    <2>3. /\ mem.charter \in [Things -> Nat] /\ mem.market \in 0..Rifles /\ mem.homes \in Nat
          /\ file.charter \in [Things -> Nat] /\ file.market \in 0..Rifles /\ file.homes \in Nat
        <3>1. {C, M, H} \subseteq Shared BY DEF Shared, C, M, H
        <3>2. Contents(C) = [Things -> Nat] /\ Contents(M) = 0..Rifles /\ Contents(H) = Nat
            BY DEF Contents, C, M, H
        <3>3. /\ mem[C] \in [Things -> Nat] /\ mem[M] \in 0..Rifles /\ mem[H] \in Nat
              /\ file[C] \in [Things -> Nat] /\ file[M] \in 0..Rifles /\ file[H] \in Nat
            BY <2>2, <3>1, <3>2
        <3> QED BY <3>3 DEF C, M, H
    <2>4. todo \in Seq(Shared \cup {"record"})
        <3> DEFINE S == Shared \cup {"record"}
        <3>1. \A a, b, c \in S : <<>> \in Seq(S) /\ <<a>> \in Seq(S) /\ <<a, b>> \in Seq(S)
                                 /\ <<a, b, c>> \in Seq(S)
            OBVIOUS
        <3>2. C \in S /\ M \in S /\ H \in S /\ R \in S BY DEF Shared, C, M, H, R
        <3> HIDE DEF S
        <3> QED BY <2>1, <3>1, <3>2, ZenonT(60) DEF QueueInv, S
    <2>5. session \in {"away", "in", "telling", "leaving"} BY <2>1, Saves
    <2>6. /\ {hangar, file.record} \subseteq
                [sheet : [Lines -> 0..MaxLines], held : [Things -> Nat], stores : Nat]
          /\ hangar.sheet["certified"] \in {0, 1}
        BY <2>1 DEF Shapes, IsHangar, R
    <2> QED BY <2>1, <2>3, <2>4, <2>5, <2>6 DEF DeskTypeOK, Shapes
<1> QED BY <1>1, DeskInvHolds, PTL

(* Wherever the server stops, between any two writes of the four files, a pilot isn't left
   paid on the sheet with nothing at the desk and nothing handed over, nor without what was
   put in a home (Session::certify, keep_patrol, settle and home_request). *)
THEOREM NothingEverGoesMissing == DeskSpec => []NothingGoesMissing
<1>1. DeskInv => NothingGoesMissing
    BY DEF DeskInv, PaidInv, HomeInv, Paid, NothingGoesMissing, C, H
<1> QED BY <1>1, DeskInvHolds, PTL

(* What the desk hands over, and what is put in a home, is exactly what it was, through any
   number of stops at rest; and the certificates' rifles are moved, not made (Board::certify,
   Board::collect_at_desk; the saves of Session::settle). *)
THEOREM HandedOverOnce == DeskSpec => []HandedOnceIfTold
<1>1. DeskInv => HandedOnceIfTold BY DEF DeskInv
<1> QED BY <1>1, DeskInvHolds, PTL
=============================================================================
