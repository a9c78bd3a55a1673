--------------------------- MODULE ExchangeProofs ---------------------------
(***************************************************************************)
(* Proofs about Exchange, for any finite set of pilots, any goods and      *)
(* prices, and whatever the fills, the colony's quotes and the rounding:   *)
(*   - a buy order's escrow covers what is left of it to pay (EscrowInv);  *)
(*   - each book is in price-time order, its numbers given once (BookInv); *)
(*   - amounts stay whole and within their types (PurseInv);               *)
(*   - credits and goods are only moved: what pilots hold, what is in      *)
(*     escrow and what the colony has made or sunk adds up (Ledger);       *)
(*   - a guest who has left has nothing in the book or the desk (GuestInv).*)
(***************************************************************************)
EXTENDS Exchange, Sums

(* Two values rounded down are together worth no more than their sum rounded down. *)
LEMMA FloorsAdd ==
    ASSUME NEW a \in Nat, NEW b \in Nat, NEW c \in Nat, a + b <= c
    PROVE  a \div Unit + b \div Unit <= c \div Unit
<1> DEFINE x == a \div Unit
           y == b \div Unit
           z == c \div Unit
<1>1. Unit \in Nat /\ Unit > 0
      BY ConstantsAssumption
<1>2. x \in Nat /\ y \in Nat /\ z \in Nat
      BY <1>1
<1>3. Unit * x <= a /\ Unit * y <= b /\ c < Unit * z + Unit
      BY <1>1
<1> HIDE DEF x, y, z
<1>4. Unit * (x + y) = Unit * x + Unit * y /\ Unit * (z + 1) = Unit * z + Unit
      BY <1>1, <1>2
<1>5. Unit * (x + y) < Unit * (z + 1)
      BY <1>1, <1>2, <1>3, <1>4
<1>6. x + y < z + 1
  <2> SUFFICES ASSUME x + y >= z + 1 PROVE FALSE
      BY <1>2
  <2>1. Unit * (x + y) >= Unit * (z + 1)
      BY <1>1, <1>2
  <2> QED BY <1>1, <1>2, <1>5, <2>1
<1> QED BY <1>2, <1>6 DEF x, y, z

(* A fill at the order's price or better, and what is left of it. *)
LEMMA WorthSplits ==
    ASSUME NEW p \in Nat, NEW r \in 0..p, NEW q \in Nat, NEW f \in 0..q
    PROVE  /\ Worth(r, f) \in Nat /\ Worth(p, q - f) \in Nat /\ Worth(p, q) \in Nat
           /\ Worth(r, f) + Worth(p, q - f) <= Worth(p, q)
<1>1. r * f \in Nat /\ p * (q - f) \in Nat /\ p * q \in Nat
      OBVIOUS
<1>2. p * q = p * f + p * (q - f) /\ r * f <= p * f
      OBVIOUS
<1>3. r * f + p * (q - f) <= p * q
      BY <1>1, <1>2
<1>4. ASSUME NEW v \in Nat
      PROVE  v \div Unit \in Nat
  <2>1. Unit \in Nat /\ Unit > 0
        BY ConstantsAssumption
  <2> QED BY <2>1
<1> QED BY <1>1, <1>3, <1>4, FloorsAdd DEF Worth

-----------------------------------------------------------------------------
(* Orders that can pay, and orders to sell, which hold no credits. *)
BuyOrders == {o \in Orders : o.side = "Buy" /\ o.escrow >= Worth(o.price, o.qty)}
SellOrders == {o \in Orders : o.side = "Sell" /\ o.escrow = 0}

(* The ones that wait in a book have something left. *)
WaitingBuys == {o \in BuyOrders : o.qty > 0}
WaitingSells == {o \in SellOrders : o.qty > 0}

(* What EscrowCovers needs of the rest of the state to be inductive: which side an order
   in a book is on, and that the colony's stock, which its quotes come from, is not below 0. *)
EscrowInv ==
    /\ bids \in Seq(WaitingBuys) /\ asks \in Seq(WaitingSells)
    /\ taker \in BuyOrders \cup SellOrders \cup {NoOrder}
    /\ held \in Nat /\ seq \in Nat

(* It says what EscrowCovers does. *)
LEMMA InvCovers == EscrowInv => EscrowCovers
<1> SUFFICES ASSUME EscrowInv PROVE EscrowCovers
    OBVIOUS
<1>1. ASSUME NEW i \in DOMAIN bids
      PROVE  Covers(bids[i])
      BY <1>1 DEF EscrowInv, BuyOrders, WaitingBuys, Covers
<1>2. Covers(taker)
  <2>1. Worth(0, 0) = 0
    <3>1. Unit \in Nat /\ Unit > 0
          BY ConstantsAssumption
    <3> QED BY <3>1 DEF Worth
  <2> QED BY <2>1 DEF EscrowInv, BuyOrders, SellOrders, Covers, NoOrder, Order
<1> QED BY <1>1, <1>2 DEF EscrowCovers

(* An order filled in part at its price or better can pay for what is left of it, and for
   the fill: its escrow doesn't go below 0. *)
LEMMA FilledBuy ==
    ASSUME NEW o \in BuyOrders, NEW r \in 0..o.price, NEW f \in 0..o.qty
    PROVE  Filled(o, f, Worth(r, f)) \in BuyOrders
<1>1. /\ o.trader \in Traders /\ o.side = "Buy" /\ o.price \in Nat \ {0} /\ o.qty \in Nat
      /\ o.escrow \in Nat /\ o.seq \in Nat /\ o.rest \in BOOLEAN
      /\ o.escrow >= Worth(o.price, o.qty)
      BY DEF BuyOrders, Orders
<1>2. /\ Worth(r, f) \in Nat /\ Worth(o.price, o.qty - f) \in Nat /\ Worth(o.price, o.qty) \in Nat
      /\ Worth(r, f) + Worth(o.price, o.qty - f) <= Worth(o.price, o.qty)
      BY <1>1, WorthSplits
<1>3. o.escrow - Worth(r, f) \in Nat /\ o.escrow - Worth(r, f) >= Worth(o.price, o.qty - f)
      BY <1>1, <1>2
<1>4. Filled(o, f, Worth(r, f)) =
          [trader |-> o.trader, side |-> "Buy", price |-> o.price, qty |-> o.qty - f,
           escrow |-> o.escrow - Worth(r, f), seq |-> o.seq, rest |-> o.rest]
      BY <1>1 DEF Filled, Order
<1>5. o.qty - f \in Nat
      BY <1>1
<1> HIDE DEF Worth
<1> QED BY <1>1, <1>3, <1>4, <1>5 DEF BuyOrders, Orders

LEMMA FilledSell ==
    ASSUME NEW o \in SellOrders, NEW v, NEW f \in 0..o.qty
    PROVE  Filled(o, f, v) \in SellOrders
BY DEF Filled, Order, SellOrders, Orders

-----------------------------------------------------------------------------
(* new is list with o put in at place k; and so list is new with its k-th taken out. *)
PutIn(list, new, k, o) ==
    /\ k \in 1..Len(list) + 1 /\ Len(new) = Len(list) + 1 /\ new[k] = o
    /\ \A i \in 1..Len(list) : new[IF i < k THEN i ELSE i + 1] = list[i]

LEMMA InsertedIs ==
    ASSUME NEW S, NEW list \in Seq(S), NEW o \in S
    PROVE  /\ Inserted(list, o) \in Seq(S)
           /\ \E k \in 1..Len(list) + 1 :
                 /\ PutIn(list, Inserted(list, o), k, o)
                 /\ \A i \in 1..k - 1 : i \in Behind(list, o)
                 /\ k <= Len(list) => k \notin Behind(list, o)
<1> DEFINE worse == DOMAIN list \ Behind(list, o)
           at == IF worse = {} THEN Len(list) + 1
                 ELSE CHOOSE i \in worse : \A j \in worse : i <= j
<1>1. worse \subseteq 1..Len(list) /\ Len(list) \in Nat
      OBVIOUS
<1>2. /\ at \in 1..Len(list) + 1
      /\ \A i \in 1..at - 1 : i \in Behind(list, o)
      /\ at <= Len(list) => at \notin Behind(list, o)
  <2>1. CASE worse = {}
        BY <1>1, <2>1
  <2>2. CASE worse # {}
    <3>1. \E i \in worse : \A j \in worse : i <= j
      <4> HIDE DEF worse
      <4>1. worse \in SUBSET Nat
            BY <1>1
      <4> QED BY <2>2, <4>1, LeastOf
    <3>2. at \in worse /\ \A j \in worse : at <= j
          BY <2>2, <3>1
    <3> HIDE DEF at
    <3> QED BY <1>1, <3>2
  <2> QED BY <2>1, <2>2
<1> HIDE DEF at
<1> DEFINE front == SubSeq(list, 1, at - 1)
           back == SubSeq(list, at, Len(list))
           head == front \o <<o>>
           new == head \o back
<1>3. /\ front \in Seq(S) /\ Len(front) = at - 1 /\ \A i \in 1..at - 1 : front[i] = list[i]
      BY <1>1, <1>2
<1>4. /\ back \in Seq(S) /\ Len(back) = Len(list) + 1 - at
      /\ \A i \in 1..Len(list) + 1 - at : back[i] = list[at + i - 1]
      BY <1>1, <1>2
<1> HIDE DEF front, back
<1>5. /\ head \in Seq(S) /\ Len(head) = at /\ head[at] = o
      /\ \A i \in 1..at - 1 : head[i] = list[i]
      BY <1>1, <1>2, <1>3
<1> HIDE DEF head
<1>6. /\ new \in Seq(S) /\ Len(new) = Len(list) + 1
      /\ \A i \in 1..at : new[i] = head[i]
      /\ \A i \in 1..Len(list) + 1 - at : new[at + i] = back[i]
  <2>1. new \in Seq(S) /\ Len(new) = Len(list) + 1
    <3>1. new \in Seq(S) /\ Len(new) = Len(head) + Len(back)
          BY <1>4, <1>5
    <3> QED BY <1>1, <1>2, <1>4, <1>5, <3>1
  <2>2. \A i \in 1..at : new[i] = head[i]
        BY <1>1, <1>2, <1>4, <1>5
  <2>3. ASSUME NEW i \in 1..Len(list) + 1 - at
        PROVE  new[at + i] = back[i]
    <3>1. at + i \in Len(head) + 1..Len(head) + Len(back) /\ at + i - Len(head) = i
          BY <1>1, <1>2, <1>4, <1>5
    <3>2. new[at + i] = back[at + i - Len(head)]
          BY <1>4, <1>5, <3>1, SMTT(30)
    <3> QED BY <3>1, <3>2
  <2> QED BY <2>1, <2>2, <2>3
<1> HIDE DEF new
<1>9. ASSUME NEW i \in 1..Len(list)
      PROVE  new[IF i < at THEN i ELSE i + 1] = list[i]
  <2>1. CASE i < at
        BY <1>1, <1>2, <1>5, <1>6, <2>1
  <2>2. CASE i >= at
    <3>1. i - at + 1 \in 1..Len(list) + 1 - at /\ at + (i - at + 1) = i + 1
                /\ at + (i - at + 1) - 1 = i
          BY <1>1, <1>2, <2>2
    <3>2. back[i - at + 1] = list[i]
          BY <1>4, <3>1
    <3>3. new[i + 1] = back[i - at + 1]
          BY <1>6, <3>1
    <3> QED BY <1>1, <1>2, <2>2, <3>2, <3>3
  <2>3. i \in Int /\ at \in Int
        BY <1>1, <1>2
  <2> QED BY <2>1, <2>2, <2>3
<1>7. PutIn(list, new, at, o)
  <2>1. new[at] = o
        BY <1>1, <1>2, <1>5, <1>6
  <2> QED BY <1>2, <1>6, <1>9, <2>1 DEF PutIn
<1>8. Inserted(list, o) = new
      BY DEF Inserted, at, front, back, head, new
<1> QED BY <1>2, <1>6, <1>7, <1>8

LEMMA RemovedIs ==
    ASSUME NEW S, NEW list \in Seq(S), NEW k \in DOMAIN list
    PROVE  RemoveAt(list, k) \in Seq(S) /\ PutIn(RemoveAt(list, k), list, k, list[k])
<1> DEFINE front == SubSeq(list, 1, k - 1)
           back == SubSeq(list, k + 1, Len(list))
           new == front \o back
<1>1. k \in 1..Len(list) /\ Len(list) \in Nat
      OBVIOUS
<1>3. /\ front \in Seq(S) /\ Len(front) = k - 1 /\ \A i \in 1..k - 1 : front[i] = list[i]
      BY <1>1
<1>4. /\ back \in Seq(S) /\ Len(back) = Len(list) - k
      /\ \A i \in 1..Len(list) - k : back[i] = list[k + i]
      BY <1>1
<1> HIDE DEF front, back
<1>5. new \in Seq(S) /\ Len(new) = Len(list) - 1
      BY <1>1, <1>3, <1>4
<1>6. ASSUME NEW i \in 1..Len(list) - 1
      PROVE  list[IF i < k THEN i ELSE i + 1] = new[i]
  <2>1. CASE i < k
        BY <1>1, <1>3, <1>4, <2>1
  <2>2. CASE i >= k
    <3>1. i - k + 1 \in 1..Len(list) - k /\ k + (i - k + 1) = i + 1
          BY <1>1, <2>2
    <3>2. back[i - k + 1] = list[i + 1]
          BY <1>4, <3>1
    <3>3. new[i] = back[i - k + 1]
          BY <1>1, <1>3, <1>4, <2>2
    <3> QED BY <1>1, <2>2, <3>2, <3>3
  <2>3. i \in Int /\ k \in Int
        BY <1>1
  <2> HIDE DEF new
  <2> QED BY <2>1, <2>2, <2>3
<1>7. RemoveAt(list, k) = new
      BY DEF RemoveAt, front, back
<1> HIDE DEF new
<1> QED BY <1>1, <1>5, <1>6, <1>7 DEF PutIn

LEMMA TailIs ==
    ASSUME NEW S, NEW list \in Seq(S), list # <<>>
    PROVE  Tail(list) \in Seq(S) /\ PutIn(Tail(list), list, 1, list[1])
<1>1. Tail(list) \in Seq(S) /\ Len(Tail(list)) = Len(list) - 1 /\ Len(list) \in Nat /\ Len(list) > 0
      OBVIOUS
<1>2. \A i \in 1..Len(list) - 1 : Tail(list)[i] = list[i + 1]
      OBVIOUS
<1> QED BY <1>1, <1>2 DEF PutIn

-----------------------------------------------------------------------------
(* What match_one finds: the colony's quote... *)
LEMMA ColonyIs ==
    ASSUME EscrowInv, InHand
    PROVE  /\ Colony.price \in Nat /\ Colony.qty \in Nat
           /\ taker.side = "Buy" => Colony.qty <= held
<1>1. held \in Nat /\ Step \in Nat /\ Glut \in Nat
      BY ConstantsAssumption DEF EscrowInv
<1>2. Shelf \in 0..Glut
      BY <1>1 DEF Shelf
<1>3. ColonyBid[Shelf] \in Nat /\ ColonyAsk[Shelf] \in Nat
      BY <1>2, ConstantsAssumption
<1>4. taker.side \in {"Buy", "Sell"}
      BY DEF EscrowInv, InHand, BuyOrders, SellOrders, Orders
<1>5. CASE taker.side = "Sell"
      BY <1>1, <1>3, <1>5 DEF Colony
<1>6. CASE taker.side = "Buy"
      BY <1>1, <1>3, <1>6 DEF Colony, NoOffer
<1> QED BY <1>4, <1>5, <1>6

(* ...or the first order on the other side. *)
LEMMA RestingIs ==
    ASSUME EscrowInv, InHand
    PROVE  /\ Resting.price \in Nat /\ Resting.qty \in Nat
           /\ taker.side = "Buy" => Others = asks
           /\ taker.side = "Sell" => Others = bids
           /\ Resting.price # 0 =>
                 /\ Others # <<>> /\ Others[1] \in BuyOrders \cup SellOrders
                 /\ taker.side = "Buy" => Others[1] \in SellOrders
                 /\ taker.side = "Sell" => Others[1] \in BuyOrders
                 /\ Resting.price = Others[1].price /\ Resting.qty = Others[1].qty
<1>1. taker.side = "Buy" => Others = asks
      BY DEF Others
<1>2. taker.side = "Sell" => Others = bids
      BY DEF Others
<1>3. taker.side \in {"Buy", "Sell"}
      BY DEF EscrowInv, InHand, BuyOrders, SellOrders, Orders
<1>4. CASE Others = <<>>
      BY <1>1, <1>2, <1>4 DEF Resting, NoOffer
<1>5. CASE Others # <<>>
  <2>1. taker.side = "Buy" => Others[1] \in SellOrders
        BY <1>1, <1>5 DEF EscrowInv, WaitingSells
  <2>2. taker.side = "Sell" => Others[1] \in BuyOrders
        BY <1>2, <1>5 DEF EscrowInv, WaitingBuys
  <2>3. Others[1].price \in Nat /\ Others[1].qty \in Nat
        BY <1>3, <2>1, <2>2 DEF BuyOrders, SellOrders, Orders
  <2> QED BY <1>1, <1>2, <1>3, <1>5, <2>1, <2>2, <2>3 DEF Resting
<1> QED BY <1>4, <1>5

(* A fill is no more than either side has, at a price the order in hand accepts. *)
LEMMA FillIs ==
    ASSUME EscrowInv, Matches
    PROVE  /\ FillQty \in 0..taker.qty /\ FillQty \in 0..Offer.qty
           /\ Offer.price \in Nat \ {0}
           /\ taker.side = "Buy" => Offer.price \in 0..taker.price
<1>1. InHand /\ Offer.price # 0
      BY DEF Matches, Crosses
<1>2. Offer.price \in Nat /\ Offer.qty \in Nat
      BY <1>1, ColonyIs, RestingIs DEF Offer
<1>3. taker.qty \in Nat /\ taker.price \in Nat
      BY <1>1 DEF EscrowInv, InHand, BuyOrders, SellOrders, Orders
<1>4. FillQty \in 0..taker.qty /\ FillQty \in 0..Offer.qty
      BY <1>2, <1>3 DEF FillQty
<1>5. taker.side = "Buy" => Offer.price <= taker.price
      BY DEF Matches, Crosses
<1> QED BY <1>1, <1>2, <1>3, <1>4, <1>5

(* So the order in hand stays one that can pay. *)
LEMMA TakerPays ==
    ASSUME EscrowInv, Matches
    PROVE  Filled(taker, FillQty, Value) \in BuyOrders \cup SellOrders
<1>1. taker \in BuyOrders \/ taker \in SellOrders
      BY DEF EscrowInv, Matches, InHand
<1>2. CASE taker \in BuyOrders
  <2>1. taker.side = "Buy"
        BY <1>2 DEF BuyOrders
  <2> QED BY <1>2, <2>1, FillIs, FilledBuy DEF Value
<1>3. CASE taker \in SellOrders
      BY <1>3, FillIs, FilledSell
<1> QED BY <1>1, <1>2, <1>3

-----------------------------------------------------------------------------
(* Exchange::place escrows the worth of a buy order, all of it. *)
LEMMA PlaceInv ==
    ASSUME EscrowInv, NEW t \in Traders, NEW side \in {"Buy", "Sell"}, NEW p \in Prices,
           NEW q \in Quantities, NEW rest \in BOOLEAN, Place(t, side, p, q, rest)
    PROVE  EscrowInv'
<1>1. p \in Nat \ {0} /\ q \in Nat /\ 0 \in Nat
      BY ConstantsAssumption
<1>2. Worth(p, q) \in Nat /\ seq \in Nat /\ seq' = seq + 1
  <2>1. p \in Nat /\ p \in 0..p /\ 0 \in 0..q
        BY <1>1
  <2>2. Worth(p, q) \in Nat
        BY <1>1, <2>1, WorthSplits
  <2> QED BY <2>2 DEF EscrowInv, Place
<1>3. taker' = Order(t, side, p, q, IF side = "Buy" THEN Worth(p, q) ELSE 0, seq + 1, rest)
      BY DEF Place
<1>4. taker' \in BuyOrders \cup SellOrders
  <2> HIDE DEF Worth
  <2> QED BY <1>1, <1>2, <1>3 DEF Order, BuyOrders, SellOrders, Orders
<1>5. UNCHANGED <<bids, asks, held>>
      BY DEF Place
<1> QED BY <1>2, <1>4, <1>5 DEF EscrowInv

(* match_one with the colony: it sells no more than its stock. *)
LEMMA FillColonyInv ==
    ASSUME EscrowInv, FillColony
    PROVE  EscrowInv'
<1>1. Matches /\ ColonyFirst /\ taker' = Filled(taker, FillQty, Value) /\ UNCHANGED <<bids, asks, seq>>
      BY DEF FillColony
<1>2. taker' \in BuyOrders \cup SellOrders
      BY <1>1, TakerPays
<1>3. held' \in Nat
  <2>1. held \in Nat
        BY DEF EscrowInv
  <2>2. Offer = Colony /\ InHand
        BY <1>1 DEF Offer, Matches
  <2>3. FillQty \in Nat /\ (taker.side = "Buy" => FillQty <= held)
        BY <1>1, <2>1, <2>2, FillIs, ColonyIs
  <2> QED BY <2>1, <2>3 DEF FillColony
<1> QED BY <1>1, <1>2, <1>3 DEF EscrowInv

(* match_one with a resting order: what is left of it can pay, and goes back first. *)
LEMMA FillMakerInv ==
    ASSUME EscrowInv, FillMaker
    PROVE  EscrowInv'
<1> DEFINE maker == Filled(Others[1], FillQty, Value)
           rest == IF maker.qty = 0 THEN Tail(Others) ELSE <<maker>> \o Tail(Others)
<1>1. /\ Matches /\ InHand /\ ~ColonyFirst /\ held' = held /\ seq' = seq
      /\ taker' = Filled(taker, FillQty, Value)
      /\ bids' = IF taker.side = "Sell" THEN rest ELSE bids
      /\ asks' = IF taker.side = "Buy" THEN rest ELSE asks
      BY DEF FillMaker, Matches
<1>2. Offer = Resting /\ Resting.price # 0
      BY <1>1, FillIs DEF Offer
<1>3. FillQty \in 0..Others[1].qty /\ Offer.price = Others[1].price /\ Others # <<>>
      BY <1>1, <1>2, FillIs, RestingIs
<1>4. CASE taker.side = "Buy"
  <2>1. Others = asks /\ Others[1] \in SellOrders
        BY <1>1, <1>2, <1>4, RestingIs
  <2>2. maker \in SellOrders
        BY <1>3, <2>1, FilledSell
  <2>3. rest \in Seq(WaitingSells)
    <3>1. maker.qty # 0 => maker \in WaitingSells
          BY <2>2 DEF WaitingSells, SellOrders, Orders
    <3> HIDE DEF maker
    <3> QED BY <1>3, <2>1, <3>1 DEF EscrowInv
  <2> QED BY <1>1, <1>4, <2>3, TakerPays DEF EscrowInv
<1>5. CASE taker.side = "Sell"
  <2>1. Others = bids /\ Others[1] \in BuyOrders
        BY <1>1, <1>2, <1>5, RestingIs
  <2>2. maker \in BuyOrders
    <3>1. Others[1].price \in 0..Others[1].price
          BY <2>1 DEF BuyOrders, Orders
    <3> QED BY <1>3, <2>1, <3>1, FilledBuy DEF Value
  <2>3. rest \in Seq(WaitingBuys)
    <3>1. maker.qty # 0 => maker \in WaitingBuys
          BY <2>2 DEF WaitingBuys, BuyOrders, Orders
    <3> HIDE DEF maker
    <3> QED BY <1>3, <2>1, <3>1 DEF EscrowInv
  <2> QED BY <1>1, <1>5, <2>3, TakerPays DEF EscrowInv
<1>6. taker.side \in {"Buy", "Sell"}
      BY <1>1 DEF EscrowInv, InHand, BuyOrders, SellOrders, Orders
<1> QED BY <1>4, <1>5, <1>6

(* What is left of an order goes into the book of its side, or into neither. *)
LEMMA PlacedInv ==
    ASSUME EscrowInv, Placed
    PROVE  EscrowInv'
<1>1. taker \in BuyOrders \/ taker \in SellOrders
      BY DEF EscrowInv, Placed, InHand
<1>2. taker' = NoOrder /\ held' = held /\ seq' = seq
      BY DEF Placed
<1>3. bids' \in Seq(WaitingBuys)
  <2>1. CASE taker.side = "Buy"
    <3>1. taker.qty > 0 => taker \in WaitingBuys
          BY <1>1, <2>1 DEF SellOrders, WaitingBuys
    <3>2. taker.qty > 0 => Inserted(bids, taker) \in Seq(WaitingBuys)
          BY <3>1, InsertedIs DEF EscrowInv
    <3> QED BY <3>2 DEF EscrowInv, Placed, book
  <2>2. CASE taker.side # "Buy"
        BY <2>2 DEF EscrowInv, Placed, book
  <2> QED BY <2>1, <2>2
<1>4. asks' \in Seq(WaitingSells)
  <2>1. CASE taker.side = "Sell"
    <3>1. taker.qty > 0 => taker \in WaitingSells
          BY <1>1, <2>1 DEF BuyOrders, WaitingSells
    <3>2. taker.qty > 0 => Inserted(asks, taker) \in Seq(WaitingSells)
          BY <3>1, InsertedIs DEF EscrowInv
    <3> QED BY <3>2 DEF EscrowInv, Placed, book
  <2>2. CASE taker.side # "Sell"
        BY <2>2 DEF EscrowInv, Placed, book
  <2> QED BY <2>1, <2>2
<1> QED BY <1>2, <1>3, <1>4 DEF EscrowInv

(* An order taken out of the book it is in. *)
LEMMA WithoutInv ==
    ASSUME EscrowInv, NEW list \in {bids, asks}, NEW i \in DOMAIN list, Without(list, i),
           UNCHANGED <<taker, held, seq>>
    PROVE  EscrowInv'
<1>1. CASE list = bids
  <2>1. RemoveAt(bids, i) \in Seq(WaitingBuys)
        BY <1>1, RemovedIs DEF EscrowInv
  <2>2. bids[i].side = "Buy"
        BY <1>1 DEF EscrowInv, BuyOrders, WaitingBuys
  <2> QED BY <1>1, <2>1, <2>2 DEF EscrowInv, Without
<1>2. CASE list = asks
  <2>1. RemoveAt(asks, i) \in Seq(WaitingSells)
        BY <1>2, RemovedIs DEF EscrowInv
  <2>2. asks[i].side = "Sell"
        BY <1>2 DEF EscrowInv, SellOrders, WaitingSells
  <2> QED BY <1>2, <2>1, <2>2 DEF EscrowInv, Without
<1> QED BY <1>1, <1>2
-----------------------------------------------------------------------------
(* Cancelling, and a guest's leaving, take orders out of the books; a collect touches none. *)
LEMMA CancelInv ==
    ASSUME EscrowInv, NEW t \in Traders,
           Cancel(t, bids) \/ Cancel(t, asks) \/ Collect(t) \/ GuestLeaves(t)
    PROVE  EscrowInv'
<1>1. CASE Cancel(t, bids)
  <2>1. PICK i \in DOMAIN bids : Without(bids, i)
        BY <1>1 DEF Cancel, Theirs
  <2> QED BY <1>1, <2>1, WithoutInv DEF Cancel
<1>2. CASE Cancel(t, asks)
  <2>1. PICK i \in DOMAIN asks : Without(asks, i)
        BY <1>2 DEF Cancel, Theirs
  <2> QED BY <1>2, <2>1, WithoutInv DEF Cancel
<1>3. CASE Collect(t) \/ GuestLeaves(t)
      BY <1>3 DEF Collect, GuestLeaves, EscrowInv
<1> QED BY <1>1, <1>2, <1>3

(* So does each step of the leaving. *)
LEMMA LeavingInv ==
    ASSUME EscrowInv, CancelNext(bids) \/ CancelNext(asks) \/ Left
    PROVE  EscrowInv'
<1>1. CASE CancelNext(bids)
  <2>1. PICK i \in DOMAIN bids : Without(bids, i)
        BY <1>1 DEF CancelNext, Theirs
  <2> QED BY <1>1, <2>1, WithoutInv DEF CancelNext
<1>2. CASE CancelNext(asks)
  <2>1. PICK i \in DOMAIN asks : Without(asks, i)
        BY <1>2 DEF CancelNext, Theirs
  <2> QED BY <1>2, <2>1, WithoutInv DEF CancelNext
<1>3. CASE Left
      BY <1>3 DEF Left, EscrowInv
<1> QED BY <1>1, <1>2, <1>3

(* What the colony imports, uses up, receives and hands out leaves its stock at 0 or more. *)
LEMMA StockInv ==
    ASSUME EscrowInv, Settle \/ \E q \in Quantities : Receive(q) \/ Issue(q)
    PROVE  EscrowInv'
<1>1. held \in Nat /\ Target \in Nat /\ Quantities \subseteq Nat
      BY ConstantsAssumption DEF EscrowInv
<1>2. CASE Settle
      BY <1>1, <1>2 DEF Settle, EscrowInv
<1>3. ASSUME NEW q \in Quantities, Receive(q)
      PROVE  EscrowInv'
      BY <1>1, <1>3 DEF Receive, EscrowInv
<1>4. ASSUME NEW q \in Quantities, Issue(q)
      PROVE  EscrowInv'
      BY <1>1, <1>4 DEF Issue, EscrowInv
<1> QED BY <1>2, <1>3, <1>4

LEMMA EscrowInvHolds == Spec => []EscrowInv
<1>1. Init => EscrowInv
  <2>1. Target \in Nat
        BY ConstantsAssumption
  <2> QED BY <2>1 DEF Init, EscrowInv
<1>2. EscrowInv /\ [Next]_vars => EscrowInv'
  <2> SUFFICES ASSUME EscrowInv, [Next]_vars PROVE EscrowInv'
      OBVIOUS
  <2>1. CASE \E t \in Traders, side \in {"Buy", "Sell"}, p \in Prices, q \in Quantities,
                rest \in BOOLEAN : Place(t, side, p, q, rest)
        BY <2>1, PlaceInv
  <2>2. CASE FillColony \/ FillMaker \/ Placed
        BY <2>2, FillColonyInv, FillMakerInv, PlacedInv
  <2>3. CASE \E t \in Traders : Cancel(t, bids) \/ Cancel(t, asks) \/ Collect(t) \/ GuestLeaves(t)
        BY <2>3, CancelInv
  <2>4. CASE CancelNext(bids) \/ CancelNext(asks) \/ Left
        BY <2>4, LeavingInv
  <2>5. CASE Settle \/ \E q \in Quantities : Receive(q) \/ Issue(q)
        BY <2>5, StockInv
  <2>6. CASE UNCHANGED vars
        BY <2>6 DEF vars, EscrowInv
  <2> QED BY <2>1, <2>2, <2>3, <2>4, <2>5, <2>6 DEF Next
<1> QED BY <1>1, <1>2, PTL DEF Spec

(* Whatever is ordered, filled, cancelled or handed out, and in whatever order: a buy order,
   resting or being filled, holds what the rest of it may cost, so that match_one's
   unchecked subtraction from its escrow never wraps. *)
THEOREM EscrowAlwaysCovers == Spec => []EscrowCovers
BY EscrowInvHolds, InvCovers, PTL

-----------------------------------------------------------------------------
LEMMA OrderIs ==
    ASSUME NEW o \in Orders
    PROVE  /\ o.trader \in Traders /\ o.side \in {"Buy", "Sell"} /\ o.price \in Nat /\ o.price > 0
           /\ o.qty \in Nat /\ o.escrow \in Nat /\ o.seq \in Nat /\ o.rest \in BOOLEAN
           /\ o.qty \in Int /\ o.escrow \in Int
BY DEF Orders

(* What putting one into a book, or taking one out, does to what is counted of it. *)
LEMMA PutInShifts ==
    ASSUME NEW S, NEW list \in Seq(S), NEW new \in Seq(S), NEW k, NEW o, PutIn(list, new, k, o)
    PROVE  /\ Len(list) \in Nat /\ k \in 1..Len(list) + 1
           /\ DOMAIN list = 1..Len(list) /\ DOMAIN new = 1..Len(list) + 1
           /\ o \in S /\ new[k] = o
           /\ \A i \in 1..Len(list) : list[i] \in S /\ new[Shift(k, Len(list))[i]] = list[i]
BY DEF PutIn, Shift

LEMMA TheirsPutIn ==
    ASSUME NEW list \in Seq(Orders), NEW new \in Seq(Orders), NEW k, NEW o,
           PutIn(list, new, k, o), NEW t
    PROVE  /\ IsFiniteSet(Theirs(list, t)) /\ Cardinality(Theirs(list, t)) \in Nat
           /\ o.trader = t => Cardinality(Theirs(new, t)) = Cardinality(Theirs(list, t)) + 1
           /\ o.trader # t => Cardinality(Theirs(new, t)) = Cardinality(Theirs(list, t))
<1> DEFINE n == Len(list)
           S == Theirs(list, t)
           T == Theirs(new, t)
<1>1. n \in Nat /\ k \in 1..n + 1
      BY PutInShifts
<1>2. S \in SUBSET (1..n) /\ T \in SUBSET (1..n + 1)
      BY PutInShifts DEF Theirs
<1>3. ASSUME NEW i \in 1..n
      PROVE  i \in S <=> Shift(k, n)[i] \in T
  <2>1. Shift(k, n)[i] \in 1..n + 1
        BY <1>1, ShiftIs
  <2> QED BY <2>1, PutInShifts DEF Theirs
<1>4. k \in T <=> o.trader = t
      BY <1>1, PutInShifts DEF Theirs
<1> HIDE DEF n, S, T
<1>5. /\ IsFiniteSet(S) /\ Cardinality(S) \in Nat
      /\ k \in T => Cardinality(T) = Cardinality(S) + 1
      /\ k \notin T => Cardinality(T) = Cardinality(S)
  <2>1. PicksAlike(S, T, n, k)
        BY <1>1, <1>2, <1>3 DEF PicksAlike
  <2> QED BY <2>1, CountShifts
<1> QED BY <1>4, <1>5 DEF S, T

LEMMA WaitsPutIn ==
    ASSUME NEW list \in Seq(Orders), NEW new \in Seq(Orders), NEW k, NEW o,
           PutIn(list, new, k, o)
    PROVE  /\ o.escrow \in Nat /\ o.qty \in Nat
           /\ Escrowed(list) \in Int /\ Escrowed(new) = Escrowed(list) + o.escrow
           /\ Offered(list) \in Int /\ Offered(new) = Offered(list) + o.qty
<1> DEFINE n == Len(list)
           e == [i \in DOMAIN list |-> list[i].escrow]
           f == [i \in DOMAIN new |-> new[i].escrow]
           q == [i \in DOMAIN list |-> list[i].qty]
           r == [i \in DOMAIN new |-> new[i].qty]
<1>1. n \in Nat /\ k \in 1..n + 1 /\ DOMAIN list = 1..n /\ DOMAIN new = 1..n + 1 /\ o \in Orders
      BY PutInShifts
<1>2. o.escrow \in Nat /\ o.qty \in Nat
      BY <1>1 DEF Orders
<1>3. f[k] = o.escrow /\ r[k] = o.qty
      BY <1>1, PutInShifts
<1>4. ASSUME NEW i \in 1..n
      PROVE  /\ e[i] \in Int /\ f[Shift(k, n)[i]] = e[i]
             /\ q[i] \in Int /\ r[Shift(k, n)[i]] = q[i]
  <2>1. Shift(k, n)[i] \in 1..n + 1
        BY <1>1, ShiftIs
  <2>2. list[i] \in Orders /\ new[Shift(k, n)[i]] = list[i]
        BY PutInShifts
  <2>3. list[i].escrow \in Int /\ list[i].qty \in Int
        BY <2>2, OrderIs, Zenon
  <2> QED BY <1>1, <2>1, <2>2, <2>3
<1>5. /\ Escrowed(list) = SumFunctionOnSet(e, 1..n)
      /\ Escrowed(new) = SumFunctionOnSet(f, 1..n + 1)
      /\ Offered(list) = SumFunctionOnSet(q, 1..n)
      /\ Offered(new) = SumFunctionOnSet(r, 1..n + 1)
      BY <1>1, Zenon DEF Escrowed, Offered, SumFunction
<1> HIDE DEF e, f, q, r, n
<1>7. Escrowed(list) \in Int /\ Escrowed(new) = Escrowed(list) + o.escrow
  <2>1. /\ SumFunctionOnSet(f, 1..n + 1) = SumFunctionOnSet(e, 1..n) + f[k]
        /\ SumFunctionOnSet(e, 1..n) \in Int
    <3>1. ShiftsTo(e, f, n, k)
          BY <1>1, <1>2, <1>3, <1>4 DEF ShiftsTo
    <3> QED BY <3>1, SumShifts, Zenon
  <2> QED BY <1>3, <1>5, <2>1, Zenon
<1>8. Offered(list) \in Int /\ Offered(new) = Offered(list) + o.qty
  <2>1. /\ SumFunctionOnSet(r, 1..n + 1) = SumFunctionOnSet(q, 1..n) + r[k]
        /\ SumFunctionOnSet(q, 1..n) \in Int
    <3>1. ShiftsTo(q, r, n, k)
          BY <1>1, <1>2, <1>3, <1>4 DEF ShiftsTo
    <3> QED BY <3>1, SumShifts, Zenon
  <2> QED BY <1>3, <1>5, <2>1, Zenon
<1> QED BY <1>2, <1>7, <1>8

-----------------------------------------------------------------------------
(* The order of a book: a better price, or the same one sooner. *)
Ahead(a, b) ==
    \/ IF a.side = "Buy" THEN a.price > b.price ELSE a.price < b.price
    \/ a.price = b.price /\ a.seq < b.seq
Sorted(list) == \A i, j \in DOMAIN list : i < j => Ahead(list[i], list[j])

(* One taken out leaves the others in order. *)
LEMMA SortedTaken ==
    ASSUME NEW list \in Seq(Orders), NEW new \in Seq(Orders), NEW k, NEW o,
           PutIn(new, list, k, o), Sorted(list)
    PROVE  Sorted(new)
<1> SUFFICES ASSUME NEW i \in DOMAIN new, NEW j \in DOMAIN new, i < j
             PROVE  Ahead(new[i], new[j])
    BY DEF Sorted
<1> DEFINE n == Len(new)
           b == Shift(k, n)
<1>1. n \in Nat /\ k \in 1..n + 1 /\ i \in 1..n /\ j \in 1..n /\ DOMAIN list = 1..n + 1
      BY PutInShifts
<1>2. b[i] \in DOMAIN list /\ b[j] \in DOMAIN list /\ b[i] < b[j]
      BY <1>1 DEF Shift
<1>3. new[i] = list[b[i]] /\ new[j] = list[b[j]]
      BY <1>1, PutInShifts
<1>4. Ahead(list[b[i]], list[b[j]])
      BY <1>2 DEF Sorted
<1> QED BY <1>3, <1>4, Zenon

(* Whose order it is, its side, its price and its age: what a fill leaves as it was. *)
Like(a, b) == a.trader = b.trader /\ a.side = b.side /\ a.price = b.price /\ a.seq = b.seq

LEMMA SortedLeft ==
    ASSUME NEW list \in Seq(Orders), NEW rest \in Seq(Orders), NEW new \in Seq(Orders),
           NEW o, NEW m, PutIn(rest, list, 1, o), PutIn(rest, new, 1, m), Like(o, m), Sorted(list)
    PROVE  Sorted(new)
<1> SUFFICES ASSUME NEW i \in DOMAIN new, NEW j \in DOMAIN new, i < j
             PROVE  Ahead(new[i], new[j])
    BY DEF Sorted
<1> DEFINE n == Len(rest)
<1>1. n \in Nat /\ i \in 1..n + 1 /\ j \in 1..n + 1 /\ DOMAIN list = 1..n + 1
      BY PutInShifts
<1>2. ASSUME NEW h \in 1..n + 1
      PROVE  Like(list[h], new[h])
  <2>1. CASE h = 1
        BY <2>1 DEF PutIn
  <2>2. CASE h # 1
    <3>1. h - 1 \in 1..n /\ Shift(1, n)[h - 1] = h
          BY <1>1, <2>2 DEF Shift
    <3>2. /\ \A g \in 1..n : new[Shift(1, n)[g]] = rest[g]
          /\ \A g \in 1..n : list[Shift(1, n)[g]] = rest[g]
          BY PutInShifts
    <3>3. new[h] = rest[h - 1] /\ list[h] = rest[h - 1]
          BY <3>1, <3>2, Zenon
    <3> QED BY <3>3 DEF Like
  <2> QED BY <2>1, <2>2
<1>3. Ahead(list[i], list[j])
      BY <1>1 DEF Sorted
<1>4. Like(list[i], new[i]) /\ Like(list[j], new[j])
      BY <1>1, <1>2
<1> QED BY <1>3, <1>4 DEF Ahead, Like

(* Book::insert keeps the order of the book: a newer order goes behind those at its price. *)
LEMMA SortedInserted ==
    ASSUME NEW list \in Seq(Orders), NEW o \in Orders, Sorted(list),
           \A i \in DOMAIN list : list[i].side = o.side /\ list[i].seq < o.seq
    PROVE  Sorted(Inserted(list, o))
<1> DEFINE n == Len(list)
           new == Inserted(list, o)
<1>1. new \in Seq(Orders)
      BY InsertedIs
<1>2. PICK k \in 1..n + 1 :
          /\ PutIn(list, new, k, o)
          /\ \A i \in 1..k - 1 : i \in Behind(list, o)
          /\ k <= n => k \notin Behind(list, o)
      BY InsertedIs
<1> HIDE DEF new
<1>3. n \in Nat /\ DOMAIN list = 1..n /\ DOMAIN new = 1..n + 1 /\ new[k] = o
      BY <1>1, <1>2, PutInShifts
<1>4. \A i \in 1..n : new[Shift(k, n)[i]] = list[i]
      BY <1>1, <1>2, PutInShifts
<1>5. ASSUME NEW i \in 1..n
      PROVE  /\ list[i].price \in Nat /\ list[i].seq \in Nat /\ list[i].side = o.side
             /\ list[i].seq < o.seq /\ o.price \in Nat /\ o.seq \in Nat
             /\ o.side \in {"Buy", "Sell"}
      BY <1>3, OrderIs
<1>6. ASSUME NEW i \in 1..k - 1
      PROVE  Ahead(list[i], o)
  <2>1. i \in Behind(list, o) /\ i \in 1..n
        BY <1>2, <1>3
  <2>2. IF o.side = "Buy" THEN list[i].price >= o.price ELSE list[i].price <= o.price
        BY <2>1 DEF Behind
  <2> QED BY <1>5, <2>1, <2>2 DEF Ahead
<1>7. ASSUME NEW i \in k..n
      PROVE  Ahead(o, list[i])
  <2>1. k \in 1..n /\ i \in 1..n
        BY <1>2, <1>3
  <2>2. IF o.side = "Buy" THEN list[k].price < o.price ELSE list[k].price > o.price
        BY <1>2, <1>3, <1>5, <2>1 DEF Behind
  <2>3. IF o.side = "Buy" THEN list[i].price <= list[k].price ELSE list[i].price >= list[k].price
    <3>1. CASE i = k
          BY <1>5, <2>1, <3>1
    <3>2. CASE i # k
      <4>1. Ahead(list[k], list[i])
            BY <1>3, <2>1, <3>2 DEF Sorted
      <4> QED BY <1>5, <2>1, <4>1 DEF Ahead
    <3> QED BY <3>1, <3>2
  <2> QED BY <1>5, <2>1, <2>2, <2>3 DEF Ahead
<1> SUFFICES ASSUME NEW i \in 1..n + 1, NEW j \in 1..n + 1, i < j
             PROVE  Ahead(new[i], new[j])
    BY <1>3 DEF Sorted, new
<1>8. ASSUME NEW h \in 1..k - 1
      PROVE  h \in 1..n /\ new[h] = list[h]
  <2>1. h \in 1..n /\ Shift(k, n)[h] = h
        BY <1>2, <1>3 DEF Shift
  <2> QED BY <1>4, <2>1
<1>9. ASSUME NEW h \in k + 1..n + 1
      PROVE  h - 1 \in k..n /\ h - 1 \in 1..n /\ new[h] = list[h - 1]
  <2>1. h - 1 \in k..n /\ h - 1 \in 1..n /\ Shift(k, n)[h - 1] = h
        BY <1>2, <1>3 DEF Shift
  <2> QED BY <1>4, <2>1
<1>10. CASE j < k
  <2>1. i \in 1..k - 1 /\ j \in 1..k - 1
        BY <1>2, <1>3, <1>10
  <2> QED BY <1>3, <1>8, <2>1 DEF Sorted
<1>11. CASE j = k
  <2>1. i \in 1..k - 1
        BY <1>2, <1>3, <1>11
  <2> QED BY <1>3, <1>6, <1>8, <1>11, <2>1
<1>12. CASE j > k /\ i < k
  <2>1. i \in 1..k - 1 /\ j \in k + 1..n + 1
        BY <1>2, <1>3, <1>12
  <2>2. new[i] = list[i] /\ new[j] = list[j - 1] /\ i < j - 1 /\ i \in 1..n /\ j - 1 \in 1..n
        BY <1>8, <1>9, <1>12, <2>1
  <2> QED BY <1>3, <2>2 DEF Sorted
<1>13. CASE i = k
  <2>1. j \in k + 1..n + 1
        BY <1>2, <1>3, <1>13
  <2> QED BY <1>3, <1>7, <1>9, <1>13, <2>1
<1>14. CASE i > k
  <2>1. i \in k + 1..n + 1 /\ j \in k + 1..n + 1
        BY <1>2, <1>3, <1>14
  <2>2. new[i] = list[i - 1] /\ new[j] = list[j - 1] /\ i - 1 < j - 1
            /\ i - 1 \in 1..n /\ j - 1 \in 1..n
        BY <1>9, <2>1
  <2> QED BY <1>3, <2>2 DEF Sorted
<1> QED BY <1>2, <1>3, <1>10, <1>11, <1>12, <1>13, <1>14

-----------------------------------------------------------------------------
(* What a step in which no order comes to rest may do to a book: its orders are some of those
   it had, in the order they were in, so nobody has more. *)
Keeps(list, new) ==
    /\ \A i \in DOMAIN new : \E j \in DOMAIN list : Like(list[j], new[i])
    /\ Sorted(list) => Sorted(new)
    /\ \A t \in Traders : Cardinality(Theirs(new, t)) <= Cardinality(Theirs(list, t))

LEMMA TheirsFinite ==
    ASSUME NEW list \in Seq(Orders), NEW t
    PROVE  IsFiniteSet(Theirs(list, t)) /\ Cardinality(Theirs(list, t)) \in Nat
<1>1. Len(list) \in Nat /\ DOMAIN list = 1..Len(list)
      OBVIOUS
<1>2. IsFiniteSet(1..Len(list))
  <2>1. 1 \in Int /\ Len(list) \in Int
        BY <1>1
  <2> QED BY <2>1, FS_Interval
<1>3. Theirs(list, t) \subseteq 1..Len(list)
      BY <1>1 DEF Theirs
<1> QED BY <1>2, <1>3, FS_Subset, FS_CardinalityType

LEMMA KeepsItself ==
    ASSUME NEW list \in Seq(Orders)
    PROVE  Keeps(list, list)
<1>1. \A t \in Traders : Cardinality(Theirs(list, t)) <= Cardinality(Theirs(list, t))
      BY TheirsFinite
<1>2. \A i \in DOMAIN list : Like(list[i], list[i])
      BY DEF Like
<1> QED BY <1>1, <1>2 DEF Keeps

LEMMA KeepsTaken ==
    ASSUME NEW list \in Seq(Orders), NEW new \in Seq(Orders), NEW k, NEW o,
           PutIn(new, list, k, o)
    PROVE  Keeps(list, new)
<1>1. ASSUME NEW t \in Traders
      PROVE  Cardinality(Theirs(new, t)) <= Cardinality(Theirs(list, t))
      BY TheirsPutIn
<1>2. ASSUME NEW i \in DOMAIN new
      PROVE  \E j \in DOMAIN list : Like(list[j], new[i])
  <2> DEFINE j == Shift(k, Len(new))[i]
  <2>1. i \in 1..Len(new) /\ j \in DOMAIN list
    <3>1. /\ Len(new) \in Nat /\ k \in 1..Len(new) + 1 /\ DOMAIN new = 1..Len(new)
          /\ DOMAIN list = 1..Len(new) + 1
          BY PutInShifts
    <3>2. \A h \in 1..Len(new) : Shift(k, Len(new))[h] \in 1..Len(new) + 1
          BY <3>1, ShiftIs
    <3> QED BY <3>1, <3>2
  <2>2. list[j] = new[i]
        BY <2>1, PutInShifts
  <2> QED BY <2>1, <2>2 DEF Like
<1>3. Sorted(list) => Sorted(new)
      BY SortedTaken
<1> QED BY <1>1, <1>2, <1>3 DEF Keeps

LEMMA KeepsLeft ==
    ASSUME NEW list \in Seq(Orders), NEW rest \in Seq(Orders), NEW new \in Seq(Orders),
           NEW o, NEW m, PutIn(rest, list, 1, o), PutIn(rest, new, 1, m), Like(o, m)
    PROVE  Keeps(list, new)
<1>1. ASSUME NEW t \in Traders
      PROVE  Cardinality(Theirs(new, t)) <= Cardinality(Theirs(list, t))
  <2>1. Cardinality(Theirs(rest, t)) \in Nat
        BY TheirsFinite
  <2>2. Cardinality(Theirs(new, t)) = Cardinality(Theirs(list, t))
        BY TheirsPutIn DEF Like
  <2>3. Cardinality(Theirs(list, t)) \in Nat
        BY TheirsFinite
  <2> QED BY <2>2, <2>3
<1>2. ASSUME NEW i \in DOMAIN new
      PROVE  \E j \in DOMAIN list : Like(list[j], new[i])
  <2> DEFINE n == Len(rest)
  <2>1. n \in Nat /\ DOMAIN list = 1..n + 1 /\ DOMAIN new = 1..n + 1 /\ 1 \in 1..n + 1
        BY PutInShifts
  <2>2. list[1] = o /\ new[1] = m
        BY DEF PutIn
  <2>3. CASE i = 1
        BY <2>1, <2>2, <2>3
  <2>4. CASE i # 1
    <3>1. i - 1 \in 1..n /\ Shift(1, n)[i - 1] = i
          BY <2>1, <2>4 DEF Shift
    <3>2. /\ \A g \in 1..n : new[Shift(1, n)[g]] = rest[g]
          /\ \A g \in 1..n : list[Shift(1, n)[g]] = rest[g]
          BY PutInShifts
    <3>3. new[i] = list[i]
          BY <3>1, <3>2, Zenon
    <3> QED BY <2>1, <3>3 DEF Like
  <2> QED BY <2>3, <2>4
<1>3. Sorted(list) => Sorted(new)
      BY SortedLeft
<1> QED BY <1>1, <1>2, <1>3 DEF Keeps

(* A fill of the first order of a book: m is what is left of it, which stays first, or goes. *)
Fills(list, new, m) ==
    \E rest \in Seq(Orders) :
        /\ PutIn(rest, list, 1, list[1])
        /\ IF m.qty = 0 THEN new = rest ELSE PutIn(rest, new, 1, m)

LEMMA HeadIs ==
    ASSUME NEW S, NEW rest \in Seq(S), NEW m \in S
    PROVE  <<m>> \o rest \in Seq(S) /\ PutIn(rest, <<m>> \o rest, 1, m)
<1> DEFINE one == <<m>>
           new == one \o rest
<1>1. one \in Seq(S) /\ Len(one) = 1 /\ one[1] = m /\ Len(rest) \in Nat
      OBVIOUS
<1>2. new \in Seq(S) /\ Len(new) = Len(one) + Len(rest)
      BY <1>1
<1>3. Len(new) = Len(rest) + 1
      BY <1>1, <1>2
<1>4. new[1] = m
      BY <1>1
<1>5. ASSUME NEW i \in 1..Len(rest)
      PROVE  new[i + 1] = rest[i]
  <2>1. i + 1 \in Len(one) + 1..Len(one) + Len(rest) /\ i + 1 - Len(one) = i
        BY <1>1
  <2>2. new[i + 1] = rest[i + 1 - Len(one)]
        BY <1>1, <2>1
  <2> QED BY <2>1, <2>2
<1>6. PutIn(rest, new, 1, m)
  <2> HIDE DEF new
  <2> QED BY <1>1, <1>3, <1>4, <1>5 DEF PutIn
<1> QED BY <1>2, <1>6 DEF one

LEMMA FillsFirst ==
    ASSUME NEW list \in Seq(Orders), list # <<>>, NEW m \in Orders, NEW new,
           new = IF m.qty = 0 THEN Tail(list) ELSE <<m>> \o Tail(list)
    PROVE  new \in Seq(Orders) /\ Fills(list, new, m)
<1> DEFINE rest == Tail(list)
<1>1. rest \in Seq(Orders) /\ PutIn(rest, list, 1, list[1])
      BY TailIs
<1> HIDE DEF rest
<1>2. CASE m.qty = 0
  <2>1. new = rest
        BY <1>2 DEF rest
  <2> QED BY <1>1, <1>2, <2>1 DEF Fills
<1>3. CASE m.qty # 0
  <2>1. new = <<m>> \o rest
        BY <1>3 DEF rest
  <2>2. new \in Seq(Orders) /\ PutIn(rest, new, 1, m)
        BY <1>1, <2>1, HeadIs, Zenon
  <2> QED BY <1>1, <1>3, <2>2 DEF Fills
<1> QED BY <1>2, <1>3

LEMMA KeepsFilled ==
    ASSUME NEW list \in Seq(Orders), NEW new \in Seq(Orders), NEW m, Fills(list, new, m),
           Like(list[1], m)
    PROVE  Keeps(list, new)
<1>1. PICK rest \in Seq(Orders) :
          /\ PutIn(rest, list, 1, list[1])
          /\ IF m.qty = 0 THEN new = rest ELSE PutIn(rest, new, 1, m)
      BY DEF Fills
<1>2. CASE m.qty = 0
      BY <1>1, <1>2, KeepsTaken
<1>3. CASE m.qty # 0
      BY <1>1, <1>3, KeepsLeft
<1> QED BY <1>2, <1>3

-----------------------------------------------------------------------------
LEMMA BooksAre ==
    ASSUME EscrowInv
    PROVE  /\ bids \in Seq(Orders) /\ asks \in Seq(Orders)
           /\ \A i \in DOMAIN bids : bids[i] \in BuyOrders /\ bids[i].side = "Buy" /\ bids[i].qty > 0
           /\ \A i \in DOMAIN asks : asks[i] \in SellOrders /\ asks[i].side = "Sell" /\ asks[i].qty > 0
           /\ InHand => taker \in Orders
<1>1. WaitingBuys \subseteq Orders /\ WaitingSells \subseteq Orders
      BY DEF WaitingBuys, WaitingSells, BuyOrders, SellOrders
<1>2. bids \in Seq(Orders) /\ asks \in Seq(Orders)
      BY <1>1 DEF EscrowInv
<1>3. ASSUME NEW i \in DOMAIN bids
      PROVE  bids[i] \in BuyOrders /\ bids[i].side = "Buy" /\ bids[i].qty > 0
      BY DEF EscrowInv, WaitingBuys, BuyOrders
<1>4. ASSUME NEW i \in DOMAIN asks
      PROVE  asks[i] \in SellOrders /\ asks[i].side = "Sell" /\ asks[i].qty > 0
      BY DEF EscrowInv, WaitingSells, SellOrders
<1>5. InHand => taker \in Orders
      BY DEF EscrowInv, InHand, BuyOrders, SellOrders
<1> QED BY <1>2, <1>3, <1>4, <1>5

(* The order match_one fills, and what is left of it. *)
Maker == Filled(Others[1], FillQty, Value)

LEMMA MakerIs ==
    ASSUME EscrowInv, FillMaker
    PROVE  /\ Matches /\ InHand /\ taker \in Orders
           /\ Others # <<>> /\ Others \in Seq(Orders) /\ 1 \in DOMAIN Others /\ Others[1] \in Orders
           /\ Maker \in Orders /\ Like(Others[1], Maker)
           /\ FillQty \in 0..Others[1].qty /\ FillQty \in 0..taker.qty
           /\ Offer.price = Others[1].price
           /\ \/ /\ taker.side = "Buy" /\ Others = asks /\ Others[1].side = "Sell"
                 /\ Fills(asks, asks', Maker) /\ bids' = bids
              \/ /\ taker.side = "Sell" /\ Others = bids /\ Others[1].side = "Buy"
                 /\ Others[1] \in BuyOrders
                 /\ Fills(bids, bids', Maker) /\ asks' = asks
<1> DEFINE rest == IF Maker.qty = 0 THEN Tail(Others) ELSE <<Maker>> \o Tail(Others)
<1>1. /\ Matches /\ InHand /\ ~ColonyFirst
      /\ bids' = IF taker.side = "Sell" THEN rest ELSE bids
      /\ asks' = IF taker.side = "Buy" THEN rest ELSE asks
      BY DEF FillMaker, Matches, Maker
<1>2. Offer = Resting /\ Resting.price # 0
      BY <1>1, FillIs DEF Offer
<1>3. /\ FillQty \in 0..Others[1].qty /\ FillQty \in 0..taker.qty
      /\ Offer.price = Others[1].price /\ Others # <<>>
      BY <1>1, <1>2, FillIs, RestingIs
<1>4. taker \in Orders /\ taker.side \in {"Buy", "Sell"}
      BY <1>1, BooksAre, OrderIs
<1>5. Others \in Seq(Orders) /\ 1 \in DOMAIN Others /\ Others[1] \in Orders
  <2>1. Others \in Seq(Orders)
        BY BooksAre DEF Others
  <2> QED BY <1>3, <2>1
<1>6. Like(Others[1], Maker)
      BY DEF Like, Maker, Filled, Order
<1>7. CASE taker.side = "Buy"
  <2>1. Others = asks /\ Others[1] \in SellOrders /\ Others[1].side = "Sell"
        BY <1>1, <1>2, <1>7, RestingIs DEF SellOrders
  <2>2. Maker \in Orders
        BY <1>3, <2>1, FilledSell DEF Maker, SellOrders
  <2>3. Fills(Others, rest, Maker)
        BY <1>3, <1>5, <2>2, FillsFirst
  <2>4. Fills(asks, asks', Maker) /\ bids' = bids
        BY <1>1, <1>7, <2>1, <2>3
  <2> QED BY <1>1, <1>3, <1>4, <1>5, <1>6, <1>7, <2>1, <2>2, <2>4
<1>8. CASE taker.side = "Sell"
  <2>1. Others = bids /\ Others[1] \in BuyOrders /\ Others[1].side = "Buy"
        BY <1>1, <1>2, <1>8, RestingIs DEF BuyOrders
  <2>2. Maker \in Orders
    <3>1. Others[1].price \in 0..Others[1].price
          BY <1>5, OrderIs
    <3>2. Maker \in BuyOrders
          BY <1>3, <2>1, <3>1, FilledBuy DEF Value, Maker
    <3> QED BY <3>2 DEF BuyOrders
  <2>3. Fills(Others, rest, Maker)
        BY <1>3, <1>5, <2>2, FillsFirst
  <2>4. Fills(bids, bids', Maker) /\ asks' = asks
        BY <1>1, <1>8, <2>1, <2>3
  <2> QED BY <1>1, <1>3, <1>4, <1>5, <1>6, <1>8, <2>1, <2>2, <2>4
<1> QED BY <1>4, <1>7, <1>8

(* An order taken out of its book: what Without does. *)
LEMMA WithoutIs ==
    ASSUME EscrowInv, NEW list \in {bids, asks}, NEW i \in DOMAIN list, Without(list, i)
    PROVE  /\ list[i] \in Orders
           /\ \/ list = bids /\ list[i].side = "Buy" /\ PutIn(bids', bids, i, list[i]) /\ asks' = asks
              \/ list = asks /\ list[i].side = "Sell" /\ PutIn(asks', asks, i, list[i]) /\ bids' = bids
<1>1. CASE list = bids
  <2>1. bids[i].side = "Buy" /\ bids \in Seq(Orders) /\ list[i] \in Orders
        BY <1>1, BooksAre DEF BuyOrders
  <2>2. bids' = RemoveAt(bids, i) /\ asks' = asks
        BY <1>1, <2>1 DEF Without
  <2>3. PutIn(RemoveAt(bids, i), bids, i, bids[i])
        BY <1>1, <2>1, RemovedIs
  <2> QED BY <1>1, <2>1, <2>2, <2>3
<1>2. CASE list = asks
  <2>1. asks[i].side = "Sell" /\ asks \in Seq(Orders) /\ list[i] \in Orders
        BY <1>2, BooksAre DEF SellOrders
  <2>2. asks' = RemoveAt(asks, i) /\ bids' = bids
        BY <1>2, <2>1 DEF Without
  <2>3. PutIn(RemoveAt(asks, i), asks, i, asks[i])
        BY <1>2, <2>1, RemovedIs
  <2> QED BY <1>2, <2>1, <2>2, <2>3
<1> QED BY <1>1, <1>2

(* Which steps take an order out of a book, and which leave the books alone. *)
TakesOut ==
    \E list \in {bids, asks} : \E i \in DOMAIN list : Without(list, i) /\ UNCHANGED <<taker, seq, gone>>

Rests == Placed /\ taker.qty > 0 /\ taker.rest

LEMMA BookSteps ==
    ASSUME [Next]_vars
    PROVE  \/ FillMaker \/ Rests \/ TakesOut
           \/ UNCHANGED book
<1>1. CASE \E t \in Traders, side \in {"Buy", "Sell"}, p \in Prices, q \in Quantities,
                rest \in BOOLEAN : Place(t, side, p, q, rest)
      BY <1>1 DEF Place, book
<1>2. CASE FillColony
      BY <1>2 DEF FillColony, book
<1>3. CASE FillMaker \/ Placed
      BY <1>3 DEF Placed, Rests, book
<1>4. ASSUME NEW t \in Traders, Cancel(t, bids) \/ Cancel(t, asks)
      PROVE  TakesOut
      BY <1>4 DEF Cancel, TakesOut, Theirs
<1>5. CASE \E t \in Traders : Collect(t) \/ GuestLeaves(t)
      BY <1>5 DEF Collect, GuestLeaves, book
<1>6. CASE CancelNext(bids) \/ CancelNext(asks)
      BY <1>6 DEF CancelNext, TakesOut, Theirs
<1>7. CASE Left
      BY <1>7 DEF Left, book
<1>8. CASE Settle \/ \E q \in Quantities : Receive(q) \/ Issue(q)
      BY <1>8 DEF Settle, Receive, Issue, book
<1>9. CASE UNCHANGED vars
      BY <1>9 DEF vars, book
<1> QED BY <1>1, <1>2, <1>3, <1>4, <1>5, <1>6, <1>7, <1>8, <1>9 DEF Next

LEMMA StepKeeps ==
    ASSUME EscrowInv, EscrowInv', [Next]_vars, ~Rests
    PROVE  Keeps(bids, bids') /\ Keeps(asks, asks')
<1>1. /\ bids \in Seq(Orders) /\ asks \in Seq(Orders)
      /\ bids' \in Seq(Orders) /\ asks' \in Seq(Orders)
      BY BooksAre DEF EscrowInv, WaitingBuys, WaitingSells, BuyOrders, SellOrders
<1>2. Keeps(bids, bids) /\ Keeps(asks, asks)
      BY <1>1, KeepsItself
<1>3. CASE FillMaker
  <2>1. CASE taker.side = "Buy"
        BY <1>1, <1>2, <1>3, <2>1, MakerIs, KeepsFilled
  <2>2. CASE taker.side # "Buy"
        BY <1>1, <1>2, <1>3, <2>2, MakerIs, KeepsFilled
  <2> QED BY <2>1, <2>2
<1>4. CASE TakesOut
  <2>1. PICK list \in {bids, asks} : \E i \in DOMAIN list : Without(list, i)
        BY <1>4 DEF TakesOut
  <2>2. PICK i \in DOMAIN list : Without(list, i)
        BY <2>1
  <2> QED BY <1>1, <1>2, <2>2, WithoutIs, KeepsTaken
<1>5. CASE UNCHANGED book
      BY <1>2, <1>5 DEF book
<1> QED BY <1>3, <1>4, <1>5, BookSteps

-----------------------------------------------------------------------------
LEMMA PutInFrom ==
    ASSUME NEW list \in Seq(Orders), NEW new \in Seq(Orders), NEW k, NEW o,
           PutIn(list, new, k, o), NEW i \in DOMAIN new
    PROVE  new[i] = o \/ \E j \in DOMAIN list : new[i] = list[j]
<1> DEFINE n == Len(list)
<1>1. n \in Nat /\ k \in 1..n + 1 /\ DOMAIN list = 1..n /\ i \in 1..n + 1 /\ new[k] = o
      BY PutInShifts
<1>2. CASE i = k
      BY <1>1, <1>2
<1>3. CASE i # k
  <2>1. \A m \in (1..n + 1) \ {k} : \E j \in 1..n : Shift(k, n)[j] = m
        BY <1>1, ShiftIs
  <2>2. PICK j \in 1..n : Shift(k, n)[j] = i
        BY <1>1, <1>3, <2>1
  <2>3. new[Shift(k, n)[j]] = list[j]
        BY PutInShifts
  <2> QED BY <1>1, <2>2, <2>3
<1> QED BY <1>2, <1>3

(* An order comes to rest in the book of its side. *)
LEMMA RestsIs ==
    ASSUME EscrowInv, Rests
    PROVE  /\ InHand /\ taker \in Orders /\ taker' = NoOrder /\ seq' = seq /\ ~Crosses
           /\ \/ /\ taker.side = "Buy" /\ bids' = Inserted(bids, taker) /\ asks' = asks
                 /\ \E k : PutIn(bids, bids', k, taker)
              \/ /\ taker.side = "Sell" /\ asks' = Inserted(asks, taker) /\ bids' = bids
                 /\ \E k : PutIn(asks, asks', k, taker)
<1>1. /\ InHand /\ taker' = NoOrder /\ seq' = seq /\ ~Crosses
      /\ bids' = IF taker.side = "Buy" THEN Inserted(bids, taker) ELSE bids
      /\ asks' = IF taker.side = "Sell" THEN Inserted(asks, taker) ELSE asks
      BY DEF Rests, Placed
<1>2. taker \in Orders /\ taker.side \in {"Buy", "Sell"} /\ bids \in Seq(Orders) /\ asks \in Seq(Orders)
      BY <1>1, BooksAre, OrderIs
<1>3. /\ \E k : PutIn(bids, Inserted(bids, taker), k, taker)
      /\ \E k : PutIn(asks, Inserted(asks, taker), k, taker)
      BY <1>2, InsertedIs
<1> QED BY <1>1, <1>2, <1>3

LEMMA TakerSteps ==
    ASSUME [Next]_vars
    PROVE  \/ \E t \in Traders, side \in {"Buy", "Sell"}, p \in Prices, q \in Quantities,
                rest \in BOOLEAN : Place(t, side, p, q, rest)
           \/ seq' = seq /\ (taker' = taker \/ taker' = NoOrder)
           \/ seq' = seq /\ InHand /\ taker' = Filled(taker, FillQty, Value)
<1>1. CASE FillColony \/ FillMaker
      BY <1>1 DEF FillColony, FillMaker, Matches
<1>2. CASE Placed
      BY <1>2 DEF Placed
<1>3. CASE \E t \in Traders : Cancel(t, bids) \/ Cancel(t, asks) \/ Collect(t) \/ GuestLeaves(t)
      BY <1>3 DEF Cancel, Collect, GuestLeaves
<1>4. CASE CancelNext(bids) \/ CancelNext(asks) \/ Left
      BY <1>4 DEF CancelNext, Left
<1>5. CASE Settle \/ \E q \in Quantities : Receive(q) \/ Issue(q)
      BY <1>5 DEF Settle, Receive, Issue
<1>6. CASE UNCHANGED vars
      BY <1>6 DEF vars
<1> QED BY <1>1, <1>2, <1>3, <1>4, <1>5, <1>6 DEF Next

(* What is left of the order in hand is the same order. *)
LEMMA TakerStays ==
    ASSUME [Next]_vars, InHand, InHand'
    PROVE  seq' = seq /\ Like(taker, taker') /\ taker'.rest = taker.rest
<1>1. ASSUME NEW t, NEW side, NEW p, NEW q, NEW rest, Place(t, side, p, q, rest)
      PROVE  FALSE
      BY <1>1 DEF Place, Open
<1>2. taker' # NoOrder
      BY DEF InHand, NoOrder
<1>3. seq' = seq /\ (taker' = taker \/ taker' = Filled(taker, FillQty, Value))
      BY <1>1, <1>2, TakerSteps
<1> QED BY <1>3 DEF Like, Filled, Order

(* What BookInOrder needs to be inductive: the order in hand is the newest, no two orders
   cross while there is one either, and it leaves room for itself. *)
Older(list) == \A i \in DOMAIN list : list[i].seq <= seq /\ (InHand => list[i].seq < seq)
Apart == \A i \in DOMAIN bids, j \in DOMAIN asks : bids[i].price < asks[j].price
BookInv ==
    /\ Sorted(bids) /\ Sorted(asks) /\ Apart
    /\ Older(bids) /\ Older(asks) /\ (InHand => taker.seq = seq)
    /\ OrderLimit /\ (InHand /\ taker.rest => OrdersOf(taker.trader) < MaxOrders)

LEMMA BookInvSays == EscrowInv /\ BookInv => BookInOrder
<1> SUFFICES ASSUME EscrowInv, BookInv PROVE BookInOrder
    OBVIOUS
<1>1. ASSUME NEW i \in DOMAIN bids
      PROVE  bids[i].side = "Buy"
      BY BooksAre
<1>2. ASSUME NEW i \in DOMAIN asks
      PROVE  asks[i].side = "Sell"
      BY BooksAre
<1>3. PriceTimePriority
      BY <1>1, <1>2 DEF BookInv, Sorted, Ahead, PriceTimePriority
<1> QED BY <1>3 DEF BookInv, BookInOrder, Uncrossed, Apart

(* An order that rests crosses none on the other side: the first there is the best, and the
   colony's quote, where that came first, was no worse. *)
LEMMA RestsApart ==
    ASSUME EscrowInv, BookInv, InHand, ~Crosses
    PROVE  /\ taker.side = "Buy" => \A j \in DOMAIN asks : taker.price < asks[j].price
           /\ taker.side = "Sell" => \A i \in DOMAIN bids : bids[i].price < taker.price
<1>1. taker \in Orders /\ taker.price \in Nat
      BY BooksAre, OrderIs
<1>2. Colony.price \in Nat /\ Resting.price \in Nat
      BY ColonyIs, RestingIs
<1>3. ASSUME taker.side = "Buy", NEW j \in DOMAIN asks
      PROVE  taker.price < asks[j].price
  <2>1. asks \in Seq(Orders) /\ 1 \in DOMAIN asks /\ asks[1] \in Orders /\ asks[j] \in Orders
        /\ asks # <<>> /\ asks[1].side = "Sell"
        BY BooksAre
  <2>2. asks[1].price \in Nat /\ asks[1].price > 0 /\ asks[j].price \in Nat
        BY <2>1, OrderIs
  <2>3. Resting.price = asks[1].price
        BY <1>3, <2>1 DEF Resting, Others
  <2>4. Offer.price # 0 /\ Offer.price <= asks[1].price
        BY <1>2, <1>3, <2>2, <2>3 DEF Offer, ColonyFirst
  <2>5. asks[1].price <= asks[j].price
    <3>1. CASE j = 1
          BY <2>2, <3>1
    <3>2. CASE j # 1
      <4>1. 1 < j
            BY <2>1, <3>2
      <4>2. Ahead(asks[1], asks[j])
            BY <2>1, <4>1 DEF BookInv, Sorted
      <4> QED BY <2>1, <2>2, <4>2 DEF Ahead
    <3> QED BY <3>1, <3>2
  <2>6. Offer.price \in Nat /\ ~(Offer.price <= taker.price)
        BY <1>2, <1>3, <2>4 DEF Crosses, Offer
  <2> QED BY <1>1, <2>2, <2>4, <2>5, <2>6
<1>4. ASSUME taker.side = "Sell", NEW j \in DOMAIN bids
      PROVE  bids[j].price < taker.price
  <2>1. bids \in Seq(Orders) /\ 1 \in DOMAIN bids /\ bids[1] \in Orders /\ bids[j] \in Orders
        /\ bids # <<>> /\ bids[1].side = "Buy"
        BY BooksAre
  <2>2. bids[1].price \in Nat /\ bids[1].price > 0 /\ bids[j].price \in Nat
        BY <2>1, OrderIs
  <2>3. Resting.price = bids[1].price
        BY <1>4, <2>1 DEF Resting, Others
  <2>4. Offer.price # 0 /\ Offer.price >= bids[1].price
        BY <1>2, <1>4, <2>2, <2>3 DEF Offer, ColonyFirst
  <2>5. bids[1].price >= bids[j].price
    <3>1. CASE j = 1
          BY <2>2, <3>1
    <3>2. CASE j # 1
      <4>1. 1 < j
            BY <2>1, <3>2
      <4>2. Ahead(bids[1], bids[j])
            BY <2>1, <4>1 DEF BookInv, Sorted
      <4> QED BY <2>1, <2>2, <4>2 DEF Ahead
    <3> QED BY <3>1, <3>2
  <2>6. Offer.price \in Nat /\ ~(Offer.price >= taker.price)
        BY <1>2, <1>4, <2>4 DEF Crosses, Offer
  <2> QED BY <1>1, <2>2, <2>4, <2>5, <2>6
<1> QED BY <1>3, <1>4

(* A step in which no order comes to rest. *)
LEMMA KeptInv ==
    ASSUME EscrowInv, EscrowInv', BookInv, [Next]_vars, ~Rests
    PROVE  BookInv'
<1>1. Keeps(bids, bids') /\ Keeps(asks, asks')
      BY StepKeeps
<1>2. /\ bids \in Seq(Orders) /\ asks \in Seq(Orders)
      /\ bids' \in Seq(Orders) /\ asks' \in Seq(Orders)
      BY BooksAre DEF EscrowInv, WaitingBuys, WaitingSells, BuyOrders, SellOrders
<1>3. Sorted(bids') /\ Sorted(asks')
      BY <1>1 DEF BookInv, Keeps
<1>4. ASSUME NEW i \in DOMAIN bids', NEW j \in DOMAIN asks'
      PROVE  bids'[i].price < asks'[j].price
  <2>1. PICK g \in DOMAIN bids : Like(bids[g], bids'[i])
        BY <1>1 DEF Keeps
  <2>2. PICK h \in DOMAIN asks : Like(asks[h], asks'[j])
        BY <1>1 DEF Keeps
  <2> QED BY <2>1, <2>2 DEF Like, BookInv, Apart
<1>5. seq' \in Nat /\ seq \in Nat
      BY DEF EscrowInv
<1>6. \/ /\ ~InHand /\ seq' = seq + 1 /\ taker'.seq = seq' /\ taker'.trader \in Traders
         /\ taker'.rest => ~AtLimit(taker'.trader)
      \/ seq' = seq /\ ~InHand'
      \/ seq' = seq /\ InHand /\ Like(taker, taker') /\ taker'.rest = taker.rest
  <2>1. ASSUME NEW t \in Traders, NEW side, NEW p, NEW q, NEW rest, Place(t, side, p, q, rest)
        PROVE  /\ ~InHand /\ seq' = seq + 1 /\ taker'.seq = seq' /\ taker'.trader \in Traders
               /\ taker'.rest => ~AtLimit(taker'.trader)
        BY <2>1 DEF Place, Open, Order
  <2>2. ASSUME ~InHand, seq' = seq, taker' = taker
        PROVE  ~InHand'
        BY <2>2 DEF InHand, NoOrder
  <2>3. ASSUME taker' = NoOrder
        PROVE  ~InHand'
        BY <2>3 DEF InHand, NoOrder
  <2>4. CASE InHand /\ InHand'
        BY <2>4, TakerStays
  <2> QED BY <2>1, <2>2, <2>3, <2>4, TakerSteps
<1>7. ASSUME NEW list \in Seq(Orders), NEW new \in Seq(Orders), Keeps(list, new),
             \A i \in DOMAIN list : list[i].seq <= seq /\ (InHand => list[i].seq < seq),
             NEW i \in DOMAIN new
      PROVE  new[i].seq <= seq' /\ (InHand' => new[i].seq < seq')
  <2>1. PICK j \in DOMAIN list : Like(list[j], new[i])
        BY <1>7 DEF Keeps
  <2>2. list[j].seq \in Nat /\ new[i].seq = list[j].seq
        BY <2>1, OrderIs DEF Like
  <2>3. list[j].seq <= seq /\ (InHand => list[j].seq < seq)
        BY <1>7
  <2> QED BY <1>5, <1>6, <2>2, <2>3
<1>8. Older(bids)' /\ Older(asks)'
      BY <1>1, <1>2, <1>7 DEF BookInv, Older
<1>9. (InHand => taker.seq = seq)'
      BY <1>6 DEF BookInv, Like
<1>10. ASSUME NEW t \in Traders
       PROVE  OrdersOf(t)' <= OrdersOf(t) /\ OrdersOf(t)' \in Nat /\ OrdersOf(t) \in Nat
  <2>1. /\ Cardinality(Theirs(bids', t)) <= Cardinality(Theirs(bids, t))
        /\ Cardinality(Theirs(asks', t)) <= Cardinality(Theirs(asks, t))
        BY <1>1 DEF Keeps
  <2>2. /\ Cardinality(Theirs(bids, t)) \in Nat /\ Cardinality(Theirs(asks, t)) \in Nat
        /\ Cardinality(Theirs(bids', t)) \in Nat /\ Cardinality(Theirs(asks', t)) \in Nat
        BY <1>2, TheirsFinite
  <2> QED BY <2>1, <2>2 DEF OrdersOf
<1>11. MaxOrders \in Nat
       BY ConstantsAssumption
<1>12. OrderLimit'
  <2>1. ASSUME NEW t \in Traders
        PROVE  OrdersOf(t)' <= MaxOrders
    <3>1. OrdersOf(t) <= MaxOrders
          BY DEF BookInv, OrderLimit
    <3> QED BY <1>10, <1>11, <3>1
  <2> QED BY <2>1 DEF OrderLimit
<1>13. (InHand /\ taker.rest => OrdersOf(taker.trader) < MaxOrders)'
  <2>1. taker'.trader \in Traders \/ ~InHand'
        BY BooksAre, OrderIs DEF EscrowInv, InHand, BuyOrders, SellOrders, NoOrder
  <2>2. ASSUME NEW t \in Traders, t = taker'.trader, InHand', taker'.rest
        PROVE  OrdersOf(t)' < MaxOrders
    <3>1. OrdersOf(t) < MaxOrders
      <4>1. CASE ~AtLimit(t)
            BY <1>10, <1>11, <4>1 DEF AtLimit
      <4>2. CASE InHand /\ Like(taker, taker') /\ taker'.rest = taker.rest
            BY <2>2, <4>2 DEF BookInv, Like
      <4> QED BY <1>6, <2>2, <4>1, <4>2
    <3> QED BY <1>10, <1>11, <3>1
  <2> QED BY <2>1, <2>2 DEF OrdersOf
<1>14. Apart'
       BY <1>4 DEF Apart
<1> QED BY <1>3, <1>8, <1>9, <1>12, <1>13, <1>14 DEF BookInv, Sorted

(* An order that comes to rest. *)
LEMMA RestsInv ==
    ASSUME EscrowInv, EscrowInv', BookInv, Rests
    PROVE  BookInv'
<1>1. /\ bids \in Seq(Orders) /\ asks \in Seq(Orders)
      /\ bids' \in Seq(Orders) /\ asks' \in Seq(Orders)
      BY BooksAre DEF EscrowInv, WaitingBuys, WaitingSells, BuyOrders, SellOrders
<1>2. InHand /\ taker \in Orders /\ taker' = NoOrder /\ seq' = seq /\ ~Crosses /\ taker.rest
      BY RestsIs DEF Rests
<1>3. ~InHand'
      BY <1>2 DEF InHand, NoOrder
<1>4. /\ taker.seq = seq /\ seq \in Nat /\ taker.trader \in Traders
      /\ OrdersOf(taker.trader) < MaxOrders /\ MaxOrders \in Nat
      BY <1>2, OrderIs, ConstantsAssumption DEF BookInv, EscrowInv
<1>5. ASSUME NEW t \in Traders
      PROVE  /\ Cardinality(Theirs(bids, t)) \in Nat /\ Cardinality(Theirs(asks, t)) \in Nat
             /\ OrdersOf(t) = Cardinality(Theirs(bids, t)) + Cardinality(Theirs(asks, t))
             /\ OrdersOf(t)' = Cardinality(Theirs(bids', t)) + Cardinality(Theirs(asks', t))
             /\ OrdersOf(t) <= MaxOrders
      BY <1>1, TheirsFinite DEF OrdersOf, BookInv, OrderLimit
<1>6. CASE taker.side = "Buy"
  <2>1. PICK k : bids' = Inserted(bids, taker) /\ asks' = asks /\ PutIn(bids, bids', k, taker)
        BY <1>6, RestsIs
  <2>2. Sorted(bids') /\ Sorted(asks')
    <3>1. \A i \in DOMAIN bids : bids[i].side = taker.side /\ bids[i].seq < taker.seq
          BY <1>2, <1>4, <1>6, BooksAre DEF BookInv, Older
    <3> QED BY <1>1, <1>2, <2>1, <3>1, SortedInserted DEF BookInv
  <2>3. ASSUME NEW i \in DOMAIN bids'
        PROVE  bids'[i] = taker \/ \E j \in DOMAIN bids : bids'[i] = bids[j]
        BY <1>1, <2>1, PutInFrom
  <2>4. Apart'
        BY <1>2, <1>6, <2>1, <2>3, RestsApart DEF Apart, BookInv
  <2>5. Older(bids)' /\ Older(asks)'
        BY <1>2, <1>3, <1>4, <2>1, <2>3 DEF Older, BookInv
  <2>6. ASSUME NEW t \in Traders
        PROVE  OrdersOf(t)' <= MaxOrders
    <3>1. /\ taker.trader = t => Cardinality(Theirs(bids', t)) = Cardinality(Theirs(bids, t)) + 1
          /\ taker.trader # t => Cardinality(Theirs(bids', t)) = Cardinality(Theirs(bids, t))
          BY <1>1, <2>1, TheirsPutIn
    <3>2. Theirs(asks', t) = Theirs(asks, t)
          BY <2>1
    <3>3. CASE taker.trader = t
          BY <1>4, <1>5, <3>1, <3>2, <3>3
    <3>4. CASE taker.trader # t
          BY <1>4, <1>5, <3>1, <3>2, <3>4
    <3> QED BY <3>3, <3>4
  <2> QED BY <1>3, <2>2, <2>4, <2>5, <2>6 DEF BookInv, OrderLimit, Sorted
<1>7. CASE taker.side # "Buy"
  <2>1. PICK k : /\ taker.side = "Sell" /\ asks' = Inserted(asks, taker) /\ bids' = bids
                 /\ PutIn(asks, asks', k, taker)
        BY <1>7, RestsIs
  <2>2. Sorted(bids') /\ Sorted(asks')
    <3>1. \A i \in DOMAIN asks : asks[i].side = taker.side /\ asks[i].seq < taker.seq
          BY <1>2, <1>4, <2>1, BooksAre DEF BookInv, Older
    <3> QED BY <1>1, <1>2, <2>1, <3>1, SortedInserted DEF BookInv
  <2>3. ASSUME NEW i \in DOMAIN asks'
        PROVE  asks'[i] = taker \/ \E j \in DOMAIN asks : asks'[i] = asks[j]
        BY <1>1, <2>1, PutInFrom
  <2>4. Apart'
        BY <1>2, <2>1, <2>3, RestsApart DEF Apart, BookInv
  <2>5. Older(bids)' /\ Older(asks)'
        BY <1>2, <1>3, <1>4, <2>1, <2>3 DEF Older, BookInv
  <2>6. ASSUME NEW t \in Traders
        PROVE  OrdersOf(t)' <= MaxOrders
    <3>1. /\ taker.trader = t => Cardinality(Theirs(asks', t)) = Cardinality(Theirs(asks, t)) + 1
          /\ taker.trader # t => Cardinality(Theirs(asks', t)) = Cardinality(Theirs(asks, t))
          BY <1>1, <2>1, TheirsPutIn
    <3>2. Theirs(bids', t) = Theirs(bids, t)
          BY <2>1
    <3>3. CASE taker.trader = t
          BY <1>4, <1>5, <3>1, <3>2, <3>3
    <3>4. CASE taker.trader # t
          BY <1>4, <1>5, <3>1, <3>2, <3>4
    <3> QED BY <3>3, <3>4
  <2> QED BY <1>3, <2>2, <2>4, <2>5, <2>6 DEF BookInv, OrderLimit, Sorted
<1> QED BY <1>6, <1>7

(* The book stays in order, whatever is placed, filled in part, cancelled or quoted by the
   colony: best price first and oldest first at a price, no two resting orders crossed,
   nobody over MAX_ORDERS. *)
THEOREM BookStaysInOrder == Spec => []BookInOrder
<1>1. Init => BookInv
  <2> SUFFICES ASSUME Init PROVE BookInv
      OBVIOUS
  <2>1. bids = <<>> /\ asks = <<>> /\ ~InHand
        BY DEF Init, InHand
  <2>2. ASSUME NEW t \in Traders
        PROVE  OrdersOf(t) <= MaxOrders
    <3>1. Theirs(bids, t) = {} /\ Theirs(asks, t) = {}
          BY <2>1 DEF Theirs
    <3>2. OrdersOf(t) = 0 /\ MaxOrders \in Nat
          BY <3>1, FS_EmptySet, ConstantsAssumption DEF OrdersOf
    <3> QED BY <3>2
  <2> QED BY <2>1, <2>2 DEF BookInv, Sorted, Apart, Older, OrderLimit
<1>2. EscrowInv /\ EscrowInv' /\ BookInv /\ [Next]_vars => BookInv'
      BY KeptInv, RestsInv
<1> QED BY <1>1, <1>2, EscrowInvHolds, BookInvSays, PTL DEF Spec

-----------------------------------------------------------------------------
(* What a pilot has and is owed. *)
LEMMA GivenIs ==
    ASSUME NEW purse \in Purses, NEW t \in Traders, NEW c \in Int, NEW g \in Int,
           purse[t].credits + c >= 0, purse[t].goods + g >= 0
    PROVE  /\ Given(purse, t, c, g) \in Purses
           /\ \A u \in Traders : u # t => Given(purse, t, c, g)[u] = purse[u]
           /\ Given(purse, t, c, g)[t].credits = purse[t].credits + c
           /\ Given(purse, t, c, g)[t].goods = purse[t].goods + g
<1>1. purse[t].credits + c \in Nat /\ purse[t].goods + g \in Nat
      BY DEF Purses
<1> QED BY <1>1 DEF Given, Purses

LEMMA PurseIs ==
    ASSUME NEW purse \in Purses, NEW t \in Traders
    PROVE  purse[t].credits \in Nat /\ purse[t].goods \in Nat
BY DEF Purses

LEMMA HandedBackIs ==
    ASSUME NEW owed \in Purses, NEW o \in Orders
    PROVE  /\ HandedBack(owed, o) \in Purses
           /\ \A u \in Traders : u # o.trader => HandedBack(owed, o)[u] = owed[u]
<1>1. o.trader \in Traders /\ o.escrow \in Nat /\ o.qty \in Nat
      BY OrderIs
<1>2. owed[o.trader].credits \in Nat /\ owed[o.trader].goods \in Nat
      BY <1>1, PurseIs
<1>3. /\ owed[o.trader].credits + o.escrow >= 0 /\ owed[o.trader].goods + 0 >= 0
      /\ owed[o.trader].credits + 0 >= 0 /\ owed[o.trader].goods + o.qty >= 0
      /\ o.escrow \in Int /\ o.qty \in Int /\ 0 \in Int
      BY <1>1, <1>2
<1>4. CASE o.side = "Buy"
  <2>1. HandedBack(owed, o) = Given(owed, o.trader, o.escrow, 0)
        BY <1>4 DEF HandedBack
  <2> QED BY <1>1, <1>3, <2>1, GivenIs
<1>5. CASE o.side # "Buy"
  <2>1. HandedBack(owed, o) = Given(owed, o.trader, 0, o.qty)
        BY <1>5 DEF HandedBack
  <2> QED BY <1>1, <1>3, <2>1, GivenIs
<1> QED BY <1>4, <1>5

LEMMA CollectedIs ==
    ASSUME NEW owed \in Purses, NEW t \in Traders, hangar \in Purses, Collected(owed, t)
    PROVE  /\ hangar' \in Purses /\ account' \in Purses
           /\ account'[t] = Nothing /\ account'[t].credits = 0 /\ account'[t].goods = 0
           /\ \A u \in Traders : u # t => hangar'[u] = hangar[u] /\ account'[u] = owed[u]
           /\ hangar'[t].credits = hangar[t].credits + owed[t].credits
           /\ hangar'[t].goods = hangar[t].goods + owed[t].goods
<1>1. /\ owed[t].credits \in Nat /\ owed[t].goods \in Nat
      /\ hangar[t].credits \in Nat /\ hangar[t].goods \in Nat
      BY PurseIs
<1>2. /\ hangar' = Given(hangar, t, owed[t].credits, owed[t].goods)
      /\ account' = [owed EXCEPT ![t] = Nothing]
      BY DEF Collected
<1>3. account' \in Purses /\ account'[t] = Nothing /\ \A u \in Traders : u # t => account'[u] = owed[u]
      BY <1>2 DEF Purses, Nothing
<1>4. account'[t].credits = 0 /\ account'[t].goods = 0
      BY <1>3 DEF Nothing
<1>5. /\ hangar' \in Purses
      /\ \A u \in Traders : u # t => hangar'[u] = hangar[u]
      /\ hangar'[t].credits = hangar[t].credits + owed[t].credits
      /\ hangar'[t].goods = hangar[t].goods + owed[t].goods
  <2>1. /\ hangar[t].credits + owed[t].credits >= 0 /\ hangar[t].goods + owed[t].goods >= 0
        /\ owed[t].credits \in Int /\ owed[t].goods \in Int
        BY <1>1
  <2> QED BY <1>2, <2>1, GivenIs
<1> QED BY <1>3, <1>4, <1>5

(* The colony's fee is no more than the sale. *)
LEMMA FeeIs ==
    ASSUME NEW v \in Nat
    PROVE  Fee(v) \in Nat /\ v - Fee(v) \in Nat
<1>1. FeeIn \in Nat /\ FeeIn > 0 /\ FeeOf \in Nat /\ FeeOf <= FeeIn
      BY ConstantsAssumption
<1> DEFINE a == v * FeeOf
           f == a \div FeeIn
<1>2. a \in Nat /\ v * FeeIn \in Nat /\ a <= v * FeeIn
      BY <1>1
<1>3. f \in Nat /\ FeeIn * f <= a
      BY <1>1, <1>2
<1> HIDE DEF f
<1>4. FeeIn * f <= FeeIn * v
      BY <1>1, <1>2, <1>3
<1>5. f <= v
  <2> SUFFICES ASSUME f >= v + 1 PROVE FALSE
      BY <1>3
  <2>1. FeeIn * f >= FeeIn * (v + 1) /\ FeeIn * (v + 1) = FeeIn * v + FeeIn
      BY <1>1, <1>3
  <2> QED BY <1>1, <1>3, <1>4, <2>1
<1> QED BY <1>3, <1>5 DEF f, Fee

LEMMA ValueIs ==
    ASSUME EscrowInv, Matches
    PROVE  Value \in Nat /\ Fee(Value) \in Nat /\ Value - Fee(Value) \in Nat
<1>1. FillQty \in Nat /\ Offer.price \in Nat
  <2>1. InHand /\ taker \in Orders
        BY BooksAre DEF Matches
  <2> QED BY <2>1, FillIs, OrderIs
<1>2. Value \in Nat
  <2>1. Offer.price \in 0..Offer.price /\ 0 \in 0..FillQty
        BY <1>1
  <2> QED BY <1>1, <2>1, WorthSplits DEF Value
<1> QED BY <1>2, FeeIs

-----------------------------------------------------------------------------
(* All that pilots have and are owed, and how it changes with one of them. *)
CreditsOf(h, a) == SumFunction([t \in Traders |-> h[t].credits + a[t].credits])
GoodsOf(h, a) == SumFunction([t \in Traders |-> h[t].goods + a[t].goods])

LEMMA PurseChange ==
    ASSUME NEW h \in Purses, NEW a \in Purses, NEW h2 \in Purses, NEW a2 \in Purses,
           NEW t \in Traders, \A u \in Traders : u # t => h2[u] = h[u] /\ a2[u] = a[u]
    PROVE  /\ CreditsOf(h, a) \in Int /\ GoodsOf(h, a) \in Int
           /\ CreditsOf(h2, a2) = CreditsOf(h, a) + (h2[t].credits + a2[t].credits)
                                      - (h[t].credits + a[t].credits)
           /\ GoodsOf(h2, a2) = GoodsOf(h, a) + (h2[t].goods + a2[t].goods)
                                    - (h[t].goods + a[t].goods)
<1> DEFINE c == [u \in Traders |-> h[u].credits + a[u].credits]
           c2 == [u \in Traders |-> h2[u].credits + a2[u].credits]
           g == [u \in Traders |-> h[u].goods + a[u].goods]
           g2 == [u \in Traders |-> h2[u].goods + a2[u].goods]
<1>1. ASSUME NEW u \in Traders
      PROVE  c[u] \in Int /\ c2[u] \in Int /\ g[u] \in Int /\ g2[u] \in Int
  <2>1. /\ h[u].credits \in Nat /\ h[u].goods \in Nat /\ a[u].credits \in Nat /\ a[u].goods \in Nat
        /\ h2[u].credits \in Nat /\ h2[u].goods \in Nat
        /\ a2[u].credits \in Nat /\ a2[u].goods \in Nat
        BY PurseIs
  <2> QED BY <2>1
<1>2. \A u \in Traders : u # t => c2[u] = c[u] /\ g2[u] = g[u]
      OBVIOUS
<1>3. /\ c[t] = h[t].credits + a[t].credits /\ c2[t] = h2[t].credits + a2[t].credits
      /\ g[t] = h[t].goods + a[t].goods /\ g2[t] = h2[t].goods + a2[t].goods
      OBVIOUS
<1>4. /\ CreditsOf(h, a) = SumFunctionOnSet(c, Traders)
      /\ CreditsOf(h2, a2) = SumFunctionOnSet(c2, Traders)
      /\ GoodsOf(h, a) = SumFunctionOnSet(g, Traders)
      /\ GoodsOf(h2, a2) = SumFunctionOnSet(g2, Traders)
  <2>1. /\ DOMAIN c = Traders /\ DOMAIN c2 = Traders /\ DOMAIN g = Traders /\ DOMAIN g2 = Traders
        OBVIOUS
  <2> QED BY <2>1, Zenon DEF CreditsOf, GoodsOf, SumFunction
<1>5. IsFiniteSet(Traders)
      BY ConstantsAssumption
<1> HIDE DEF c, c2, g, g2
<1>6. /\ SumFunctionOnSet(c2, Traders) = SumFunctionOnSet(c, Traders) + c2[t] - c[t]
      /\ SumFunctionOnSet(c, Traders) \in Int
  <2>1. ChangesAt(c, c2, Traders, t)
        BY <1>1, <1>2 DEF ChangesAt
  <2> QED BY <1>5, <2>1, SumChanges
<1>7. /\ SumFunctionOnSet(g2, Traders) = SumFunctionOnSet(g, Traders) + g2[t] - g[t]
      /\ SumFunctionOnSet(g, Traders) \in Int
  <2>1. ChangesAt(g, g2, Traders, t)
        BY <1>1, <1>2 DEF ChangesAt
  <2> QED BY <1>5, <2>1, SumChanges
<1> QED BY <1>3, <1>4, <1>6, <1>7, Zenon

LEMMA OwnedType ==
    ASSUME NEW h \in Purses, NEW a \in Purses
    PROVE  CreditsOf(h, a) \in Int /\ GoodsOf(h, a) \in Int
<1> DEFINE c == [u \in Traders |-> h[u].credits + a[u].credits]
           g == [u \in Traders |-> h[u].goods + a[u].goods]
<1>1. \A u \in Traders : c[u] \in Int /\ g[u] \in Int
      BY PurseIs
<1>2. DOMAIN c = Traders /\ DOMAIN g = Traders /\ IsFiniteSet(Traders)
      BY ConstantsAssumption
<1>3. CreditsOf(h, a) = SumFunctionOnSet(c, Traders) /\ GoodsOf(h, a) = SumFunctionOnSet(g, Traders)
      BY <1>2, Zenon DEF CreditsOf, GoodsOf, SumFunction
<1> HIDE DEF c, g
<1> QED BY <1>1, <1>2, <1>3, SumType

(* A trader is owed more. *)
LEMMA OwedMore ==
    ASSUME NEW h \in Purses, NEW a \in Purses, NEW t \in Traders, NEW c \in Nat, NEW g \in Nat
    PROVE  /\ Given(a, t, c, g) \in Purses
           /\ CreditsOf(h, a) \in Int /\ GoodsOf(h, a) \in Int
           /\ CreditsOf(h, Given(a, t, c, g)) = CreditsOf(h, a) + c
           /\ GoodsOf(h, Given(a, t, c, g)) = GoodsOf(h, a) + g
<1> DEFINE a2 == Given(a, t, c, g)
<1>1. a[t].credits \in Nat /\ a[t].goods \in Nat /\ h[t].credits \in Nat /\ h[t].goods \in Nat
      BY PurseIs
<1>2. a[t].credits + c >= 0 /\ a[t].goods + g >= 0 /\ c \in Int /\ g \in Int
      BY <1>1
<1>3. /\ a2 \in Purses /\ \A u \in Traders : u # t => a2[u] = a[u]
      /\ a2[t].credits = a[t].credits + c /\ a2[t].goods = a[t].goods + g
      BY <1>2, GivenIs
<1> HIDE DEF a2
<1>4. /\ CreditsOf(h, a) \in Int /\ GoodsOf(h, a) \in Int
      /\ CreditsOf(h, a2) = CreditsOf(h, a) + (h[t].credits + a2[t].credits)
                                - (h[t].credits + a[t].credits)
      /\ GoodsOf(h, a2) = GoodsOf(h, a) + (h[t].goods + a2[t].goods) - (h[t].goods + a[t].goods)
      BY <1>3, PurseChange
<1>5. CreditsOf(h, a2) = CreditsOf(h, a) + c /\ GoodsOf(h, a2) = GoodsOf(h, a) + g
      BY <1>1, <1>2, <1>3, <1>4
<1> QED BY <1>3, <1>4, <1>5 DEF a2

(* What is handed back is what the order held. *)
Owed(o) == [credits |-> IF o.side = "Buy" THEN o.escrow ELSE 0,
            goods |-> IF o.side = "Buy" THEN 0 ELSE o.qty]

LEMMA HandedBackAdds ==
    ASSUME NEW h \in Purses, NEW a \in Purses, NEW o \in Orders
    PROVE  /\ HandedBack(a, o) \in Purses
           /\ CreditsOf(h, a) \in Int /\ GoodsOf(h, a) \in Int
           /\ Owed(o).credits \in Nat /\ Owed(o).goods \in Nat
           /\ CreditsOf(h, HandedBack(a, o)) = CreditsOf(h, a) + Owed(o).credits
           /\ GoodsOf(h, HandedBack(a, o)) = GoodsOf(h, a) + Owed(o).goods
<1>1. o.trader \in Traders /\ o.escrow \in Nat /\ o.qty \in Nat /\ 0 \in Nat
      BY OrderIs
<1>2. Owed(o).credits \in Nat /\ Owed(o).goods \in Nat
      BY <1>1 DEF Owed
<1>3. HandedBack(a, o) = Given(a, o.trader, Owed(o).credits, Owed(o).goods)
  <2>1. CASE o.side = "Buy"
        BY <2>1 DEF HandedBack, Owed
  <2>2. CASE o.side # "Buy"
        BY <2>2 DEF HandedBack, Owed
  <2> QED BY <2>1, <2>2
<1> QED BY <1>1, <1>2, <1>3, OwedMore, SMTT(30)

(* Collecting moves what is owed; it makes nothing. *)
LEMMA CollectedSame ==
    ASSUME NEW owed \in Purses, NEW t \in Traders, hangar \in Purses, Collected(owed, t)
    PROVE  /\ CreditsOf(hangar', account') = CreditsOf(hangar, owed)
           /\ GoodsOf(hangar', account') = GoodsOf(hangar, owed)
<1> DEFINE h2 == hangar'
           a2 == account'
<1>1. /\ h2 \in Purses /\ a2 \in Purses
      /\ a2[t].credits = 0 /\ a2[t].goods = 0
      /\ \A u \in Traders : u # t => h2[u] = hangar[u] /\ a2[u] = owed[u]
      /\ h2[t].credits = hangar[t].credits + owed[t].credits
      /\ h2[t].goods = hangar[t].goods + owed[t].goods
      BY CollectedIs
<1>2. /\ owed[t].credits \in Nat /\ owed[t].goods \in Nat
      /\ hangar[t].credits \in Nat /\ hangar[t].goods \in Nat
      BY PurseIs
<1> HIDE DEF h2, a2
<1>3. /\ CreditsOf(hangar, owed) \in Int /\ GoodsOf(hangar, owed) \in Int
      /\ CreditsOf(h2, a2) = CreditsOf(hangar, owed) + (h2[t].credits + a2[t].credits)
                                 - (hangar[t].credits + owed[t].credits)
      /\ GoodsOf(h2, a2) = GoodsOf(hangar, owed) + (h2[t].goods + a2[t].goods)
                               - (hangar[t].goods + owed[t].goods)
      BY <1>1, PurseChange
<1>4. CreditsOf(h2, a2) = CreditsOf(hangar, owed) /\ GoodsOf(h2, a2) = GoodsOf(hangar, owed)
      BY <1>1, <1>2, <1>3
<1> QED BY <1>4 DEF h2, a2

-----------------------------------------------------------------------------
(* The shape of the rest of the state. *)
PurseInv ==
    /\ account \in Purses /\ hangar \in Purses
    /\ fees \in Nat /\ colonyPaid \in Nat /\ colonyTook \in Nat /\ outside \in Int
    /\ gone \subseteq Traders /\ leaver \in Traders \cup {NoTrader}

(* All the credits there are, less those the colony brought in; and all the goods, less those
   it brought in and got rid of other than by trading. *)
TakerGoods == IF taker.side = "Sell" THEN taker.qty ELSE 0
CreditLine ==
    CreditsOf(hangar, account) + Escrowed(bids) + taker.escrow + colonyTook + fees - colonyPaid
GoodsLine ==
    GoodsOf(hangar, account) + Offered(asks) + TakerGoods + held - outside

(* What a step must do to keep the ledger. *)
Balances == PurseInv' /\ CreditLine' = CreditLine /\ GoodsLine' = GoodsLine

LEMMA LineTypes ==
    ASSUME EscrowInv, PurseInv
    PROVE  /\ Escrowed(bids) \in Int /\ Offered(asks) \in Int
           /\ taker.escrow \in Nat /\ TakerGoods \in Nat /\ held \in Nat
<1>1. ASSUME NEW list \in Seq(Orders)
      PROVE  Escrowed(list) \in Int /\ Offered(list) \in Int
  <2> DEFINE e == [i \in DOMAIN list |-> list[i].escrow]
             q == [i \in DOMAIN list |-> list[i].qty]
  <2>1. IsFiniteSet(DOMAIN list)
    <3>1. DOMAIN list = 1..Len(list) /\ 1 \in Int /\ Len(list) \in Int
          OBVIOUS
    <3> QED BY <3>1, FS_Interval
  <2>2. \A i \in DOMAIN list : e[i] \in Int /\ q[i] \in Int
    <3>1. \A i \in DOMAIN list : list[i] \in Orders
          OBVIOUS
    <3> QED BY <3>1, OrderIs
  <2>3. /\ Escrowed(list) = SumFunctionOnSet(e, DOMAIN list)
        /\ Offered(list) = SumFunctionOnSet(q, DOMAIN list)
    <3>1. DOMAIN e = DOMAIN list /\ DOMAIN q = DOMAIN list
          OBVIOUS
    <3> QED BY <3>1, Zenon DEF Escrowed, Offered, SumFunction
  <2> HIDE DEF e, q
  <2> QED BY <2>1, <2>2, <2>3, SumType
<1>2. taker.escrow \in Nat /\ TakerGoods \in Nat
  <2>1. CASE InHand
        BY <2>1, BooksAre, OrderIs DEF TakerGoods
  <2>2. CASE ~InHand
        BY <2>2 DEF InHand, NoOrder, Order, TakerGoods
  <2> QED BY <2>1, <2>2
<1> QED BY <1>1, <1>2, BooksAre DEF EscrowInv

LEMMA FillsAdds ==
    ASSUME NEW list \in Seq(Orders), NEW new \in Seq(Orders), NEW m \in Orders,
           Fills(list, new, m)
    PROVE  /\ list[1].escrow \in Nat /\ list[1].qty \in Nat /\ m.escrow \in Nat /\ m.qty \in Nat
           /\ Escrowed(list) \in Int /\ Offered(list) \in Int
           /\ m.qty = 0 => Escrowed(new) = Escrowed(list) - list[1].escrow
           /\ m.qty # 0 => Escrowed(new) = Escrowed(list) - list[1].escrow + m.escrow
           /\ Offered(new) = Offered(list) - list[1].qty + m.qty
<1>1. PICK rest \in Seq(Orders) :
          /\ PutIn(rest, list, 1, list[1])
          /\ IF m.qty = 0 THEN new = rest ELSE PutIn(rest, new, 1, m)
      BY DEF Fills
<1>2. m.qty \in Nat /\ m.escrow \in Nat
      BY OrderIs
<1>3. /\ list[1].escrow \in Nat /\ list[1].qty \in Nat
      /\ Escrowed(rest) \in Int /\ Escrowed(list) = Escrowed(rest) + list[1].escrow
      /\ Offered(rest) \in Int /\ Offered(list) = Offered(rest) + list[1].qty
      BY <1>1, WaitsPutIn
<1>4. CASE m.qty = 0
  <2>1. Escrowed(new) = Escrowed(rest) /\ Offered(new) = Offered(rest)
        BY <1>1, <1>4
  <2> QED BY <1>2, <1>3, <1>4, <2>1, SMTT(30)
<1>5. CASE m.qty # 0
  <2>1. Escrowed(new) = Escrowed(rest) + m.escrow /\ Offered(new) = Offered(rest) + m.qty
        BY <1>1, <1>5, WaitsPutIn
  <2>2. ASSUME NEW r \in Int, NEW x \in Nat, NEW y \in Nat
        PROVE  r + x \in Int /\ r + y = (r + x) - x + y
        OBVIOUS
  <2>3. /\ Escrowed(new) = Escrowed(list) - list[1].escrow + m.escrow
        /\ Offered(new) = Offered(list) - list[1].qty + m.qty
        /\ Escrowed(list) \in Int /\ Offered(list) \in Int
    <3>1. Escrowed(rest) + list[1].escrow \in Int /\ Offered(rest) + list[1].qty \in Int
          BY <1>3, <2>2
    <3>2. /\ Escrowed(rest) + m.escrow = (Escrowed(rest) + list[1].escrow) - list[1].escrow + m.escrow
          /\ Offered(rest) + m.qty = (Offered(rest) + list[1].qty) - list[1].qty + m.qty
          BY <1>2, <1>3, <2>2
    <3> QED BY <1>3, <2>1, <3>1, <3>2, Zenon
  <2> QED BY <1>2, <1>3, <1>5, <2>3, Zenon
<1> QED BY <1>4, <1>5

(* Exchange::place: what the pilot hands over is what the order holds. *)
LEMMA PlaceBalances ==
    ASSUME EscrowInv, PurseInv, NEW t \in Traders, NEW side \in {"Buy", "Sell"},
           NEW p \in Prices, NEW q \in Quantities, NEW rest \in BOOLEAN,
           Place(t, side, p, q, rest)
    PROVE  Balances
<1> DEFINE escrow == IF side = "Buy" THEN Worth(p, q) ELSE 0
           given == IF side = "Sell" THEN q ELSE 0
           h == Given(hangar, t, -escrow, -given)
<1>1. /\ ~InHand /\ hangar[t].credits >= escrow /\ hangar[t].goods >= given
      /\ hangar' = h /\ taker' = Order(t, side, p, q, escrow, seq + 1, rest)
      /\ UNCHANGED <<bids, asks, leaver, account, held, fees, colonyPaid, colonyTook, outside, gone>>
      BY DEF Place, Open
<1>2. escrow \in Nat /\ given \in Nat
  <2>1. p \in Nat /\ q \in Nat /\ p \in 0..p /\ 0 \in 0..q
        BY ConstantsAssumption
  <2>2. Worth(p, q) \in Nat
        BY <2>1, WorthSplits
  <2> HIDE DEF Worth
  <2> QED BY <2>1, <2>2
<1>3. taker.escrow = 0 /\ TakerGoods = 0
      BY <1>1 DEF InHand, NoOrder, Order, TakerGoods
<1>4. taker'.escrow = escrow /\ TakerGoods' = given
  <2> HIDE DEF escrow
  <2> QED BY <1>1 DEF Order, TakerGoods
<1> HIDE DEF escrow, given
<1>5. hangar \in Purses /\ account \in Purses
      BY DEF PurseInv
<1>6. /\ hangar[t].credits \in Nat /\ hangar[t].goods \in Nat
      /\ account[t].credits \in Nat /\ account[t].goods \in Nat
      BY <1>5, PurseIs
<1>7. /\ h \in Purses /\ \A u \in Traders : u # t => h[u] = hangar[u]
      /\ h[t].credits = hangar[t].credits + (-escrow) /\ h[t].goods = hangar[t].goods + (-given)
  <2>1. /\ -escrow \in Int /\ -given \in Int /\ hangar[t].credits + (-escrow) >= 0
        /\ hangar[t].goods + (-given) >= 0
        BY <1>1, <1>2, <1>6
  <2> QED BY <1>5, <2>1, GivenIs
<1> HIDE DEF h
<1>8. /\ CreditsOf(hangar, account) \in Int /\ GoodsOf(hangar, account) \in Int
      /\ CreditsOf(h, account) = CreditsOf(hangar, account)
             + (h[t].credits + account[t].credits) - (hangar[t].credits + account[t].credits)
      /\ GoodsOf(h, account) = GoodsOf(hangar, account)
             + (h[t].goods + account[t].goods) - (hangar[t].goods + account[t].goods)
      BY <1>5, <1>7, PurseChange
<1>9. /\ CreditsOf(h, account) = CreditsOf(hangar, account) - escrow
      /\ GoodsOf(h, account) = GoodsOf(hangar, account) - given
      BY <1>2, <1>6, <1>7, <1>8
<1>10. PurseInv'
       BY <1>1, <1>7 DEF PurseInv
<1>11. /\ CreditLine' = CreditsOf(h, account) + Escrowed(bids) + escrow + colonyTook + fees - colonyPaid
       /\ GoodsLine' = GoodsOf(h, account) + Offered(asks) + given + held - outside
       BY <1>1, <1>4 DEF CreditLine, GoodsLine
<1>12. /\ Escrowed(bids) \in Int /\ Offered(asks) \in Int /\ held \in Nat
       /\ fees \in Nat /\ colonyPaid \in Nat /\ colonyTook \in Nat /\ outside \in Int
       BY LineTypes DEF PurseInv
<1>13. CreditLine' = CreditLine /\ GoodsLine' = GoodsLine
       BY <1>2, <1>3, <1>8, <1>9, <1>11, <1>12 DEF CreditLine, GoodsLine
<1> QED BY <1>10, <1>13 DEF Balances

(* What a fill leaves of the order in hand. *)
LEMMA TakerLeft ==
    ASSUME EscrowInv, Matches, taker' = Filled(taker, FillQty, Value)
    PROVE  /\ taker.side \in {"Buy", "Sell"} /\ taker.escrow \in Nat /\ taker.qty \in Nat
           /\ taker.trader \in Traders /\ FillQty \in Nat /\ FillQty <= taker.qty
           /\ taker.side = "Buy" => /\ taker'.escrow = taker.escrow - Value
                                    /\ TakerGoods = 0 /\ TakerGoods' = 0
           /\ taker.side = "Sell" => /\ taker'.escrow = taker.escrow
                                     /\ TakerGoods = taker.qty
                                     /\ TakerGoods' = taker.qty - FillQty
<1>1. taker \in Orders
      BY BooksAre DEF Matches
<1>2. FillQty \in 0..taker.qty
      BY FillIs
<1> HIDE DEF Value, FillQty
<1> QED BY <1>1, <1>2, OrderIs DEF Filled, Order, TakerGoods

(* match_one with the colony: its credits for the goods, or the goods for its credits. *)
LEMMA FillColonyBalances ==
    ASSUME EscrowInv, PurseInv, FillColony
    PROVE  Balances
<1>1. /\ Matches /\ taker' = Filled(taker, FillQty, Value)
      /\ UNCHANGED <<bids, asks, leaver, hangar, outside, gone>>
      BY DEF FillColony
<1>2. /\ taker.side \in {"Buy", "Sell"} /\ taker.escrow \in Nat /\ taker.qty \in Nat
      /\ taker.trader \in Traders /\ FillQty \in Nat /\ FillQty <= taker.qty
      /\ taker.side = "Buy" => /\ taker'.escrow = taker.escrow - Value
                               /\ TakerGoods = 0 /\ TakerGoods' = 0
      /\ taker.side = "Sell" => /\ taker'.escrow = taker.escrow
                                /\ TakerGoods = taker.qty
                                /\ TakerGoods' = taker.qty - FillQty
      BY <1>1, TakerLeft
<1>3. Value \in Nat /\ Fee(Value) \in Nat /\ Value - Fee(Value) \in Nat /\ 0 \in Nat
      BY <1>1, ValueIs
<1>4. /\ Escrowed(bids) \in Int /\ Offered(asks) \in Int /\ held \in Nat
      /\ fees \in Nat /\ colonyPaid \in Nat /\ colonyTook \in Nat /\ outside \in Int
      /\ hangar \in Purses /\ account \in Purses
      BY LineTypes DEF PurseInv
<1>5. CASE taker.side = "Buy"
  <2> DEFINE a == Given(account, taker.trader, 0, FillQty)
  <2>1. /\ held' = held - FillQty /\ colonyTook' = colonyTook + Value /\ account' = a
        /\ UNCHANGED <<colonyPaid, fees>>
        BY <1>5 DEF FillColony
  <2>2. /\ a \in Purses
        /\ CreditsOf(hangar, account) \in Int /\ GoodsOf(hangar, account) \in Int
        /\ CreditsOf(hangar, a) = CreditsOf(hangar, account) + 0
        /\ GoodsOf(hangar, a) = GoodsOf(hangar, account) + FillQty
    <3>1. hangar \in Purses /\ account \in Purses /\ taker.trader \in Traders /\ FillQty \in Nat
          BY <1>2, <1>4
    <3> QED BY <3>1, OwedMore
  <2> HIDE DEF a
  <2>3. colonyTook' \in Nat
        BY <1>3, <1>4, <2>1
  <2>4. PurseInv'
        BY <1>1, <2>1, <2>2, <2>3 DEF PurseInv
  <2>5. /\ CreditLine' = CreditsOf(hangar, a) + Escrowed(bids) + (taker.escrow - Value)
                             + (colonyTook + Value) + fees - colonyPaid
        /\ GoodsLine' = GoodsOf(hangar, a) + Offered(asks) + 0 + (held - FillQty) - outside
        BY <1>1, <1>2, <1>5, <2>1 DEF CreditLine, GoodsLine
  <2>6. CreditLine' = CreditLine /\ GoodsLine' = GoodsLine
    <3> HIDE DEF Value, FillQty
    <3> QED BY <1>2, <1>3, <1>4, <1>5, <2>2, <2>5 DEF CreditLine, GoodsLine
  <2> QED BY <2>4, <2>6 DEF Balances
<1>6. CASE taker.side = "Sell"
  <2> DEFINE v == Value - Fee(Value)
             a == Given(account, taker.trader, v, 0)
  <2>1. /\ held' = held + FillQty /\ colonyPaid' = colonyPaid + Value /\ fees' = fees + Fee(Value)
        /\ account' = a /\ UNCHANGED colonyTook
        BY <1>6 DEF FillColony
  <2>2. /\ a \in Purses
        /\ CreditsOf(hangar, account) \in Int /\ GoodsOf(hangar, account) \in Int
        /\ CreditsOf(hangar, a) = CreditsOf(hangar, account) + v
        /\ GoodsOf(hangar, a) = GoodsOf(hangar, account) + 0
    <3>1. hangar \in Purses /\ account \in Purses /\ taker.trader \in Traders /\ v \in Nat
          BY <1>2, <1>3, <1>4
    <3> HIDE DEF v
    <3> QED BY <3>1, OwedMore
  <2> HIDE DEF a
  <2>3. colonyPaid' \in Nat /\ fees' \in Nat
        BY <1>3, <1>4, <2>1
  <2>4. PurseInv'
        BY <1>1, <2>1, <2>2, <2>3 DEF PurseInv
  <2>5. /\ CreditLine' = CreditsOf(hangar, a) + Escrowed(bids) + taker.escrow
                             + colonyTook + (fees + Fee(Value)) - (colonyPaid + Value)
        /\ GoodsLine' = GoodsOf(hangar, a) + Offered(asks) + (taker.qty - FillQty)
                            + (held + FillQty) - outside
        BY <1>1, <1>2, <1>6, <2>1 DEF CreditLine, GoodsLine
  <2>6. CreditLine' = CreditLine /\ GoodsLine' = GoodsLine
    <3> HIDE DEF Value, FillQty
    <3> QED BY <1>2, <1>3, <1>4, <1>6, <2>2, <2>5 DEF CreditLine, GoodsLine
  <2> QED BY <2>4, <2>6 DEF Balances
<1> QED BY <1>2, <1>5, <1>6

(* match_one with a resting order.  What the buyer's escrow pays goes to the seller and the
   fees, and a bid that is filled gives its change back: the goods go the other way. *)
LEMMA FillMakerBalances ==
    ASSUME EscrowInv, EscrowInv', PurseInv, FillMaker
    PROVE  Balances
<1> DEFINE buyer == IF taker.side = "Buy" THEN taker.trader ELSE Maker.trader
           seller == IF taker.side = "Buy" THEN Maker.trader ELSE taker.trader
           v == Value - Fee(Value)
           c == Change(Maker)
           a1 == Given(account, buyer, c, FillQty)
           a2 == Given(a1, seller, v, 0)
<1>1. /\ Matches /\ taker' = Filled(taker, FillQty, Value) /\ fees' = fees + Fee(Value)
      /\ account' = a2
      /\ UNCHANGED <<leaver, hangar, held, colonyPaid, colonyTook, outside, gone>>
      BY DEF FillMaker, Maker
<1>2. /\ taker.side \in {"Buy", "Sell"} /\ taker.escrow \in Nat /\ taker.qty \in Nat
      /\ taker.trader \in Traders /\ FillQty \in Nat /\ FillQty <= taker.qty
      /\ taker.side = "Buy" => /\ taker'.escrow = taker.escrow - Value
                               /\ TakerGoods = 0 /\ TakerGoods' = 0
      /\ taker.side = "Sell" => /\ taker'.escrow = taker.escrow
                                /\ TakerGoods = taker.qty
                                /\ TakerGoods' = taker.qty - FillQty
      BY <1>1, TakerLeft
<1>3. Value \in Nat /\ Fee(Value) \in Nat /\ v \in Nat
      BY <1>1, ValueIs
<1>4. /\ Escrowed(bids) \in Int /\ Offered(asks) \in Int /\ held \in Nat
      /\ fees \in Nat /\ colonyPaid \in Nat /\ colonyTook \in Nat /\ outside \in Int
      /\ hangar \in Purses /\ account \in Purses
      BY LineTypes DEF PurseInv
<1>5. Maker \in Orders /\ Others[1] \in Orders /\ Like(Others[1], Maker)
      BY MakerIs
<1>6. /\ Maker.trader \in Traders /\ Maker.escrow \in Nat /\ Maker.qty \in Nat
      /\ buyer \in Traders /\ seller \in Traders
      BY <1>2, <1>5, OrderIs
<1>7. c \in Nat
      BY <1>6 DEF Change
<1>8. /\ Maker.qty = Others[1].qty - FillQty /\ Maker.side = Others[1].side
      /\ Others[1].side = "Buy" => Maker.escrow = Others[1].escrow - Value
      /\ Others[1].escrow \in Nat /\ Others[1].qty \in Nat
  <2>1. Others[1].escrow \in Nat /\ Others[1].qty \in Nat
        BY <1>5, OrderIs
  <2> HIDE DEF Value, FillQty
  <2> QED BY <2>1 DEF Maker, Filled, Order
<1> HIDE DEF v, c, buyer, seller
<1>9. /\ a1 \in Purses
      /\ CreditsOf(hangar, account) \in Int /\ GoodsOf(hangar, account) \in Int
      /\ CreditsOf(hangar, a1) = CreditsOf(hangar, account) + c
      /\ GoodsOf(hangar, a1) = GoodsOf(hangar, account) + FillQty
  <2>1. /\ hangar \in Purses /\ account \in Purses /\ FillQty \in Nat
        /\ buyer \in Traders /\ c \in Nat
        BY <1>2, <1>4, <1>6, <1>7
  <2> QED BY <2>1, OwedMore
<1> HIDE DEF a1
<1>10. /\ a2 \in Purses
       /\ CreditsOf(hangar, a2) = CreditsOf(hangar, a1) + v
       /\ GoodsOf(hangar, a2) = GoodsOf(hangar, a1) + 0
  <2>1. hangar \in Purses /\ v \in Nat /\ seller \in Traders /\ a1 \in Purses
        BY <1>3, <1>4, <1>6, <1>9
  <2> QED BY <2>1, OwedMore
<1> HIDE DEF a2
<1>11. /\ CreditsOf(hangar, a2) = CreditsOf(hangar, account) + c + Value - Fee(Value)
       /\ GoodsOf(hangar, a2) = GoodsOf(hangar, account) + FillQty
  <2> HIDE DEF Value
  <2> QED BY <1>2, <1>3, <1>7, <1>9, <1>10 DEF v
<1>12. fees' \in Nat
       BY <1>1, <1>3, <1>4
<1>13. PurseInv'
       BY <1>1, <1>10, <1>12 DEF PurseInv
<1>14. /\ bids \in Seq(Orders) /\ asks \in Seq(Orders)
       /\ bids' \in Seq(Orders) /\ asks' \in Seq(Orders)
       BY BooksAre DEF EscrowInv, WaitingBuys, WaitingSells, BuyOrders, SellOrders
<1>15. /\ CreditLine' = CreditsOf(hangar, a2) + Escrowed(bids') + taker'.escrow
                            + colonyTook + (fees + Fee(Value)) - colonyPaid
       /\ GoodsLine' = GoodsOf(hangar, a2) + Offered(asks') + TakerGoods' + held - outside
       BY <1>1 DEF CreditLine, GoodsLine
<1>16. CASE taker.side = "Buy"
  <2>1. Others = asks /\ Others[1].side = "Sell" /\ Fills(asks, asks', Maker) /\ bids' = bids
        BY <1>16, MakerIs
  <2>2. Offered(asks') = Offered(asks) - Others[1].qty + Maker.qty
        BY <1>5, <1>14, <2>1, FillsAdds
  <2>3. c = 0 /\ Escrowed(bids') = Escrowed(bids)
        BY <1>8, <2>1 DEF c, Change
  <2>4. Offered(asks') = Offered(asks) - FillQty
    <3> HIDE DEF FillQty
    <3> QED BY <1>2, <1>4, <1>8, <2>2
  <2>5. CreditLine' = CreditLine /\ GoodsLine' = GoodsLine
    <3> HIDE DEF Value, FillQty
    <3> QED BY <1>2, <1>3, <1>4, <1>9, <1>11, <1>15, <1>16, <2>3, <2>4 DEF CreditLine, GoodsLine
  <2> QED BY <1>13, <2>5 DEF Balances
<1>17. CASE taker.side = "Sell"
  <2>1. Others = bids /\ Others[1].side = "Buy" /\ Fills(bids, bids', Maker) /\ asks' = asks
        BY <1>17, MakerIs
  <2>2. /\ Maker.qty = 0 => Escrowed(bids') = Escrowed(bids) - Others[1].escrow
        /\ Maker.qty # 0 => Escrowed(bids') = Escrowed(bids) - Others[1].escrow + Maker.escrow
        BY <1>5, <1>14, <2>1, FillsAdds
  <2>3. /\ Maker.qty = 0 => c = Maker.escrow
        /\ Maker.qty # 0 => c = 0
        /\ Offered(asks') = Offered(asks)
        BY <1>8, <2>1 DEF c, Change
  <2>4. Escrowed(bids') + c = Escrowed(bids) - Value /\ Escrowed(bids') \in Int
    <3> HIDE DEF Value
    <3>1. Maker.escrow = Others[1].escrow - Value
          BY <1>8, <2>1
    <3>2. CASE Maker.qty = 0
          BY <1>3, <1>4, <1>6, <1>8, <2>2, <2>3, <3>1, <3>2
    <3>3. CASE Maker.qty # 0
          BY <1>3, <1>4, <1>6, <1>8, <2>2, <2>3, <3>1, <3>3
    <3> QED BY <3>2, <3>3
  <2>5. CreditLine' = CreditLine /\ GoodsLine' = GoodsLine
    <3> HIDE DEF Value, FillQty
    <3> QED BY <1>2, <1>3, <1>4, <1>7, <1>9, <1>11, <1>15, <1>17, <2>3, <2>4 DEF CreditLine, GoodsLine
  <2> QED BY <1>13, <2>5 DEF Balances
<1> QED BY <1>2, <1>16, <1>17

(* Nothing more crosses: what is left waits, or is handed back. *)
LEMMA PlacedBalances ==
    ASSUME EscrowInv, EscrowInv', PurseInv, Placed
    PROVE  Balances
<1>1. /\ InHand /\ taker' = NoOrder
      /\ UNCHANGED <<leaver, held, fees, colonyPaid, colonyTook, outside, gone>>
      BY DEF Placed
<1>2. /\ taker \in Orders /\ taker.trader \in Traders /\ taker.side \in {"Buy", "Sell"}
      /\ taker.escrow \in Nat /\ taker.qty \in Nat
      BY <1>1, BooksAre, OrderIs
<1>3. taker.side = "Sell" => taker.escrow = 0
      BY <1>1 DEF EscrowInv, InHand, BuyOrders, SellOrders
<1>4. taker'.escrow = 0 /\ TakerGoods' = 0
      BY <1>1 DEF NoOrder, Order, TakerGoods
<1>5. /\ Escrowed(bids) \in Int /\ Offered(asks) \in Int /\ held \in Nat
      /\ fees \in Nat /\ colonyPaid \in Nat /\ colonyTook \in Nat /\ outside \in Int
      /\ hangar \in Purses /\ account \in Purses
      BY LineTypes DEF PurseInv
<1>6. /\ bids \in Seq(Orders) /\ asks \in Seq(Orders)
      /\ bids' \in Seq(Orders) /\ asks' \in Seq(Orders)
      BY BooksAre DEF EscrowInv, WaitingBuys, WaitingSells, BuyOrders, SellOrders
<1>7. /\ Owed(taker).credits = taker.escrow /\ Owed(taker).goods = TakerGoods
      BY <1>2, <1>3 DEF Owed, TakerGoods
<1>8. /\ CreditLine' = CreditsOf(hangar', account') + Escrowed(bids') + 0 + colonyTook + fees - colonyPaid
      /\ GoodsLine' = GoodsOf(hangar', account') + Offered(asks') + 0 + held - outside
      BY <1>1, <1>4 DEF CreditLine, GoodsLine
<1>9. CASE Rests
  <2>1. Collected(account, taker.trader)
        BY <1>9 DEF Rests, Placed
  <2>2. hangar' \in Purses /\ account' \in Purses
        BY <1>2, <1>5, <2>1, CollectedIs
  <2>3. /\ CreditsOf(hangar', account') = CreditsOf(hangar, account)
        /\ GoodsOf(hangar', account') = GoodsOf(hangar, account)
        BY <1>2, <1>5, <2>1, CollectedSame
  <2>4. CreditsOf(hangar, account) \in Int /\ GoodsOf(hangar, account) \in Int
        BY <1>2, <1>5, OwedMore
  <2>5. Escrowed(bids') = Escrowed(bids) + taker.escrow /\ Offered(asks') = Offered(asks) + TakerGoods
    <3>1. CASE taker.side = "Buy"
      <4>1. PICK k : PutIn(bids, bids', k, taker) /\ asks' = asks
            BY <1>9, <3>1, RestsIs
      <4>2. Escrowed(bids') = Escrowed(bids) + taker.escrow
            BY <1>6, <4>1, WaitsPutIn
      <4>3. Offered(asks') = Offered(asks) + TakerGoods
            BY <1>5, <3>1, <4>1 DEF TakerGoods
      <4> QED BY <4>2, <4>3
    <3>2. CASE taker.side = "Sell"
      <4>1. PICK k : PutIn(asks, asks', k, taker) /\ bids' = bids
            BY <1>9, <3>2, RestsIs
      <4>2. Offered(asks') = Offered(asks) + taker.qty
            BY <1>6, <4>1, WaitsPutIn
      <4>3. Escrowed(bids') = Escrowed(bids) + taker.escrow
            BY <1>3, <1>5, <3>2, <4>1
      <4> QED BY <3>2, <4>2, <4>3 DEF TakerGoods
    <3> QED BY <1>2, <3>1, <3>2
  <2>6. TakerGoods \in Nat
        BY LineTypes
  <2>7. CreditLine' = CreditLine /\ GoodsLine' = GoodsLine
        BY <1>2, <1>5, <1>8, <2>3, <2>4, <2>5, <2>6 DEF CreditLine, GoodsLine
  <2> QED BY <1>1, <2>2, <2>7 DEF Balances, PurseInv
<1>10. CASE ~Rests
  <2> DEFINE a == HandedBack(account, taker)
  <2>1. Collected(a, taker.trader) /\ bids' = bids /\ asks' = asks
        BY <1>10 DEF Rests, Placed, book
  <2>2. /\ a \in Purses
        /\ CreditsOf(hangar, account) \in Int /\ GoodsOf(hangar, account) \in Int
        /\ CreditsOf(hangar, a) = CreditsOf(hangar, account) + taker.escrow
        /\ GoodsOf(hangar, a) = GoodsOf(hangar, account) + TakerGoods
        BY <1>2, <1>5, <1>7, HandedBackAdds
  <2> HIDE DEF a
  <2>3. hangar' \in Purses /\ account' \in Purses
        BY <1>2, <1>5, <2>1, <2>2, CollectedIs
  <2>4. /\ CreditsOf(hangar', account') = CreditsOf(hangar, a)
        /\ GoodsOf(hangar', account') = GoodsOf(hangar, a)
        BY <1>2, <1>5, <2>1, <2>2, CollectedSame
  <2>5. TakerGoods \in Nat /\ Escrowed(bids') = Escrowed(bids) /\ Offered(asks') = Offered(asks)
        BY <2>1, LineTypes
  <2>6. CreditLine' = CreditLine /\ GoodsLine' = GoodsLine
        BY <1>2, <1>5, <1>8, <2>2, <2>4, <2>5 DEF CreditLine, GoodsLine
  <2> QED BY <1>1, <2>3, <2>6 DEF Balances, PurseInv
<1> QED BY <1>9, <1>10

(* An order taken out, and what it held owed to whoever's it was. *)
LEMMA WithoutAdds ==
    ASSUME EscrowInv, EscrowInv', PurseInv, NEW list \in {bids, asks}, NEW i \in DOMAIN list,
           Without(list, i), NEW a, a = HandedBack(account, list[i])
    PROVE  /\ a \in Purses /\ list[i].trader \in Traders
           /\ CreditsOf(hangar, a) + Escrowed(bids') = CreditsOf(hangar, account) + Escrowed(bids)
           /\ GoodsOf(hangar, a) + Offered(asks') = GoodsOf(hangar, account) + Offered(asks)
           /\ CreditsOf(hangar, a) \in Int /\ GoodsOf(hangar, a) \in Int
           /\ Escrowed(bids') \in Int /\ Offered(asks') \in Int
<1> DEFINE o == list[i]
<1>1. /\ bids \in Seq(Orders) /\ asks \in Seq(Orders)
      /\ bids' \in Seq(Orders) /\ asks' \in Seq(Orders)
      BY BooksAre DEF EscrowInv, WaitingBuys, WaitingSells, BuyOrders, SellOrders
<1>2. o \in Orders /\ o.trader \in Traders /\ o.escrow \in Nat /\ o.qty \in Nat
      BY WithoutIs, OrderIs
<1>3. hangar \in Purses /\ account \in Purses /\ Escrowed(bids) \in Int /\ Offered(asks) \in Int
      BY LineTypes DEF PurseInv
<1>4. /\ \/ list = bids /\ o.side = "Buy" /\ PutIn(bids', bids, i, o) /\ asks' = asks
         \/ list = asks /\ o.side = "Sell" /\ PutIn(asks', asks, i, o) /\ bids' = bids
      BY WithoutIs
<1> HIDE DEF o
<1>5. /\ a \in Purses
      /\ CreditsOf(hangar, account) \in Int /\ GoodsOf(hangar, account) \in Int
      /\ Owed(o).credits \in Nat /\ Owed(o).goods \in Nat
      /\ CreditsOf(hangar, a) = CreditsOf(hangar, account) + Owed(o).credits
      /\ GoodsOf(hangar, a) = GoodsOf(hangar, account) + Owed(o).goods
  <2>1. a = HandedBack(account, o)
        BY DEF o
  <2> QED BY <1>2, <1>3, <2>1, HandedBackAdds
<1>6. /\ Escrowed(bids') \in Int /\ Offered(asks') \in Int
      /\ Escrowed(bids) = Escrowed(bids') + Owed(o).credits
      /\ Offered(asks) = Offered(asks') + Owed(o).goods
  <2>1. CASE list = bids /\ o.side = "Buy" /\ PutIn(bids', bids, i, o) /\ asks' = asks
    <3>1. Owed(o).credits = o.escrow /\ Owed(o).goods = 0
          BY <2>1 DEF Owed
    <3>2. Escrowed(bids') \in Int /\ Escrowed(bids) = Escrowed(bids') + o.escrow
          BY <1>1, <2>1, WaitsPutIn
    <3>3. Offered(asks') = Offered(asks)
          BY <2>1
    <3> QED BY <1>3, <3>1, <3>2, <3>3
  <2>2. CASE list = asks /\ o.side = "Sell" /\ PutIn(asks', asks, i, o) /\ bids' = bids
    <3>1. Owed(o).credits = 0 /\ Owed(o).goods = o.qty
          BY <2>2 DEF Owed
    <3>2. Offered(asks') \in Int /\ Offered(asks) = Offered(asks') + o.qty
          BY <1>1, <2>2, WaitsPutIn
    <3>3. Escrowed(bids') = Escrowed(bids)
          BY <2>2
    <3> QED BY <1>3, <3>1, <3>2, <3>3
  <2> QED BY <1>4, <2>1, <2>2
<1>7. /\ CreditsOf(hangar, a) + Escrowed(bids') = CreditsOf(hangar, account) + Escrowed(bids)
      /\ GoodsOf(hangar, a) + Offered(asks') = GoodsOf(hangar, account) + Offered(asks)
      /\ CreditsOf(hangar, a) \in Int /\ GoodsOf(hangar, a) \in Int
      BY <1>3, <1>5, <1>6
<1> QED BY <1>2, <1>5, <1>6, <1>7 DEF o

(* Request::CancelOrder, and each of a leaving guest's orders. *)
LEMMA CancelBalances ==
    ASSUME EscrowInv, EscrowInv', PurseInv, NEW list \in {bids, asks},
           (\E t \in Traders : Cancel(t, list)) \/ CancelNext(list)
    PROVE  Balances
<1>1. /\ hangar \in Purses /\ account \in Purses
      /\ Escrowed(bids) \in Int /\ Offered(asks) \in Int /\ taker.escrow \in Nat /\ TakerGoods \in Nat
      /\ held \in Nat /\ fees \in Nat /\ colonyPaid \in Nat /\ colonyTook \in Nat /\ outside \in Int
      BY LineTypes DEF PurseInv
<1>2. UNCHANGED <<taker, leaver, held, fees, colonyPaid, colonyTook, outside, gone>>
      BY DEF Cancel, CancelNext
<1>3. TakerGoods' = TakerGoods
      BY <1>2 DEF TakerGoods
<1>4. PICK i \in DOMAIN list :
          /\ Without(list, i)
          /\ \/ \E t \in Traders : Collected(HandedBack(account, list[i]), t)
             \/ account' = HandedBack(account, list[i]) /\ hangar' = hangar
      BY DEF Cancel, CancelNext, Theirs
<1> DEFINE a == HandedBack(account, list[i])
<1>5. /\ a \in Purses /\ list[i].trader \in Traders
      /\ CreditsOf(hangar, a) + Escrowed(bids') = CreditsOf(hangar, account) + Escrowed(bids)
      /\ GoodsOf(hangar, a) + Offered(asks') = GoodsOf(hangar, account) + Offered(asks)
      /\ CreditsOf(hangar, a) \in Int /\ GoodsOf(hangar, a) \in Int
      /\ Escrowed(bids') \in Int /\ Offered(asks') \in Int
      BY <1>4, WithoutAdds
<1>6. CreditsOf(hangar, account) \in Int /\ GoodsOf(hangar, account) \in Int
      BY <1>1, <1>5, OwedMore
<1>7. /\ hangar' \in Purses /\ account' \in Purses
      /\ CreditsOf(hangar', account') = CreditsOf(hangar, a)
      /\ GoodsOf(hangar', account') = GoodsOf(hangar, a)
  <2> HIDE DEF a
  <2>1. CASE \E t \in Traders : Collected(a, t)
    <3>1. PICK t \in Traders : Collected(a, t)
          BY <2>1
    <3> QED BY <1>1, <1>5, <3>1, CollectedIs, CollectedSame
  <2>2. CASE account' = a /\ hangar' = hangar
        BY <1>1, <1>5, <2>2
  <2> QED BY <1>4, <2>1, <2>2 DEF a
<1>8. PurseInv'
      BY <1>2, <1>7 DEF PurseInv
<1>9. /\ CreditLine' = CreditsOf(hangar, a) + Escrowed(bids') + taker.escrow + colonyTook + fees - colonyPaid
      /\ GoodsLine' = GoodsOf(hangar, a) + Offered(asks') + TakerGoods + held - outside
  <2> HIDE DEF a
  <2> QED BY <1>2, <1>3, <1>7 DEF CreditLine, GoodsLine
<1> HIDE DEF a
<1>10. CreditLine' = CreditLine /\ GoodsLine' = GoodsLine
       BY <1>1, <1>5, <1>6, <1>9 DEF CreditLine, GoodsLine
<1> QED BY <1>8, <1>10 DEF Balances

(* Session::settle, and the end of a guest's leaving: nothing but a collect. *)
LEMMA CollectBalances ==
    ASSUME EscrowInv, PurseInv, (\E t \in Traders : Collect(t)) \/ Left
    PROVE  Balances
<1>1. PICK t \in Traders : Collected(account, t)
      BY DEF Collect, Left, PurseInv
<1>2. /\ UNCHANGED <<bids, asks, taker, held, fees, colonyPaid, colonyTook, outside>>
      /\ gone' \subseteq Traders /\ leaver' \in Traders \cup {NoTrader}
      BY DEF Collect, Left, PurseInv
<1>3. /\ hangar' \in Purses /\ account' \in Purses
      /\ CreditsOf(hangar', account') = CreditsOf(hangar, account)
      /\ GoodsOf(hangar', account') = GoodsOf(hangar, account)
      BY <1>1, CollectedIs, CollectedSame DEF PurseInv
<1>4. TakerGoods' = TakerGoods
      BY <1>2 DEF TakerGoods
<1>5. CreditLine' = CreditLine /\ GoodsLine' = GoodsLine
      BY <1>2, <1>3, <1>4 DEF CreditLine, GoodsLine
<1> QED BY <1>2, <1>3, <1>5 DEF Balances, PurseInv

(* What the colony imports, uses up, receives and hands out is what `outside` counts. *)
LEMMA StockBalances ==
    ASSUME EscrowInv, PurseInv,
           \/ Settle \/ (\E q \in Quantities : Receive(q) \/ Issue(q))
           \/ (\E t \in Traders : GuestLeaves(t)) \/ UNCHANGED vars
    PROVE  Balances
<1>1. /\ held \in Nat /\ outside \in Int /\ Target \in Nat /\ Quantities \subseteq Nat
      BY ConstantsAssumption DEF PurseInv, EscrowInv
<1>2. held' \in Int /\ outside' \in Int /\ held' - outside' = held - outside
  <2>1. CASE Settle
        BY <1>1, <2>1 DEF Settle
  <2>2. ASSUME NEW q \in Quantities, Receive(q) \/ Issue(q)
        PROVE  held' \in Int /\ outside' \in Int /\ held' - outside' = held - outside
        BY <1>1, <2>2 DEF Receive, Issue
  <2>3. CASE (\E t \in Traders : GuestLeaves(t)) \/ UNCHANGED vars
        BY <1>1, <2>3 DEF GuestLeaves, vars
  <2> QED BY <2>1, <2>2, <2>3
<1>3. /\ UNCHANGED <<bids, asks, taker, account, hangar, fees, colonyPaid, colonyTook, gone>>
      /\ leaver' \in Traders \cup {NoTrader}
  <2>1. CASE Settle \/ \E q \in Quantities : Receive(q) \/ Issue(q)
        BY <2>1 DEF Settle, Receive, Issue, PurseInv
  <2>2. CASE (\E t \in Traders : GuestLeaves(t)) \/ UNCHANGED vars
        BY <2>2 DEF GuestLeaves, vars, PurseInv
  <2> QED BY <2>1, <2>2
<1>4. PurseInv'
      BY <1>2, <1>3 DEF PurseInv
<1>5. TakerGoods' = TakerGoods
      BY <1>3 DEF TakerGoods
<1>6. CreditLine' = CreditLine
      BY <1>3 DEF CreditLine
<1>7. GoodsLine' = GoodsLine
  <2> DEFINE g == GoodsOf(hangar, account)
             w == Offered(asks)
  <2>1. g' = g /\ w' = w
        BY <1>3
  <2>2. TakerGoods \in Nat /\ w \in Int
        BY LineTypes
  <2>3. g \in Int
        BY OwnedType DEF PurseInv
  <2> HIDE DEF g, w
  <2>4. ASSUME NEW h \in Int, NEW x \in Int, NEW h2 \in Int, NEW x2 \in Int, h2 - x2 = h - x
        PROVE  g + w + TakerGoods + h2 - x2 = g + w + TakerGoods + h - x
        BY <2>2, <2>3, <2>4
  <2>5. g + w + TakerGoods + held' - outside' = g + w + TakerGoods + held - outside
        BY <1>1, <1>2, <2>4
  <2>6. GoodsLine' = g' + w' + TakerGoods' + held' - outside'
        BY DEF GoodsLine, g, w
  <2> QED BY <1>5, <2>1, <2>5, <2>6 DEF GoodsLine, g, w
<1> QED BY <1>4, <1>6, <1>7 DEF Balances

LEMMA StepBalances ==
    ASSUME EscrowInv, EscrowInv', PurseInv, [Next]_vars
    PROVE  Balances
<1>1. CASE \E t \in Traders, side \in {"Buy", "Sell"}, p \in Prices, q \in Quantities,
              rest \in BOOLEAN : Place(t, side, p, q, rest)
      BY <1>1, PlaceBalances
<1>2. CASE FillColony \/ FillMaker \/ Placed
      BY <1>2, FillColonyBalances, FillMakerBalances, PlacedBalances
<1>3. ASSUME NEW t \in Traders, Cancel(t, bids) \/ Cancel(t, asks)
      PROVE  Balances
      BY <1>3, CancelBalances
<1>4. CASE CancelNext(bids) \/ CancelNext(asks)
      BY <1>4, CancelBalances
<1>5. CASE (\E t \in Traders : Collect(t)) \/ Left
      BY <1>5, CollectBalances
<1>6. CASE \/ Settle \/ (\E q \in Quantities : Receive(q) \/ Issue(q))
           \/ (\E t \in Traders : GuestLeaves(t)) \/ UNCHANGED vars
      BY <1>6, StockBalances
<1> QED BY <1>1, <1>2, <1>3, <1>4, <1>5, <1>6 DEF Next

(* The ledger: the lines are what they were at the start. *)
Ledger ==
    /\ CreditLine = Cardinality(Traders) * Credits
    /\ GoodsLine = Cardinality(Traders) * Goods + Target

LEMMA LedgerInit == Init => PurseInv /\ Ledger
<1> SUFFICES ASSUME Init PROVE PurseInv /\ Ledger
    OBVIOUS
<1>1. /\ IsFiniteSet(Traders) /\ Credits \in Nat /\ Goods \in Nat /\ Target \in Nat
      /\ Cardinality(Traders) \in Nat
      BY ConstantsAssumption, FS_CardinalityType
<1>2. PurseInv
      BY <1>1 DEF Init, PurseInv, Purses, Nothing
<1>3. CreditsOf(hangar, account) = Cardinality(Traders) * Credits
  <2> DEFINE c == [t \in Traders |-> hangar[t].credits + account[t].credits]
  <2>1. DOMAIN c = Traders /\ \A t \in Traders : c[t] = Credits
        BY <1>1 DEF Init, Nothing
  <2>2. CreditsOf(hangar, account) = SumFunctionOnSet(c, Traders)
        BY <2>1, Zenon DEF CreditsOf, SumFunction
  <2> HIDE DEF c
  <2>3. SumFunctionOnSet(c, Traders) = Cardinality(Traders) * Credits
        BY <1>1, <2>1, SumConstant
  <2> QED BY <2>2, <2>3
<1>4. GoodsOf(hangar, account) = Cardinality(Traders) * Goods
  <2> DEFINE g == [t \in Traders |-> hangar[t].goods + account[t].goods]
  <2>1. DOMAIN g = Traders /\ \A t \in Traders : g[t] = Goods
        BY <1>1 DEF Init, Nothing
  <2>2. GoodsOf(hangar, account) = SumFunctionOnSet(g, Traders)
        BY <2>1, Zenon DEF GoodsOf, SumFunction
  <2> HIDE DEF g
  <2>3. SumFunctionOnSet(g, Traders) = Cardinality(Traders) * Goods
        BY <1>1, <2>1, SumConstant
  <2> QED BY <2>2, <2>3
<1>5. Escrowed(bids) = 0 /\ Offered(asks) = 0
  <2> DEFINE e == [i \in DOMAIN bids |-> bids[i].escrow]
             q == [i \in DOMAIN asks |-> asks[i].qty]
  <2>1. DOMAIN e = {} /\ DOMAIN q = {}
        BY DEF Init
  <2>2. Escrowed(bids) = SumFunctionOnSet(e, {}) /\ Offered(asks) = SumFunctionOnSet(q, {})
        BY <2>1, Zenon DEF Escrowed, Offered, SumFunction
  <2> QED BY <2>2, SumEmpty
<1>6. /\ taker.escrow = 0 /\ TakerGoods = 0 /\ held = Target
      /\ fees = 0 /\ colonyPaid = 0 /\ colonyTook = 0 /\ outside = 0
      BY DEF Init, NoOrder, Order, TakerGoods
<1>7. CreditsOf(hangar, account) \in Int /\ GoodsOf(hangar, account) \in Int
      BY <1>2, OwnedType DEF PurseInv
<1>8. /\ CreditLine = CreditsOf(hangar, account)
      /\ GoodsLine = GoodsOf(hangar, account) + Target
      BY <1>1, <1>5, <1>6, <1>7 DEF CreditLine, GoodsLine
<1> QED BY <1>2, <1>3, <1>4, <1>8 DEF Ledger

LEMMA LedgerHolds == Spec => [](EscrowInv /\ PurseInv /\ Ledger)
<1>1. EscrowInv /\ EscrowInv' /\ PurseInv /\ Ledger /\ [Next]_vars => PurseInv' /\ Ledger'
  <2> SUFFICES ASSUME EscrowInv, EscrowInv', PurseInv, Ledger, [Next]_vars
               PROVE  PurseInv' /\ Ledger'
      OBVIOUS
  <2>1. Balances
        BY StepBalances
  <2> QED BY <2>1 DEF Balances, Ledger
<1> QED BY <1>1, EscrowInvHolds, LedgerInit, PTL DEF Spec

(* No amount of the exchange's goes below 0 (they are unsigned in the code): not an order's
   escrow or what is left of it, not what a pilot has or is owed, not the colony's stock; no
   order with nothing left waits in a book. *)
THEOREM AmountsStayWhole == Spec => []TypeOK
<1>1. EscrowInv /\ PurseInv => TypeOK
  <2> SUFFICES ASSUME EscrowInv, PurseInv PROVE TypeOK
      OBVIOUS
  <2>1. taker \in Orders \cup {NoOrder}
        BY DEF EscrowInv, BuyOrders, SellOrders
  <2> QED BY <2>1, BooksAre DEF TypeOK, PurseInv, EscrowInv
<1> QED BY <1>1, LedgerHolds, PTL

(* Credits and goods are neither made nor lost, for any number of pilots, orders and fills,
   whatever the rounding: what they have, are owed and have in the book adds up, between any
   two fills, to what they began with and what the colony brought in and took. *)
THEOREM NothingMadeOrLost == Spec => []Conserved
<1>1. EscrowInv /\ PurseInv /\ Ledger => Conserved
  <2> SUFFICES ASSUME EscrowInv, PurseInv, Ledger PROVE Conserved
      OBVIOUS
  <2> DEFINE c == CreditsOf(hangar, account)
             g == GoodsOf(hangar, account)
             e == Escrowed(bids)
             w == Offered(asks)
             m == Cardinality(Traders) * Credits
             n == Cardinality(Traders) * Goods
  <2>1. c \in Int /\ g \in Int
        BY OwnedType DEF PurseInv
  <2>2. /\ e \in Int /\ w \in Int /\ taker.escrow \in Nat /\ TakerGoods \in Nat /\ held \in Nat
        /\ fees \in Nat /\ colonyPaid \in Nat /\ colonyTook \in Nat /\ outside \in Int
        BY LineTypes DEF PurseInv
  <2>3. Target \in Nat /\ m \in Nat /\ n \in Nat
    <3>1. Cardinality(Traders) \in Nat /\ Credits \in Nat /\ Goods \in Nat /\ Target \in Nat
          BY ConstantsAssumption, FS_CardinalityType
    <3> QED BY <3>1
  <2>4. c + e + taker.escrow + colonyTook + fees - colonyPaid = m
        BY DEF Ledger, CreditLine
  <2>5. g + w + TakerGoods + held - outside = n + Target
        BY DEF Ledger, GoodsLine
  <2> HIDE DEF c, g, e, w, m, n
  <2>6. c + e + taker.escrow + colonyTook + fees = m + colonyPaid
        BY <2>1, <2>2, <2>3, <2>4
  <2>7. g + w + TakerGoods + held = n + Target + outside
        BY <2>1, <2>2, <2>3, <2>5
  <2>8. CreditsConserved
        BY <2>6 DEF CreditsConserved, c, e, m, CreditsOf
  <2>9. GoodsConserved
        BY <2>7 DEF GoodsConserved, g, w, n, GoodsOf, TakerGoods
  <2> QED BY <2>8, <2>9 DEF Conserved
<1> QED BY <1>1, LedgerHolds, PTL

-----------------------------------------------------------------------------
(* What GuestsLeaveNothing needs to be inductive: nothing is placed while a guest leaves. *)
NoneOf(list) == \A i \in DOMAIN list : list[i].trader \notin gone
GuestInv ==
    /\ NoneOf(bids) /\ NoneOf(asks)
    /\ InHand => taker.trader \notin gone /\ leaver = NoTrader
    /\ leaver \notin gone
    /\ \A t \in gone : account[t] = Nothing

LEMMA NobodysOrders ==
    ASSUME NEW list \in Seq(Orders), NEW t
    PROVE  Cardinality(Theirs(list, t)) = 0 <=> \A i \in DOMAIN list : list[i].trader # t
<1>1. IsFiniteSet(Theirs(list, t))
      BY TheirsFinite
<1>2. Theirs(list, t) = {} <=> \A i \in DOMAIN list : list[i].trader # t
      BY DEF Theirs
<1> QED BY <1>1, <1>2, FS_EmptySet

LEMMA NoOrdersOf ==
    ASSUME EscrowInv, NEW t
    PROVE  OrdersOf(t) = 0 <=> /\ \A i \in DOMAIN bids : bids[i].trader # t
                               /\ \A i \in DOMAIN asks : asks[i].trader # t
<1>1. bids \in Seq(Orders) /\ asks \in Seq(Orders)
      BY BooksAre
<1>2. Cardinality(Theirs(bids, t)) \in Nat /\ Cardinality(Theirs(asks, t)) \in Nat
      BY <1>1, TheirsFinite
<1>3. OrdersOf(t) = 0 <=> Cardinality(Theirs(bids, t)) = 0 /\ Cardinality(Theirs(asks, t)) = 0
      BY <1>2 DEF OrdersOf
<1> QED BY <1>1, <1>3, NobodysOrders

(* The orders of a step's books are orders there were, or the one that comes to rest. *)
LEMMA StillNoneOf ==
    ASSUME EscrowInv, EscrowInv', GuestInv, [Next]_vars
    PROVE  /\ \A i \in DOMAIN bids' : bids'[i].trader \notin gone
           /\ \A i \in DOMAIN asks' : asks'[i].trader \notin gone
<1>1. CASE ~Rests
  <2>1. Keeps(bids, bids') /\ Keeps(asks, asks')
        BY <1>1, StepKeeps
  <2> QED BY <2>1 DEF Keeps, Like, GuestInv, NoneOf
<1>2. CASE Rests
  <2>1. /\ bids \in Seq(Orders) /\ asks \in Seq(Orders)
        /\ bids' \in Seq(Orders) /\ asks' \in Seq(Orders)
        BY BooksAre DEF EscrowInv, WaitingBuys, WaitingSells, BuyOrders, SellOrders
  <2>2. taker.trader \notin gone
        BY <1>2, RestsIs DEF GuestInv
  <2>3. CASE taker.side = "Buy"
    <3>1. PICK k : PutIn(bids, bids', k, taker) /\ asks' = asks
          BY <1>2, <2>3, RestsIs
    <3>2. \A i \in DOMAIN bids' : bids'[i] = taker \/ \E j \in DOMAIN bids : bids'[i] = bids[j]
          BY <2>1, <3>1, PutInFrom
    <3> QED BY <2>2, <3>1, <3>2 DEF GuestInv, NoneOf
  <2>4. CASE taker.side # "Buy"
    <3>1. PICK k : PutIn(asks, asks', k, taker) /\ bids' = bids
          BY <1>2, <2>4, RestsIs
    <3>2. \A i \in DOMAIN asks' : asks'[i] = taker \/ \E j \in DOMAIN asks : asks'[i] = asks[j]
          BY <2>1, <3>1, PutInFrom
    <3> QED BY <2>2, <3>1, <3>2 DEF GuestInv, NoneOf
  <2> QED BY <2>3, <2>4
<1> QED BY <1>1, <1>2

(* Nobody who has left is owed anything by a step: whoever is has an order, or is here. *)
LEMMA OwesNoneOf ==
    ASSUME EscrowInv, PurseInv, GuestInv, [Next]_vars
    PROVE  \A t \in gone : account'[t] = account[t]
<1>1. ASSUME NEW t \in gone
      PROVE  t \in Traders /\ (InHand => taker.trader # t)
      BY <1>1 DEF PurseInv, GuestInv
<1>2. account \in Purses /\ hangar \in Purses
      BY DEF PurseInv
<1>3. CASE FillColony
  <2>1. /\ Matches /\ InHand
        /\ \/ account' = Given(account, taker.trader, 0, FillQty)
           \/ account' = Given(account, taker.trader, Value - Fee(Value), 0)
        BY <1>3 DEF FillColony, Matches
  <2> QED BY <1>1, <1>2, <2>1 DEF Given, Purses
<1>4. CASE FillMaker
  <2>1. InHand /\ Others[1].trader \notin gone /\ Maker.trader = Others[1].trader
    <3>1. 1 \in DOMAIN Others /\ (Others = asks \/ Others = bids) /\ InHand /\ Like(Others[1], Maker)
          BY <1>4, MakerIs
    <3> QED BY <3>1 DEF GuestInv, NoneOf, Like
  <2>2. PICK b, s, c, v :
            /\ b \in {taker.trader, Maker.trader} /\ s \in {taker.trader, Maker.trader}
            /\ account' = Given(Given(account, b, c, FillQty), s, v, 0)
        BY <1>4 DEF FillMaker, Maker
  <2> QED BY <1>1, <1>2, <2>1, <2>2 DEF Given, Purses
<1>5. ASSUME NEW t \in Traders, t \notin gone, NEW owed \in Purses, Collected(owed, t),
             \A u \in gone : owed[u] = account[u]
      PROVE  \A u \in gone : account'[u] = account[u]
      BY <1>1, <1>5 DEF Collected, Purses
<1>6. ASSUME NEW o \in Orders, o.trader \notin gone
      PROVE  HandedBack(account, o) \in Purses /\ \A u \in gone : HandedBack(account, o)[u] = account[u]
      BY <1>1, <1>2, <1>6, HandedBackIs
<1>7. CASE Placed
  <2>1. InHand /\ taker \in Orders /\ taker.trader \in Traders /\ taker.trader \notin gone
        BY <1>7, BooksAre, OrderIs DEF Placed, GuestInv
  <2>2. \/ Collected(account, taker.trader)
        \/ Collected(HandedBack(account, taker), taker.trader)
        BY <1>7 DEF Placed
  <2> QED BY <1>2, <1>5, <1>6, <2>1, <2>2
<1>8. ASSUME NEW list \in {bids, asks}, NEW i \in DOMAIN list
      PROVE  list[i] \in Orders /\ list[i].trader \in Traders /\ list[i].trader \notin gone
  <2>1. list[i] \in Orders /\ list[i].trader \notin gone
        BY BooksAre DEF GuestInv, NoneOf
  <2> QED BY <2>1, OrderIs
<1>9. ASSUME NEW t \in Traders, NEW list \in {bids, asks}, Cancel(t, list)
      PROVE  \A u \in gone : account'[u] = account[u]
  <2>1. PICK i \in DOMAIN list : list[i].trader = t /\ Collected(HandedBack(account, list[i]), t)
        BY <1>9 DEF Cancel, Theirs
  <2> QED BY <1>5, <1>6, <1>8, <2>1
<1>10. ASSUME NEW list \in {bids, asks}, CancelNext(list)
       PROVE  \A u \in gone : account'[u] = account[u]
  <2>1. PICK i \in DOMAIN list : account' = HandedBack(account, list[i])
        BY <1>10 DEF CancelNext, Theirs
  <2> QED BY <1>6, <1>8, <2>1
<1>11. CASE (\E t \in Traders : Collect(t)) \/ Left
  <2>1. PICK t \in Traders : t \notin gone /\ Collected(account, t)
        BY <1>11 DEF Collect, Left, GuestInv, PurseInv
  <2> QED BY <1>2, <1>5, <2>1
<1>12. CASE \E t \in Traders, side \in {"Buy", "Sell"}, p \in Prices, q \in Quantities,
               rest \in BOOLEAN : Place(t, side, p, q, rest)
       BY <1>12 DEF Place
<1>13. CASE \/ Settle \/ (\E q \in Quantities : Receive(q) \/ Issue(q))
            \/ (\E t \in Traders : GuestLeaves(t)) \/ UNCHANGED vars
       BY <1>13 DEF Settle, Receive, Issue, GuestLeaves, vars
<1> QED BY <1>3, <1>4, <1>7, <1>9, <1>10, <1>11, <1>12, <1>13 DEF Next

LEMMA GuestStep ==
    ASSUME EscrowInv, EscrowInv', PurseInv, GuestInv, [Next]_vars
    PROVE  GuestInv'
<1>1. /\ \A i \in DOMAIN bids' : bids'[i].trader \notin gone
      /\ \A i \in DOMAIN asks' : asks'[i].trader \notin gone
      BY StillNoneOf
<1>2. \A t \in gone : account'[t] = Nothing
      BY OwesNoneOf DEF GuestInv
<1>3. CASE Left
  <2>1. /\ leaver \in Traders /\ leaver # NoTrader /\ OrdersOf(leaver) = 0
        /\ Collected(account, leaver) /\ gone' = gone \cup {leaver} /\ leaver' = NoTrader
        /\ UNCHANGED <<bids, asks, taker>>
        BY <1>3 DEF Left, PurseInv
  <2>2. NoneOf(bids)' /\ NoneOf(asks)'
        BY <1>1, <2>1, NoOrdersOf DEF NoneOf
  <2>3. ~InHand'
        BY <2>1 DEF GuestInv, InHand, NoOrder
  <2>4. account'[leaver] = Nothing
        BY <2>1 DEF Collected, PurseInv, Purses
  <2>5. NoTrader \notin gone'
        BY <2>1, ConstantsAssumption DEF PurseInv
  <2> QED BY <1>2, <2>1, <2>2, <2>3, <2>4, <2>5 DEF GuestInv
<1>4. CASE \E t \in Traders : GuestLeaves(t)
  <2>1. PICK t \in Traders : Open /\ t \notin gone /\ leaver' = t /\ UNCHANGED <<taker, gone>>
        BY <1>4 DEF GuestLeaves
  <2>2. ~InHand'
        BY <2>1 DEF Open, InHand, NoOrder
  <2> QED BY <1>1, <1>2, <2>1, <2>2 DEF GuestInv, NoneOf
<1>5. CASE \E t \in Traders, side \in {"Buy", "Sell"}, p \in Prices, q \in Quantities,
              rest \in BOOLEAN : Place(t, side, p, q, rest)
  <2>1. /\ leaver' = leaver /\ leaver = NoTrader /\ gone' = gone /\ taker'.trader \notin gone
        BY <1>5 DEF Place, Open, Order
  <2> QED BY <1>1, <1>2, <2>1 DEF GuestInv, NoneOf
<1> DEFINE Stays == /\ leaver' = leaver /\ gone' = gone
                    /\ taker' = taker \/ taker' = NoOrder \/ (InHand /\ Like(taker, taker'))
<1>6. CASE Stays
  <2>1. InHand' => InHand /\ taker'.trader = taker.trader
        BY <1>6 DEF InHand, NoOrder, Like
  <2> QED BY <1>1, <1>2, <1>6, <2>1 DEF GuestInv, NoneOf
<1>7. ASSUME FillColony \/ FillMaker
      PROVE  Stays
  <2>1. Like(taker, Filled(taker, FillQty, Value))
        BY DEF Like, Filled, Order
  <2> QED BY <1>7, <2>1 DEF FillColony, FillMaker, Matches
<1>8. ASSUME Placed
      PROVE  Stays
      BY <1>8 DEF Placed
<1>9. ASSUME NEW t \in Traders, Cancel(t, bids) \/ Cancel(t, asks) \/ Collect(t)
      PROVE  Stays
      BY <1>9 DEF Cancel, Collect
<1>10. ASSUME CancelNext(bids) \/ CancelNext(asks)
       PROVE  Stays
       BY <1>10 DEF CancelNext
<1>11. ASSUME Settle \/ (\E q \in Quantities : Receive(q) \/ Issue(q)) \/ UNCHANGED vars
       PROVE  Stays
       BY <1>11 DEF Settle, Receive, Issue, vars
<1> HIDE DEF Stays
<1> QED BY <1>3, <1>4, <1>5, <1>6, <1>7, <1>8, <1>9, <1>10, <1>11 DEF Next

(* However many orders a guest had, and whatever filled before they left: no order of theirs
   is left to trade for somebody who is gone, and no account that nobody would collect. *)
THEOREM GuestsLeaveNothingEver == Spec => []GuestsLeaveNothing
<1>1. Init => GuestInv
      BY DEF Init, GuestInv, NoneOf, InHand
<1>2. EscrowInv /\ EscrowInv' /\ PurseInv /\ GuestInv /\ [Next]_vars => GuestInv'
      BY GuestStep
<1>3. EscrowInv /\ GuestInv => GuestsLeaveNothing
  <2> SUFFICES ASSUME EscrowInv, GuestInv, NEW t \in gone
               PROVE  OrdersOf(t) = 0 /\ account[t] = Nothing
      BY DEF GuestsLeaveNothing
  <2>1. OrdersOf(t) = 0
        BY NoOrdersOf DEF GuestInv, NoneOf
  <2> QED BY <2>1 DEF GuestInv
<1> QED BY <1>1, <1>2, <1>3, LedgerHolds, PTL DEF Spec
=============================================================================
