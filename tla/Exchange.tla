------------------------------ MODULE Exchange ------------------------------
(***************************************************************************)
(* The Colony 03 Exchange (crates/bc-econ/src/exchange.rs) for one item,   *)
(* with the hangars of the pilots who trade on it (hangar.rs, trade and    *)
(* collect).  Items have books of their own and share no state but their   *)
(* traders' accounts, so one is enough.                                    *)
(*                                                                         *)
(* The server runs every request under the market's lock.  An order is     *)
(* still placed in several steps here, one for each fill: `taker` is the   *)
(* order in hand, and nothing else happens while there is one; nor while   *)
(* the orders of `leaver`, a guest who leaves, are cancelled one by one.   *)
(*                                                                         *)
(* The colony's stock is a float in the code; what is left of it here is   *)
(* its whole part, which is what it can sell, and the prices it quotes are *)
(* any two tables over it.  Past some stock they are at their floor        *)
(* (colony_price clamps them), so the tables end there.                    *)
(***************************************************************************)
EXTENDS Integers, Sequences, FiniteSets, SequencesExt

CONSTANTS
    Traders,     \* pilots who trade
    NoTrader,
    Prices,      \* prices an order may name
    Quantities,  \* quantities an order may name
    Unit,        \* what a price is for: 1000 kg (bulk goods), or 1 piece
    FeeOf,       \* the colony's fee: FeeOf in FeeIn of a sale (FEE_BP: 200 in 10000)
    FeeIn,
    MaxOrders,   \* MAX_ORDERS
    Glut,        \* the stock past which the colony's prices fall no further
    ColonyBid,   \* its bid and its ask at each stock (0: it doesn't buy, or sell)
    ColonyAsk,
    Target,      \* Desk::target; 0 if the colony has no desk for the item
    Step,        \* colony_step
    Credits,     \* what each pilot starts with
    Goods,
    MaxSeq,      \* bound: orders placed
    MaxHeld      \* bound: what the colony is brought to hold

ASSUME ConstantsAssumption ==
    /\ IsFiniteSet(Traders) /\ NoTrader \notin Traders
    /\ Prices \subseteq Nat \ {0} /\ Quantities \subseteq Nat \ {0}
    /\ Unit \in Nat \ {0} /\ FeeIn \in Nat \ {0} /\ FeeOf \in 0..FeeIn
    /\ MaxOrders \in Nat /\ MaxSeq \in Nat /\ MaxHeld \in Nat
    /\ Glut \in Nat /\ ColonyBid \in [0..Glut -> Nat] /\ ColonyAsk \in [0..Glut -> Nat]
    /\ Target \in Nat /\ Step \in Nat \ {0}
    /\ Credits \in Nat /\ Goods \in Nat

VARIABLES
    bids,        \* Book::bids
    asks,        \* Book::asks
    taker,       \* the order being placed
    leaver,      \* the guest whose orders are being cancelled as they leave (NoTrader: none)
    seq,         \* Exchange::seq (next_id goes with it)
    account,     \* Exchange::accounts: what each trader is owed
    hangar,      \* each pilot's credits, and how much of the item they have
    held,        \* the colony's stock
    fees, colonyPaid, colonyTook,
    outside,     \* what the colony got other than by trading, less what it used up
    gone         \* guests who have left, and their hangars with them

book == <<bids, asks>>
vars == <<bids, asks, taker, leaver, seq, account, hangar, held, fees,
          colonyPaid, colonyTook, outside, gone>>

Order(t, side, price, qty, escrow, n, rest) ==
    [trader |-> t, side |-> side, price |-> price, qty |-> qty, escrow |-> escrow,
     seq |-> n, rest |-> rest]
NoOrder == Order(NoTrader, "Buy", 0, 0, 0, 0, FALSE)
InHand == taker # NoOrder
Open == ~InHand /\ leaver = NoTrader
Nothing == [credits |-> 0, goods |-> 0]

Init ==
    /\ bids = <<>> /\ asks = <<>>
    /\ taker = NoOrder /\ leaver = NoTrader /\ seq = 0
    /\ account = [t \in Traders |-> Nothing]
    /\ hangar = [t \in Traders |-> [credits |-> Credits, goods |-> Goods]]
    /\ held = Target
    /\ fees = 0 /\ colonyPaid = 0 /\ colonyTook = 0 /\ outside = 0
    /\ gone = {}

-----------------------------------------------------------------------------
(* The value of qty at price, rounded down. *)
M_WorthUp(price, qty) == (price * qty + Unit - 1) \div Unit
Worth(price, qty) == (price * qty) \div Unit

Fee(value) == (value * FeeOf) \div FeeIn

Given(purse, t, credits, goods) ==
    [purse EXCEPT ![t] = [credits |-> @.credits + credits, goods |-> @.goods + goods]]

(* Book::insert: behind every order at its price or better. *)
Behind(list, order) ==
    {i \in DOMAIN list : IF order.side = "Buy" THEN list[i].price >= order.price
                         ELSE list[i].price <= order.price}
M_InsertAhead(list, order) ==
    LET ahead == {i \in DOMAIN list : IF order.side = "Buy" THEN list[i].price > order.price
                                      ELSE list[i].price < order.price}
        worse == {i \in DOMAIN list : i \notin ahead}
        at == IF worse = {} THEN Len(list) + 1
              ELSE CHOOSE i \in worse : \A j \in worse : i <= j
    IN  SubSeq(list, 1, at - 1) \o <<order>> \o SubSeq(list, at, Len(list))
Inserted(list, order) ==
    LET worse == DOMAIN list \ Behind(list, order)
        at == IF worse = {} THEN Len(list) + 1
              ELSE CHOOSE i \in worse : \A j \in worse : i <= j
    IN  SubSeq(list, 1, at - 1) \o <<order>> \o SubSeq(list, at, Len(list))

Theirs(list, t) == {i \in DOMAIN list : list[i].trader = t}
OrdersOf(t) == Cardinality(Theirs(bids, t)) + Cardinality(Theirs(asks, t))
M_AtLimitLate(t) == OrdersOf(t) > MaxOrders
AtLimit(t) == OrdersOf(t) >= MaxOrders

-----------------------------------------------------------------------------
(* Hangar::trade and Exchange::place: the pilot hands over the credits or the goods,
   and the order is taken in.  (One refused changes nothing: what was handed over is
   handed straight back.) *)
Place(t, side, price, qty, rest) ==
    LET escrow == IF side = "Buy" THEN Worth(price, qty) ELSE 0
        given == IF side = "Sell" THEN qty ELSE 0
    IN  /\ Open /\ seq < MaxSeq /\ t \notin gone
        /\ hangar[t].credits >= escrow /\ hangar[t].goods >= given
        /\ rest => ~AtLimit(t)
        /\ seq' = seq + 1
        /\ hangar' = Given(hangar, t, -escrow, -given)
        /\ taker' = Order(t, side, price, qty, escrow, seq + 1, rest)
        /\ UNCHANGED <<bids, asks, leaver, account, held, fees, colonyPaid, colonyTook, outside, gone>>

(* The best resting order on the other side, and the colony's quote: what each has to
   offer.  A price of 0 is no offer. *)
NoOffer == [price |-> 0, qty |-> 0]
Others == IF taker.side = "Buy" THEN asks ELSE bids
Resting == IF Others = <<>> THEN NoOffer
           ELSE [price |-> Others[1].price, qty |-> Others[1].qty]
Shelf == IF held < Glut THEN held ELSE Glut
M_ColonyOversells ==
    IF taker.side = "Sell" THEN [price |-> ColonyBid[Shelf], qty |-> Step]
    ELSE [price |-> ColonyAsk[Shelf], qty |-> Step]
Colony ==
    IF taker.side = "Sell"
    THEN [price |-> ColonyBid[Shelf], qty |-> Step]
    ELSE IF held >= 1 THEN [price |-> ColonyAsk[Shelf], qty |-> IF Step < held THEN Step ELSE held]
    ELSE NoOffer

(* Pilots first at an equal price. *)
ColonyFirst ==
    /\ Colony.price # 0
    /\ \/ Resting.price = 0
       \/ IF taker.side = "Buy" THEN Colony.price < Resting.price ELSE Colony.price > Resting.price

Offer == IF ColonyFirst THEN Colony ELSE Resting
M_CrossesStrictly ==
    /\ Offer.price # 0
    /\ IF taker.side = "Buy" THEN Offer.price < taker.price ELSE Offer.price > taker.price
Crosses ==
    /\ Offer.price # 0
    /\ IF taker.side = "Buy" THEN Offer.price <= taker.price ELSE Offer.price >= taker.price

FillQty == IF taker.qty < Offer.qty THEN taker.qty ELSE Offer.qty
Value == Worth(Offer.price, FillQty)
Matches == InHand /\ taker.qty > 0 /\ Crosses

(* What a fill leaves of the order it fills. *)
Filled(order, qty, value) ==
    Order(order.trader, order.side, order.price, order.qty - qty,
          IF order.side = "Buy" THEN order.escrow - value ELSE order.escrow, order.seq, order.rest)

(* match_one, with the colony. *)
FillColony ==
    /\ Matches /\ ColonyFirst
    /\ taker' = Filled(taker, FillQty, Value)
    /\ \/ /\ taker.side = "Buy"
          /\ held' = held - FillQty
          /\ colonyTook' = colonyTook + Value
          /\ account' = Given(account, taker.trader, 0, FillQty)
          /\ UNCHANGED <<colonyPaid, fees>>
       \/ /\ taker.side = "Sell"
          /\ held' = held + FillQty
          /\ colonyPaid' = colonyPaid + Value
          /\ fees' = fees + Fee(Value)
          /\ account' = Given(account, taker.trader, Value - Fee(Value), 0)
          /\ UNCHANGED colonyTook
    /\ UNCHANGED <<bids, asks, leaver, seq, hangar, outside, gone>>

(* match_one, with the first order of the other side: what is left of it stays first;
   one filled goes, and a buyer's change is theirs. *)
M_ChangeKept(maker) == 0
Change(maker) == IF maker.qty = 0 /\ maker.side = "Buy" THEN maker.escrow ELSE 0

FillMaker ==
    /\ Matches /\ ~ColonyFirst
    /\ LET maker == Filled(Others[1], FillQty, Value)
           rest == IF maker.qty = 0 THEN Tail(Others) ELSE <<maker>> \o Tail(Others)
           buyer == IF taker.side = "Buy" THEN taker.trader ELSE maker.trader
           seller == IF taker.side = "Buy" THEN maker.trader ELSE taker.trader
       IN  /\ bids' = IF taker.side = "Sell" THEN rest ELSE bids
           /\ asks' = IF taker.side = "Buy" THEN rest ELSE asks
           /\ account' = Given(Given(account, buyer, Change(maker), FillQty),
                               seller, Value - Fee(Value), 0)
    /\ taker' = Filled(taker, FillQty, Value)
    /\ fees' = fees + Fee(Value)
    /\ UNCHANGED <<leaver, seq, hangar, held, colonyPaid, colonyTook, outside, gone>>

(* hand_back: a buy's unspent escrow, a sell's unsold goods. *)
M_GoodsKept(owed, order) ==
    IF order.side = "Buy" THEN Given(owed, order.trader, order.escrow, 0) ELSE owed
HandedBack(owed, order) ==
    IF order.side = "Buy" THEN Given(owed, order.trader, order.escrow, 0)
    ELSE Given(owed, order.trader, 0, order.qty)

(* Hangar::collect: t takes what they are owed of `owed`. *)
Collected(owed, t) ==
    /\ hangar' = Given(hangar, t, owed[t].credits, owed[t].goods)
    /\ account' = [owed EXCEPT ![t] = Nothing]

(* Nothing more crosses: the rest waits in the book, or is handed back; and the pilot
   collects what filled. *)
Placed ==
    /\ InHand /\ ~(taker.qty > 0 /\ Crosses)
    /\ IF taker.qty > 0 /\ taker.rest
       THEN /\ bids' = IF taker.side = "Buy" THEN Inserted(bids, taker) ELSE bids
            /\ asks' = IF taker.side = "Sell" THEN Inserted(asks, taker) ELSE asks
            /\ Collected(account, taker.trader)
       ELSE /\ Collected(HandedBack(account, taker), taker.trader)
            /\ UNCHANGED book
    /\ taker' = NoOrder
    /\ UNCHANGED <<leaver, seq, held, fees, colonyPaid, colonyTook, outside, gone>>

Without(list, i) ==
    /\ bids' = IF list[i].side = "Buy" THEN RemoveAt(bids, i) ELSE bids
    /\ asks' = IF list[i].side = "Sell" THEN RemoveAt(asks, i) ELSE asks

(* Request::CancelOrder. *)
Cancel(t, list) ==
    /\ Open
    /\ \E i \in Theirs(list, t) : Without(list, i) /\ Collected(HandedBack(account, list[i]), t)
    /\ UNCHANGED <<taker, leaver, seq, held, fees, colonyPaid, colonyTook, outside, gone>>

(* Session::settle. *)
Collect(t) ==
    /\ Open /\ t \notin gone /\ account[t] # Nothing
    /\ Collected(account, t)
    /\ UNCHANGED <<bids, asks, taker, leaver, seq, held, fees, colonyPaid, colonyTook, outside, gone>>

(* Session::leave, a guest's: every order of theirs is cancelled (cancel_all)... *)
GuestLeaves(t) ==
    /\ Open /\ t \notin gone
    /\ leaver' = t
    /\ UNCHANGED <<bids, asks, taker, seq, account, hangar, held, fees, colonyPaid, colonyTook,
                   outside, gone>>

CancelNext(list) ==
    /\ \E i \in Theirs(list, leaver) :
           /\ \A j \in Theirs(list, leaver) : i <= j
           /\ Without(list, i)
           /\ account' = HandedBack(account, list[i])
    /\ UNCHANGED <<taker, leaver, seq, hangar, held, fees, colonyPaid, colonyTook, outside, gone>>

(* ...and what they are owed is taken; it goes with them. *)
M_LeftUncollected ==
    /\ leaver # NoTrader /\ OrdersOf(leaver) = 0
    /\ gone' = gone \cup {leaver} /\ leaver' = NoTrader
    /\ UNCHANGED <<bids, asks, taker, seq, account, hangar, held, fees, colonyPaid, colonyTook,
                   outside>>
Left ==
    /\ leaver # NoTrader /\ OrdersOf(leaver) = 0
    /\ Collected(account, leaver)
    /\ gone' = gone \cup {leaver} /\ leaver' = NoTrader
    /\ UNCHANGED <<bids, asks, taker, seq, held, fees, colonyPaid, colonyTook, outside>>

-----------------------------------------------------------------------------
(* Exchange::tick: the stock settles towards what the colony wants. *)
Settle ==
    /\ Open
    /\ \E h \in (held + 1)..Target \cup Target..(held - 1) :
           held' = h /\ outside' = outside + h - held
    /\ UNCHANGED <<bids, asks, taker, leaver, seq, account, hangar, fees, colonyPaid, colonyTook, gone>>

(* colony_receive: what the Charter Board took delivery of on a contract. *)
Receive(qty) ==
    /\ Open /\ Target > 0 /\ held + qty <= MaxHeld
    /\ held' = held + qty /\ outside' = outside + qty
    /\ UNCHANGED <<bids, asks, taker, leaver, seq, account, hangar, fees, colonyPaid, colonyTook, gone>>

(* colony_issue: up to qty, from what it has whole, for the Board to hand out. *)
Issue(qty) ==
    LET n == IF qty < held THEN qty ELSE held
    IN  /\ Open /\ n > 0
        /\ held' = held - n /\ outside' = outside - n
        /\ UNCHANGED <<bids, asks, taker, leaver, seq, account, hangar, fees, colonyPaid, colonyTook, gone>>

Next ==
    \/ \E t \in Traders, side \in {"Buy", "Sell"}, p \in Prices, q \in Quantities,
          rest \in BOOLEAN : Place(t, side, p, q, rest)
    \/ FillColony \/ FillMaker \/ Placed
    \/ \E t \in Traders : Cancel(t, bids) \/ Cancel(t, asks) \/ Collect(t) \/ GuestLeaves(t)
    \/ CancelNext(bids) \/ CancelNext(asks) \/ Left
    \/ Settle
    \/ \E q \in Quantities : Receive(q) \/ Issue(q)

Spec == Init /\ [][Next]_vars

-----------------------------------------------------------------------------
Orders == [trader : Traders, side : {"Buy", "Sell"}, price : Nat \ {0}, qty : Nat,
           escrow : Nat, seq : Nat, rest : BOOLEAN]
Purses == [Traders -> [credits : Nat, goods : Nat]]

(* The state's shape.  Every amount is unsigned in the code, so none may go below 0: not
   an order's escrow or what it has left, not a hangar, and not the colony's stock. *)
TypeOK ==
    /\ bids \in Seq(Orders) /\ asks \in Seq(Orders)
    /\ \A i \in DOMAIN bids : bids[i].side = "Buy" /\ bids[i].qty > 0
    /\ \A i \in DOMAIN asks : asks[i].side = "Sell" /\ asks[i].qty > 0
    /\ taker \in Orders \cup {NoOrder} /\ leaver \in Traders \cup {NoTrader}
    /\ account \in Purses /\ hangar \in Purses
    /\ seq \in Nat /\ held \in Nat /\ fees \in Nat /\ colonyPaid \in Nat /\ colonyTook \in Nat
    /\ outside \in Int /\ gone \subseteq Traders

(* A buy order, resting or being filled, always holds what the rest of it may cost
   (match_one subtracts from escrow unchecked): fills round down one by one, and what
   they leave is never short. *)
Covers(order) == order.side = "Buy" => order.escrow >= Worth(order.price, order.qty)
EscrowCovers == Covers(taker) /\ \A i \in DOMAIN bids : Covers(bids[i])

(* Best price first, and oldest first at a price (Book: "Highest first", "Lowest first"),
   though an order partly filled goes on with what is left. *)
PriceTimePriority ==
    /\ \A i, j \in DOMAIN bids : i < j =>
           \/ bids[i].price > bids[j].price
           \/ bids[i].price = bids[j].price /\ bids[i].seq < bids[j].seq
    /\ \A i, j \in DOMAIN asks : i < j =>
           \/ asks[i].price < asks[j].price
           \/ asks[i].price = asks[j].price /\ asks[i].seq < asks[j].seq

(* No two resting orders cross: whatever could trade has ("An order that crosses the book
   trades at once"), the colony's quotes having come between or not. *)
Uncrossed ==
    Open => \A i \in DOMAIN bids, j \in DOMAIN asks : bids[i].price < asks[j].price

(* No trader has more orders waiting than MAX_ORDERS, however those being placed rest. *)
OrderLimit == \A t \in Traders : OrdersOf(t) <= MaxOrders

(* The book is in order between any two fills: sorted, uncrossed and within its limit,
   whatever was filled in part, cancelled or quoted by the colony in between. *)
BookInOrder == PriceTimePriority /\ Uncrossed /\ OrderLimit

(* A guest who has left has left nothing behind: no order that could still trade, and no
   account nobody would ever collect, though their orders were filled as they left
   ("A guest's orders go with them"). *)
GuestsLeaveNothing ==
    \A t \in gone : OrdersOf(t) = 0 /\ account[t] = Nothing

(* What waits in a book: a buy order's escrow, a sell order's goods. *)
Escrowed(list) == SumFunction([i \in DOMAIN list |-> list[i].escrow])
Offered(list) == SumFunction([i \in DOMAIN list |-> list[i].qty])

(* Credits are neither made nor lost in a trade (tests/ledger.rs): they come in with what
   the colony buys, and go out with what it sells and its fees. *)
CreditsConserved ==
    SumFunction([t \in Traders |-> hangar[t].credits + account[t].credits])
        + Escrowed(bids) + taker.escrow + colonyTook + fees
    = Cardinality(Traders) * Credits + colonyPaid

(* Goods neither: what pilots have, are owed and offer, and what the colony holds, changes
   only by what it imports and uses up. *)
GoodsConserved ==
    SumFunction([t \in Traders |-> hangar[t].goods + account[t].goods])
        + Offered(asks) + (IF taker.side = "Sell" THEN taker.qty ELSE 0) + held
    = Cardinality(Traders) * Goods + Target + outside

(* Nothing is made or lost between any two fills (match_one, hand_back, collect). *)
Conserved == CreditsConserved /\ GoodsConserved
=============================================================================
