----------------------------- MODULE MCExchange -----------------------------
(* Exchange for two pilots: a price is for two, so fills round; the colony wants two,
   deals one at a time, and is dearer with less than that (its price in the middle is 2.5
   with one or none, 1.6 from two: 0.9 of it, rounded down, is its bid, and 1.1 of it,
   rounded up, its ask). *)
EXTENDS Exchange

Bid == <<2, 2, 1>>
Ask == <<3, 3, 2>>
Quoted(prices) == [h \in 0..Glut |-> prices[h + 1]]
QuotedBid == Quoted(Bid)
QuotedAsk == Quoted(Ask)

Alike == Permutations(Traders)
=============================================================================
