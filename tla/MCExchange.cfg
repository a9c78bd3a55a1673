CONSTANTS
    Traders = {ada, bo}
    NoTrader = NoTrader
    Prices = {1, 3}
    Quantities = {1, 3}
    Unit = 2
    FeeOf = 1
    FeeIn = 2
    MaxOrders = 2
    Glut = 2
    ColonyBid <- QuotedBid
    ColonyAsk <- QuotedAsk
    Target = 2
    Step = 1
    Credits = 2
    Goods = 3
    MaxSeq = 4
    MaxHeld = 2
CHECK_DEADLOCK FALSE
SPECIFICATION Spec
SYMMETRY Alike
INVARIANTS
    TypeOK
    EscrowCovers
    BookInOrder
    GuestsLeaveNothing
    Conserved
