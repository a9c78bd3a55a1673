CONSTANTS
    ada = ada
    bo = bo
    flat = flat
    house = house
    Pilots <- Both
    Flats = {flat}
    Houses = {house}
    NotHeld = NotHeld
    NoCode = NoCode
    Codes = {1}
    Credits <- Purse
    Goods <- Bay
    Week = 1
    Hourly <- Rent
    Price = 3
    SellBack = 2
    Furniture = {"bed", "chest"}
    PiecePrice = 1
    PieceBack = 0
    Grace = 2
    Abandoned = 2
    MaxHeld = 1
    MaxPieces = 2
    CrewCap = 2
    GuestCap = 1
    LockoutTries = 1
    MaxHours = 4
    MaxDown = 2
SPECIFICATION Spec
CHECK_DEADLOCK FALSE
INVARIANTS
    Conserved
    LockIsCurrent
    BedsAreOwn
PROPERTIES
    GraceGiven
