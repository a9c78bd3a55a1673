CONSTANTS
    ada = ada
    bo = bo
    Pilots <- Both
    Colony = Colony
    NoOne = NoOne
    Credits <- Purse
    Goods <- Hold
    Quantities = {2}
    Rewards = {3}
    SupplyQty = 2
    SupplyReward = 1
    PatrolBounty = 2
    PatrolReward = 1
    Patrols = 2
    Bounties = {1}
    WorksNeed = 1
    WorksPrice = 1
    MaxPosted = 1
    Signatures = 2
    MaxIds = 4
SPECIFICATION Spec
CHECK_DEADLOCK FALSE
INVARIANTS
    Conserved
    PaidProRata
    PatrolIsOwn
    CharterIsSigned
