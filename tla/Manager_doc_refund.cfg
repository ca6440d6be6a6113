SPECIFICATION LinkedSellsOnly
CONSTANTS
    Kept = 500
    Markets <- TheMarkets  Listings <- TheListings  Ordinary = {"A", "B"}  BuiltIn <- TheBuiltIn
    Slots = {1, 2}  PerQuery = 1  LastDate = 2  MaxAsks = 3  MaxFaults = 1
INVARIANT RefundsTheUnfilled
CHECK_DEADLOCK FALSE
