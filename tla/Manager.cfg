SPECIFICATION Spec
CONSTANTS
    Kept = 500
    Markets <- TheMarkets  Listings <- TheListings  Ordinary = {"A", "B"}  BuiltIn <- TheBuiltIn
    Slots = {1, 2}  PerQuery = 1  LastDate = 2  MaxAsks = 3  MaxFaults = 1
INVARIANTS TypeOK  BatchOncePerDay   BacktestFollowsTheBatch RankingsAgree ReportForetellsTheBatch
 
CHECK_DEADLOCK FALSE
