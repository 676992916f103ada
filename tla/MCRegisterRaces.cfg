SPECIFICATION FairSpec
CONSTANTS
    Passes = {"p1", "p2"}
    Garages = {1, 2}
    Cars = {"car"}
    MaxDay = 4
    GaragesOf <- MCGaragesOf
    ValidTo <- MCValidTo
    Readable = {1, 2}
    Instants = {1}
    DayAt <- MCDayAt
    Txs = {"t1", "t2"}
    Calls <- MCCalls
    Starts <- MCStarts
    MaxBegun = 3
    Never = 0
INVARIANTS
    OneCarOnePass
    RevokedHoldsNothing
PROPERTIES
    OnlyTheLastDayTurnsOver
    CommitsAsIfAlone
    AReportedStayIsHeld
    EveryWriterFinishes
CHECK_DEADLOCK FALSE
