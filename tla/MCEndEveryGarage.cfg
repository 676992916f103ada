SPECIFICATION Spec
CONSTANTS
    Passes = {"p1", "p2"}
    Garages = {1, 2}
    Cars = {"car"}
    MaxDay = 3
    GaragesOf <- MCGaragesOf
    ValidTo <- MCNoLastDay
    Readable = {1, 2}
    Instants = {1, 2}
    DayAt <- MCDayAt
    MaxRegistrations = 2
    StatesStated = {"draft"}
    NoInstant = 0
INVARIANTS
    EndingFreesEveryGarage
CHECK_DEADLOCK FALSE
