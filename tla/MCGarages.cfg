SPECIFICATION Spec
CONSTANTS
    Garages = {"A", "B"}
    Zones = {"Denver", "Phoenix"}
    Passes = {"p1"}
    GarageDocs <- MCGarageDocs
    PassesOf <- MCPassesOf
    Desks = {d1, d2}
    Lanes = {"A1", "A2", "B1"}
    Days <- MCDays
    Minutes = {0, 1}
    EndOfDay = 2
    Unstated = Unstated
    Blank = Blank
    NoGarage = NoGarage
    NoPass = NoPass
    MaxCalls = 4
SYMMETRY MCDesksAlike
INVARIANTS
    TheHistoryEndsAtTheRow
    AStoredPassCanBeUsed
CHECK_DEADLOCK FALSE
