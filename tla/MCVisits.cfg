SPECIFICATION Spec
CONSTANTS
    Garages = {"A", "B"}
    Cars = {c1, c2}
    Lanes = {"a1", "a2", "b1"}
    GarageOf <- MCGarageOf
    Allowed = 1
    LastInstant = 2
    MaxLost = 1
    Open = Open
SYMMETRY MCCarsAlike
INVARIANTS
    OneOpenVisit
    AnExitIsOfItsGarage
    AnOverrunIsBounded
