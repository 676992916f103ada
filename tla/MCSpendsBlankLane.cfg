SPECIFICATION Spec
CONSTANTS
    Passes = {"p1", "p2"}
    Garages = {1, 2, 3}
    Cars = {"a", "b", "c"}
    GaragesOf <- MCGaragesOf
    Transient <- MCTransient
    EnrolsAt <- MCEnrolsAt
    Similar <- MCSimilar
    Codes = {"q1", "q2", "q3"}
    NoCar = "no car"
    Txs = {"t1", "t2"}
    Calls <- MCBlankLane
    StartCodes <- MCStartCodes
    StartHeld <- MCStartHeld
    StartState <- MCStartState
    MaxBegun = 3
INVARIANTS
    EveryRedemptionIsAnswered
CHECK_DEADLOCK FALSE
