SPECIFICATION EnrolSpec
CONSTANTS
    Passes = {"p1", "p2"}
    Garages = {1, 2}
    Cars = {"car"}
    MaxDay = 3
    GaragesOf <- MCGaragesOf
    ValidTo <- MCLongValidTo
    Readable = {1, 2}
    Instants = {2}
    DayAt <- MCDayAt
    MaxRegistrations = 2
    StatesStated = {"active"}
    NoInstant = 0
    CodeIds = {q1, q2}
    LinkIds = {}
    Stays <- MCStays
    NoCar = "no car"
    Desk = "desk"
INVARIANTS
    CredentialsTypeOK
    OneStayAnswers
PROPERTIES
    ANewCodeHoldsItsStay
    AReplacedCarNeedsANewCode
SYMMETRY MCSymmetry
CHECK_DEADLOCK FALSE
