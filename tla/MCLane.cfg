SPECIFICATION EnrolSpec
CONSTANTS
    Passes = {"p1", "p2"}
    Garages = {1, 2}
    Cars = {"car"}
    MaxDay = 3
    GaragesOf <- MCGaragesOf
    ValidTo <- MCValidTo
    Readable = {1, 2}
    Instants = {2}
    DayAt <- MCDayAt
    MaxRegistrations = 2
    StatesStated = {"awaiting_enrolment"}
    NoInstant = 0
    CodeIds = {q1}
    LinkIds = {"k1"}
    Stays <- MCStays
    NoCar = "no car"
    Desk = "desk"
    TermsOf <- MCTermsOf
    Recorded <- MCRecorded
    PassOrder <- MCPassOrder
    TransientAt <- MCTransientAt
    Unstated = Unstated
    Systems <- MCSystems
INVARIANTS
    OnlyTheUnreadableIsLeftUnanswered
    ACheckedOutGuestDrivesOut
    OneLinkOneCode
CHECK_DEADLOCK FALSE
