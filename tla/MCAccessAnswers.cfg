SPECIFICATION AnswersSpec
CONSTANTS
    None = None
    Blank = Blank
    Forever = 9
    Key <- MCKey
    DayAt <- MCDayAt
    MinuteAt <- MCMinuteAt
    Place <- MCPlace
    Questions <- MCQuestions
INVARIANTS
    AnswersTypeOK
    ExitIsNeverRefused
    AnyPassThatCoversLetsOut
    AnEntryIsCoveredOnOnePass
    TheSameOutcomeInAnyOrder
    AReplacedCarIsOver
    EachEntryOnItsOwnClock
CHECK_DEADLOCK FALSE
