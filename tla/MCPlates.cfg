SPECIFICATION ReadSpec
CONSTANTS
    Chars = {"A", "O", "0", "Q"}
    Separators = {"-"}
    KeyOf <- ReadAsDigits
    LookAlike <- FirstOfGroup
    MinLength = 3
    MaxTyped = 3
    MaxRead = 4
    MaxSlips = 2
INVARIANT OnlyASlipIsForgiven
