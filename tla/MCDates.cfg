SPECIFICATION DatesSpec
CONSTANTS
    Jan1 <- MCJan1
    MaxDays = 376
    FormatInputs <- MCFormatInputs
    FracDigits = 2
    WordRange = 1000000000
    IntMax = 200
    MinDay <- mc_MinDay
    MaxDay <- mc_MaxDay
    Day0 <- mc_Day0
    Off <- mc_Off
    Texts <- mc_Texts
    Days <- mc_Days
    Times <- mc_Times
    Styles <- mc_Styles
    Inputs <- mc_Inputs
    MaxOps = 3
INVARIANTS
    CalendarFollowed
    DatesFormatted
    LiteralsValidated
    ShownAsMeant
    TextReadsBack
