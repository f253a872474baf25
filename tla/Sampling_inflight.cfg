SPECIFICATION SampleSpec
CONSTANTS
    Fleet = 2
    SampleRounds = 1
    Wanted = 2
    MaxParallel = 1
    Pins = {0}
    MaxRolls = 0
INVARIANT AtMostMaxParallel
CHECK_DEADLOCK FALSE
