SPECIFICATION ClockSpec
CONSTANTS
    Calendar <- Night
    Glitch = {170}
    SleepTicks = 3
INVARIANTS
    ClockInv
    OneInstant
