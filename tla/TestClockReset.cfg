SPECIFICATION ClockSpec
CONSTANTS
    Handles = {h1, h2}
    Setters = {s1}
    Durations = {0, 1, 2}
    MaxTime = 3
    MaxIDs = 3
    MaxArms = 2
    Nil = Nil
INVARIANTS CallbackRuns
