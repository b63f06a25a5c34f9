SPECIFICATION ClockSpec
CONSTANTS
    Handles = {h1, h2}
    Setters = {s1}
    Durations <- MCDurations
    MaxTime = 2
    MaxIDs = 3
    MaxArms = 2
    Nil = Nil
PROPERTIES TimeNeverBack
