SPECIFICATION SchedulerSpec
CONSTANTS
    Runs = {r1, r2}
    Sports = {s1}
    Champs = {}
    Matches = {}
    Workers = {w1}
    MaxAttempts = 1
    Overrun = TRUE
    Nobody = Nobody
    NoRun = NoRun
    NoChamp = NoChamp
    AutoSport = s1
    Slots = {2, 3}
    MaxTime = 3
    CatchUp = 1
    Changes = {2}
INVARIANTS OneActiveRunPerSport SlotsRunOnce NoSlotLost
SYMMETRY Symmetric
CHECK_DEADLOCK FALSE
