SPECIFICATION FairSpec
CONSTANTS
    Runs = {r1}
    Sports = {s1}
    Champs = {c1}
    Matches = {m1}
    Workers = {w1}
    MaxAttempts = 2
    Overrun = FALSE
    Nobody = Nobody
    NoRun = NoRun
    NoChamp = NoChamp
PROPERTY StoppedQueuedRunsEnd
CHECK_DEADLOCK FALSE
