SPECIFICATION FairSpec
CONSTANTS
    Runs = {r1}
    Sports = {s1}
    Champs = {c1, c2}
    Matches = {m1}
    Workers = {w1, w2}
    MaxAttempts = 2
    Overrun = FALSE
    Nobody = Nobody
    NoRun = NoRun
    NoChamp = NoChamp
INVARIANT SettledTogether
PROPERTIES StoredResultsKept RunsEnd
CHECK_DEADLOCK FALSE
