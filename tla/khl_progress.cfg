SPECIFICATION FairSpec
CONSTANTS
    Games = {g1}
    Workers = {w1}
    Kinds = {"all"}
    MaxRuns = 2
    QueueLimit = 3
    Aging = TRUE
    MaxMishaps = 1
    Nobody = Nobody
    NoGame = NoGame
PROPERTY RunsEnd
