SPECIFICATION FairSpec
CONSTANTS
    Games = {g1}
    Workers = {w1}
    Kinds = {"event"}
    MaxRuns = 2
    QueueLimit = 1
    Aging = TRUE
    MaxMishaps = 0
    Nobody = Nobody
    NoGame = NoGame
PROPERTY WaitingQueueMoves
