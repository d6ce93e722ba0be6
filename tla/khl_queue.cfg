SPECIFICATION Spec
CONSTANTS
    Games = {g1}
    Workers = {w1}
    Kinds = {"all", "game", "event"}
    MaxRuns = 3
    QueueLimit = 2
    Aging = TRUE
    MaxMishaps = 0
    Nobody = Nobody
    NoGame = NoGame
INVARIANTS QueueInOrder CollectedOrReopened
