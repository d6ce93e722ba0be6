SPECIFICATION Spec
CONSTANTS
    Games = {g1}
    Workers = {w1, w2}
    Kinds = {"all"}
    MaxRuns = 2
    QueueLimit = 2
    Aging = FALSE
    MaxMishaps = 1
    Nobody = Nobody
    NoGame = NoGame
SYMMETRY Symmetric
INVARIANT RunsResumable
PROPERTIES ManualRunsNotCancelled CheckpointsAdvance
