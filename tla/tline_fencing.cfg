SPECIFICATION Spec
CONSTANTS
    Runs = {r1}
    Sports = {s1}
    Champs = {c1}
    Matches = {m1}
    Workers = {w1, w2}
    MaxAttempts = 2
    Overrun = TRUE
    Nobody = Nobody
    NoRun = NoRun
    NoChamp = NoChamp
SYMMETRY Symmetric
INVARIANT AttemptTokensUnique
PROPERTIES EvidenceByHolderOnly CancelledJobsGainNothing ImplementsLeasedJobs
CHECK_DEADLOCK FALSE
