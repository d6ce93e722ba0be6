SPECIFICATION Spec
CONSTANTS
    g1 = g1
    g2 = g2
    home = home
    p1 = p1
    first = first
    cut = cut
    moved = moved
    broken = broken
    other = other
    H1 = H1
    H2 = H2
    M1 = M1
    M2 = M2
    Games = {g1}
    Teams = {home}
    Players = {p1}
    Contents = {first, cut, moved, broken}
    Content <- GameContents
    AdminTeams = {H1, H2}
    AdminMatches = {M1, M2}
    AdminMatch <- Candidates
    Stagers = {s1, s2}
    MaxStageAttempts = 1
    None = None
INVARIANTS BindingsFollowIdentity PayloadsConsistent DeliveriesAdvance
PROPERTIES AnswersAreCurrent
SYMMETRY Interchangeable
