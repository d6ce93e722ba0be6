SPECIFICATION FairSpec
CONSTANTS
    Requests = {q1, q2, q3}
    Slugs = {s1}
    Proxies = {p1, p2}
    Direct = direct
    MaxRetries = 1
    ImportMaxRetries = 0
    DirectFallback = TRUE
INVARIANT OneAtATimePerChannel
PROPERTIES SpacedStarts CooldownRespected RequestsEnd
CHECK_DEADLOCK FALSE
