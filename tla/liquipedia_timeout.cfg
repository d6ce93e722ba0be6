SPECIFICATION FairSpec
CONSTANTS
    Requests = {q1}
    Slugs = {s1}
    Proxies = {}
    Direct = direct
    MaxRetries = 1
    ImportMaxRetries = 0
    DirectFallback = TRUE
PROPERTIES TimedOutPortalsEnd
CHECK_DEADLOCK FALSE
