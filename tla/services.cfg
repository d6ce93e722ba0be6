SPECIFICATION ServicesSpec
CONSTANTS
    hltvPage = hltvPage
    dltvPage = dltvPage
    Imports = {1, 2}
    Pages = {hltvPage, dltvPage}
    Source <- PageSources
    Matches = {m1, m2}
    Names = {n1}
    Ids = {x1}
    MaxTime = 1
    MaxEdits = 1
    None = None
    Deployments = {deployment1, deployment2}
    MaxRelease = 2
    Services = {web, worker}
    web = web
    Migrations = {1, 2}
    SourceTree <- Trees
    Policy <- Trees
    Nobody = Nobody
    LastProbe = 3
    HostOf <- ProbeHosts
    Required = {1}
    MaxConcurrency = 2
    MaxAttempts = 2
    siteHost = siteHost
    otherHost = otherHost
    s1 = s1
    s2 = s2
    a1 = a1
    a2 = a2
    pair = pair
    Unmapped = Unmapped
    NoTime = NoTime
    NoMatch = NoMatch
    SourceIds = {s1, s2}
    AdminIds = {a1, a2}
    SourceLists <- SiteLists
    AdminLists <- LineLists
    MaxDecisions = 2
    Window = 4
    Tolerance = 1
    SourceTeams = {team1, team2}
    AdminTeams = {adminTeam1, adminTeam2}
    Automaps = {automap1}
    Unmatched = Unmatched
    LastImport = 2
    Main = mainPage
    Subpages = {subpage}
    MaxRevision = 1
    Listed <- Listings
    NoImport = NoImport
    o1 = o1
    o2 = o2
    o3 = o3
    LastUpdate = 5
    Asks <- Questions
    MaxRequestsPerDay = 2
    ResponseCacheLimit = 1
    LastDay = 1
    LastReport = 1
    MaxUnrecorded = 1
    question1 = question1
    question2 = question2
INVARIANTS
    StoredSoundly ServicesSound
    ProbingIsSound QuestionsSettled AnnouncedIsSaid OperatorsChoiceStands StoredIsWhole
PROPERTIES
    FresherImportWins LastGoodKept EditsSurvive OnlyRollbackGoesBack
    LastWordCounts EveryMatchAccountedFor PairsAreBest MainPageAdvances LastGoodAdvances
SYMMETRY Symmetric
CHECK_DEADLOCK FALSE
