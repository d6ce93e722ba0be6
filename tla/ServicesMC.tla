----------------------------- MODULE ServicesMC -----------------------------
(* The services of TData that share no state with each other: imports of    *)
(* tournaments and of Liquipedia's, deployments, the parser monitor, the    *)
(* consultant, and the review and the team mappings of a TLine              *)
(* championship.  A behaviour is one of any single service, chosen at the   *)
(* start; the others stay at their beginning.                               *)
EXTENDS TournamentImport, AutoDeploy, TLineTeamMapping, LiquipediaImport, ParserMonitor, Consultant,
        TLineReview

CONSTANTS
    hltvPage, dltvPage,                  \* pages that may show a common match
    siteHost, otherHost,                 \* hosts of probes
    s1, s2, a1, a2, pair,                \* matches of a championship and their teams
    o1, o2, o3,                          \* matches of the pages of Liquipedia
    question1, question2                 \* what the consultant is asked

VARIABLE service

PageSources == [p \in Pages |-> IF p = hltvPage THEN "hltv" ELSE "dltv"]

\* Commit r holds the migrations up to r, all of them reviewed as backward compatible.
Trees == [r \in 0..2 |-> 1..r]

\* Two of three probes share a host.
ProbeHosts == <<siteHost, siteHost, otherHost>>

\* Up to two matches of one pair of teams on each side: near and far, undated, repeated, unmapped.
Events(ids, pairs, times) == [id : ids, pair : pairs, time : times, status : {"SCHEDULED"}]
Lists(first, second) == {<<m>> : m \in first} \cup {<<m, n>> : m \in first, n \in second}
SiteLists == Lists(Events({s1}, {pair, Unmapped}, {10}), Events({s2}, {pair}, {NoTime, 10, 12}))
LineLists == Lists(Events({a1}, {pair}, {11}), Events({a2}, {pair}, {NoTime, 7, 8, 13}) \cup Events({a1}, {pair}, {11}))

\* An edit of the main page adds a match, one of a subpage removes its match.
Listings == [p \in LiquipediaPages |->
    IF p = Main THEN [r \in 0..1 |-> IF r = 0 THEN {o1} ELSE {o1, o3}]
    ELSE [r \in 0..1 |-> IF r = 0 THEN {o2} ELSE {}]]

\* A question is repeated, and another one may exceed the budget.
Questions == <<question1, "command", "ignored", question1, question2>>

importVars == vars

ServicesInit ==
    /\ service \in {"imports", "deployments", "monitor", "review", "mappings", "liquipedia", "consultant"}
    /\ Init /\ DeployInit /\ MonitorInit /\ ReviewInit /\ MappingInit
    /\ ImporterInit /\ ConsultantInit
    /\ service = "liquipedia" \/ tournament = NoTournament
    /\ service = "consultant" \/ arrived = 0

ServicesNext ==
    /\ UNCHANGED service
    /\ \/ /\ service = "imports" /\ Next
          /\ UNCHANGED <<deployVars, monitorVars, reviewVars, mappingVars, importerVars, consultantVars>>
       \/ /\ service = "deployments" /\ DeployNext
          /\ UNCHANGED <<importVars, monitorVars, reviewVars, mappingVars, importerVars, consultantVars>>
       \/ /\ service = "monitor" /\ MonitorNext
          /\ UNCHANGED <<importVars, deployVars, reviewVars, mappingVars, importerVars, consultantVars>>
       \/ /\ service = "review" /\ ReviewNext
          /\ UNCHANGED <<importVars, deployVars, monitorVars, mappingVars, importerVars, consultantVars>>
       \/ /\ service = "mappings" /\ MappingNext
          /\ UNCHANGED <<importVars, deployVars, monitorVars, reviewVars, importerVars, consultantVars>>
       \/ /\ service = "liquipedia" /\ ImporterNext
          /\ UNCHANGED <<importVars, deployVars, monitorVars, reviewVars, mappingVars, consultantVars>>
       \/ /\ service = "consultant" /\ ConsultantNext
          /\ UNCHANGED <<importVars, deployVars, monitorVars, reviewVars, mappingVars, importerVars>>

ServicesSpec ==
    /\ ServicesInit
    /\ [][ServicesNext]_<<service, importVars, deployVars, monitorVars, reviewVars, mappingVars, importerVars,
                       consultantVars>>

Symmetric == Permutations(Matches) \cup Permutations(Ids) \cup Permutations(Deployments)

=============================================================================
