--------------------------- MODULE LiquipediaImport ---------------------------
(***************************************************************************)
(* Importing one tournament of Liquipedia, which has a main page and        *)
(* subpages (sources/tdata/liquipedia/importer, utils/sourceFetchCache.ts): *)
(* every page comes from the cache of last good snapshots, from a raw       *)
(* snapshot of the last hour or from the network; the matches of all pages  *)
(* replace those of the tournament in one transaction, or none do; after it *)
(* the pages are published as last good.                                   *)
(*                                                                         *)
(* Imports of the tournament are numbered in the order they start.  Editors *)
(* change the pages meanwhile, the network fails, and a process may die     *)
(* anywhere.  Time is left out: an entry of the cache or a raw snapshot may *)
(* or may not be an hour old when it is read.  MediaWiki always names the   *)
(* revision.  Participants and the text of pages are left out.              *)
(***************************************************************************)
EXTENDS Integers, Sequences, FiniteSets

CONSTANTS
    LastImport,    \* imports are 1..LastImport; 0 was complete before them
    Main,          \* the main page
    Subpages,
    MaxRevision,   \* bound of the edits of a page
    Listed,        \* [page -> [revision -> matches]]
    NoImport       \* no import's number

ASSUME LiquipediaAssumption == MaxRevision \in Nat /\ LastImport \in Nat /\ NoImport \notin 0..LastImport

Importers == 1..LastImport
LiquipediaPages == {Main} \cup Subpages

VARIABLES
    revision,     \* [page -> revision at Liquipedia]
    snapshots,    \* RawSnapshot: [page -> revisions, in the order of fetchedAt]
    lastGood,     \* SourceFetchCache: [page -> its last good snapshot, 0 when there is none]
    tournament,   \* what is stored, with the import it comes from and that import's freshness
    diagnostics,  \* the import whose diagnostics are stored, NoImport when only those of its main page are
    process,      \* [Importers -> progress]
    committed     \* history: [page -> snapshots that were part of what a tournament was replaced by]

importerVars == <<revision, snapshots, lastGood, tournament, diagnostics, process, committed>>

NoTournament == [import |-> NoImport, freshness |-> NoImport, matches |-> {}]
NoPage == [stage |-> "none", snapshot |-> 0, publish |-> FALSE]
NoProcess == [stage |-> "none", force |-> FALSE, pages |-> [p \in LiquipediaPages |-> NoPage]]

Freshness(rev, started, fetched) == [revision |-> rev, started |-> started, fetched |-> fetched]

Listing(pages, rev) == UNION {Listed[p][rev[p]] : p \in pages}

\* Nothing was ever imported, or one import has just ended.
ImporterInit ==
    /\ revision = [p \in LiquipediaPages |-> 0]
    /\ diagnostics = NoImport
    /\ process = [i \in Importers |-> NoProcess]
    /\ \/ /\ snapshots = [p \in LiquipediaPages |-> <<>>]
          /\ lastGood = [p \in LiquipediaPages |-> 0]
          /\ committed = [p \in LiquipediaPages |-> {}]
          /\ tournament = NoTournament
       \/ /\ snapshots = [p \in LiquipediaPages |-> <<0>>]
          /\ lastGood = [p \in LiquipediaPages |-> 1]
          /\ committed = [p \in LiquipediaPages |-> {1}]
          /\ tournament = [import |-> 0, freshness |-> Freshness(0, 0, 1),
                           matches |-> Listing(LiquipediaPages, revision)]

PageOf(i, p) == process[i].pages[p]
PageStage(i, p, stage) == process[i].stage = "pages" /\ PageOf(i, p).stage = stage

SetPage(i, p, page) == process' = [process EXCEPT ![i].pages[p] = page]

\* The process ends: nothing of it is left but its place in the order.
EndsImport(i) == process' = [process EXCEPT ![i] = [NoProcess EXCEPT !.stage = "over"]]

-----------------------------------------------------------------------------
(* importLiquipediaTournament and processSinglePage. *)

importLiquipediaTournament(i, force) ==
    /\ process[i].stage = "none"
    /\ \A j \in 1..(i - 1) : process[j].stage # "none"
    /\ process' = [process EXCEPT ![i].stage = "pages", ![i].force = force,
                                  ![i].pages[Main] = [NoPage EXCEPT !.stage = "lookup"]]
    /\ UNCHANGED <<revision, snapshots, lastGood, tournament, diagnostics, committed>>

\* A page that is had in full; publish says whether it is to become the last good one.
Loaded(n, publish) == [stage |-> "done", snapshot |-> n, publish |-> publish]

\* A page that is stale, carries a warning or is missing.
Incomplete == [NoPage EXCEPT !.stage = "incomplete"]

\* A snapshot is used; its HTML may be missing still, and not to be had.
readSnapshot(i, p, n, publish) == \E page \in {Loaded(n, publish), Incomplete} : SetPage(i, p, page)

\* The cache when it is fresh, or else the newest raw snapshot when it is, unless the refresh is forced.
lookUp(i, p) ==
    /\ PageStage(i, p, "lookup")
    /\ \/ ~process[i].force /\ lastGood[p] # 0 /\ readSnapshot(i, p, lastGood[p], FALSE)
       \/ ~process[i].force /\ snapshots[p] # <<>> /\ readSnapshot(i, p, Len(snapshots[p]), TRUE)
       \/ /\ ~process[i].force /\ lastGood[p] # 0
          /\ SetPage(i, p, [NoPage EXCEPT !.stage = "revision", !.snapshot = lastGood[p]])
       \/ /\ process[i].force \/ lastGood[p] = 0
          /\ SetPage(i, p, [NoPage EXCEPT !.stage = "fetch"])
    /\ UNCHANGED <<revision, snapshots, lastGood, tournament, diagnostics, committed>>

\* The last good snapshot still holds when the page has the same revision.
checkRevision(i, p) ==
    /\ PageStage(i, p, "revision")
    /\ LET n == PageOf(i, p).snapshot
       IN  IF snapshots[p][n] = revision[p] THEN readSnapshot(i, p, n, TRUE)
           ELSE SetPage(i, p, [NoPage EXCEPT !.stage = "fetch"])
    /\ UNCHANGED <<revision, snapshots, lastGood, tournament, diagnostics, committed>>

\* The revision cannot be checked: the page is fetched, with a warning.
revisionCheckFails(i, p) ==
    /\ PageStage(i, p, "revision")
    /\ SetPage(i, p, [NoPage EXCEPT !.stage = "warned"])
    /\ UNCHANGED <<revision, snapshots, lastGood, tournament, diagnostics, committed>>

\* The page is fetched and kept whatever becomes of the import; its HTML may not be had.
fetchPage(i, p) ==
    /\ PageStage(i, p, "fetch") \/ PageStage(i, p, "warned")
    /\ snapshots' = [snapshots EXCEPT ![p] = Append(@, revision[p])]
    /\ \/ PageStage(i, p, "fetch") /\ SetPage(i, p, Loaded(Len(snapshots'[p]), TRUE))
       \/ SetPage(i, p, Incomplete)
    /\ UNCHANGED <<revision, lastGood, tournament, diagnostics, committed>>

\* An old snapshot is shown instead, or the page is missing: without its main page an import ends.
fetchFails(i, p) ==
    /\ PageStage(i, p, "fetch") \/ PageStage(i, p, "warned")
    /\ \/ p = Main /\ EndsImport(i)
       \/ /\ p # Main \/ (~process[i].force /\ snapshots[p] # <<>>)
          /\ SetPage(i, p, Incomplete)
    /\ UNCHANGED <<revision, snapshots, lastGood, tournament, diagnostics, committed>>

\* The main page names the subpages, which are loaded side by side.
openSubpages(i) ==
    /\ PageStage(i, Main, "done") \/ PageStage(i, Main, "incomplete")
    /\ \A p \in Subpages : PageOf(i, p).stage = "none"
    /\ process' = [process EXCEPT ![i].pages =
          [p \in LiquipediaPages |-> IF p = Main THEN @[p] ELSE [NoPage EXCEPT !.stage = "lookup"]]]
    /\ UNCHANGED <<revision, snapshots, lastGood, tournament, diagnostics, committed>>

-----------------------------------------------------------------------------
(* importTournamentRecursive. *)

\* Mutant: a subpage that is stale or missing is only logged.
MainPageComplete(i) == PageStage(i, Main, "done")

\* assessLiquipediaSnapshotHealth
Validated(i) == \A p \in LiquipediaPages : PageStage(i, p, "done")

RevisionOf(i) == [p \in LiquipediaPages |-> snapshots[p][PageOf(i, p).snapshot]]
CandidateMatches(i) == Listing({p \in LiquipediaPages : PageStage(i, p, "done")}, RevisionOf(i))
CandidateFreshness(i) == Freshness(RevisionOf(i)[Main], i, PageOf(i, Main).snapshot)

\* Mutant: the import that started last wins, whatever it has read.
LaterStart(candidate, current) == candidate.started < current.started

shouldRejectSuperseded(candidate, current) ==
    IF candidate.revision # current.revision THEN candidate.revision < current.revision
    ELSE IF candidate.started # current.started THEN candidate.started < current.started
    ELSE candidate.fetched < current.fetched

\* shouldKeepPreviousMatches; whether the quality is poor depends on what is left out.
FewMatches(new, old, poor) ==
    /\ new < old
    /\ new < 2 \/ 4 * new < old \/ (poor /\ 5 * new < 4 * old)

KeepsPrevious(i, poor) ==
    \/ CandidateMatches(i) = {}
    \/ FewMatches(Cardinality(CandidateMatches(i)), Cardinality(tournament.matches), poor)

Superseded(i) == tournament.import # NoImport /\ shouldRejectSuperseded(CandidateFreshness(i), tournament.freshness)

\* One transaction under the lock of the tournament, when all pages have been dealt with: it replaces
\* the tournament, or leaves it alone but for a warning.
commitTournament(i) ==
    /\ \A p \in LiquipediaPages : PageStage(i, p, "done") \/ PageStage(i, p, "incomplete")
    /\ \E poor \in BOOLEAN :
          IF Validated(i) /\ ~Superseded(i) /\ ~KeepsPrevious(i, poor)
          THEN /\ tournament' = [import |-> i, freshness |-> CandidateFreshness(i), matches |-> CandidateMatches(i)]
               /\ diagnostics' = NoImport
               /\ committed' = [p \in LiquipediaPages |-> committed[p] \cup {PageOf(i, p).snapshot}]
               /\ process' = [process EXCEPT ![i].stage = "publish"]
          ELSE EndsImport(i) /\ UNCHANGED <<tournament, diagnostics, committed>>
    /\ UNCHANGED <<revision, snapshots, lastGood>>

\* Mutant: what is published last stays.
NeverSkips(p, n) == FALSE

\* shouldSkipLiquipediaSourceFetchPublication
SkipsPublication(p, n) ==
    LET current == lastGood[p]
    IN  /\ current \notin {0, n}
        /\ IF snapshots[p][n] # snapshots[p][current] THEN snapshots[p][current] > snapshots[p][n]
           ELSE current > n

\* publishLiquipediaSourceFetchSuccess, for each page on its own; it may fail.
publish(i, p) ==
    /\ process[i].stage = "publish" /\ PageOf(i, p).publish
    /\ process' = [process EXCEPT ![i].pages[p].publish = FALSE]
    /\ LET n == PageOf(i, p).snapshot
       IN  \/ ~SkipsPublication(p, n) /\ lastGood' = [lastGood EXCEPT ![p] = n]
           \/ UNCHANGED lastGood
    /\ UNCHANGED <<revision, snapshots, tournament, diagnostics, committed>>

\* sameLiquipediaImportFreshness
SameFreshness(i) == tournament.freshness = CandidateFreshness(i)

persistMergedDiagnostics(i) ==
    /\ process[i].stage = "publish" /\ \A p \in LiquipediaPages : ~PageOf(i, p).publish
    /\ EndsImport(i)
    /\ diagnostics' = IF SameFreshness(i) THEN i ELSE diagnostics
    /\ UNCHANGED <<revision, snapshots, lastGood, tournament, committed>>

-----------------------------------------------------------------------------
(* Others. *)

\* Something throws, or the process dies.
stops(i) ==
    /\ process[i].stage \in {"pages", "publish"}
    /\ EndsImport(i)
    /\ UNCHANGED <<revision, snapshots, lastGood, tournament, diagnostics, committed>>

editPage(p) ==
    /\ revision[p] < MaxRevision
    /\ revision' = [revision EXCEPT ![p] = @ + 1]
    /\ UNCHANGED <<snapshots, lastGood, tournament, diagnostics, process, committed>>

ImporterNext ==
    \/ \E i \in Importers :
          \/ \E force \in BOOLEAN : importLiquipediaTournament(i, force)
          \/ \E p \in LiquipediaPages :
                \/ lookUp(i, p) \/ checkRevision(i, p) \/ revisionCheckFails(i, p)
                \/ fetchPage(i, p) \/ fetchFails(i, p) \/ publish(i, p)
          \/ openSubpages(i) \/ commitTournament(i) \/ persistMergedDiagnostics(i) \/ stops(i)
    \/ \E p \in LiquipediaPages : editPage(p)

ImporterSpec == ImporterInit /\ [][ImporterNext]_importerVars

-----------------------------------------------------------------------------
(* Properties. *)

\* The tournament never goes back to an older revision of its main page, whichever of two imports
\* read it first, whichever took it from a cache and whichever finishes last.
MainPageAdvances ==
    [][tournament.import # NoImport => tournament'.freshness.revision >= tournament.freshness.revision]_importerVars

\* Only what was stored as a whole becomes last good, and no late publication puts an older revision,
\* or an older reading of the same one, back.
LastGoodAdvances ==
    [][\A p \in LiquipediaPages :
          lastGood'[p] # lastGood[p] =>
             LET old == lastGood[p]  new == lastGood'[p]
             IN  /\ new \in committed[p]
                 /\ old # 0 => \/ snapshots[p][old] < snapshots[p][new]
                               \/ snapshots[p][old] = snapshots[p][new] /\ old < new]_importerVars

\* The matches stored are those of all pages, none of them missing, each page as some snapshot of it
\* that was stored with an import shows it, and the diagnostics are of the stored import or none.
StoredIsWhole ==
    /\ tournament.import # NoImport =>
          \E revs \in [LiquipediaPages -> 0..MaxRevision] :
             /\ revs[Main] = tournament.freshness.revision
             /\ \A p \in LiquipediaPages : \E n \in DOMAIN snapshots[p] : n \in committed[p] /\ snapshots[p][n] = revs[p]
             /\ tournament.matches = Listing(LiquipediaPages, revs)
    /\ diagnostics \in {NoImport, tournament.import}
=============================================================================
