---------------------------- MODULE TLineReview ----------------------------
(***************************************************************************)
(* The review of one TLine championship: checks that compare fresh         *)
(* snapshots of both sides (executor.ts) and operators who link matches,    *)
(* exclude them or take that back (manualDecisions.ts), at any time and on  *)
(* the rows of any check, old or new.                                      *)
(*                                                                         *)
(* A check without an Admin adapter, Admin ids or tolerances keeps the      *)
(* matches of the site and ends there: it reads no links and no exceptions. *)
(* What is configured may change between checks, so each check may be of    *)
(* either kind.                                                            *)
(*                                                                         *)
(* Who executes the check, and what becomes of it when its worker fails, is *)
(* in TLineExecution.  Decisions that last no longer than their row         *)
(* (MANUAL_OK, MANUAL_ERROR, an exclusion that is not persistent) and the   *)
(* row a decision is shown in are left out.                                *)
(***************************************************************************)
EXTENDS TLineComparison

CONSTANTS
    SourceIds, AdminIds,
    SourceLists,    \* what the official site may show: sequences of matches
    AdminLists,     \* what the Admin line may show
    MaxDecisions    \* bound of the decisions of operators

ASSUME ReviewAssumption == IsFiniteSet(SourceIds) /\ NoMatch \notin SourceIds \cup AdminIds

VARIABLES
    link,          \* TLinePersistentMatchLink: [SourceIds -> match of the Admin line or NoMatch]
    exceptions,    \* TLineException: the active ones that have not expired
    check,         \* the check being executed
    comparisons,   \* TLineComparison of the newest check, when it is complete
    decided,       \* history: ids a decision was about, or an exception expired for, since the check began
    decisions      \* history: the number of decisions

reviewVars == <<link, exceptions, check, comparisons, decided, decisions>>

NoCheck == [stage |-> "none", sources |-> <<>>, admins |-> <<>>, links |-> <<>>, exceptions |-> {}]

ReviewInit ==
    /\ link = [s \in SourceIds |-> NoMatch]
    /\ exceptions = {} /\ comparisons = <<>>
    /\ check = NoCheck
    /\ decided = {} /\ decisions = 0

InCheck(stage) == check.stage = stage
IdsOf(matches) == {matches[i].id : i \in DOMAIN matches}

-----------------------------------------------------------------------------
(* executeChampionship. *)

\* The official site is read.
fetchChampionship ==
    /\ InCheck("none")
    /\ \E sources \in SourceLists :
          check' = [NoCheck EXCEPT !.stage = "official", !.sources = sources]
    /\ comparisons' = <<>> /\ decided' = {}
    /\ UNCHANGED <<link, exceptions, decisions>>

\* The Admin line cannot be asked: every match of the site is kept, with what the site says of its time.
persistSourceOnlyEvidence ==
    /\ InCheck("official")
    /\ comparisons' = [i \in DOMAIN check.sources |->
          LET status == IF check.sources[i].time = NoTime THEN "SOURCE_TIME_UNDEFINED" ELSE "SOURCE_ONLY"
          IN  [row |-> SourceRow(check.sources[i], status), ignored |-> FALSE]]
    /\ check' = NoCheck
    /\ UNCHANGED <<link, exceptions, decided, decisions>>

\* The Admin line is read.
fetchMatches ==
    /\ InCheck("official")
    /\ \E admins \in AdminLists : check' = [check EXCEPT !.stage = "fetched", !.admins = admins]
    /\ UNCHANGED <<link, exceptions, comparisons, decided, decisions>>

\* The links come in no particular order.
ActiveLinks == {[source |-> s, admin |-> link[s]] : s \in {t \in SourceIds : link[t] # NoMatch}}

readLinks ==
    /\ InCheck("fetched")
    /\ \E links \in SetToSeqs(ActiveLinks) :
          check' = [check EXCEPT !.stage = "compared", !.links = links]
    /\ UNCHANGED <<link, exceptions, comparisons, decided, decisions>>

readExceptions ==
    /\ InCheck("compared")
    /\ check' = [check EXCEPT !.stage = "ready", !.exceptions = exceptions]
    /\ UNCHANGED <<link, exceptions, comparisons, decided, decisions>>

\* An exception is about a row when it names either of its matches.
Concerns(exception, row) ==
    \/ row.source # NoMatch /\ exception.source = row.source
    \/ row.admin # NoMatch /\ exception.admin = row.admin

Verdict(row) ==
    [row |-> row, ignored |-> \E e \in check.exceptions : Concerns(e, row)]

saveComparisons ==
    /\ InCheck("ready")
    /\ LET rows == compareTLineMatches(check.sources, check.admins, check.links)
       IN  comparisons' = [i \in DOMAIN rows |-> Verdict(rows[i])]
    /\ check' = NoCheck
    /\ UNCHANGED <<link, exceptions, decided, decisions>>

abandonCheck ==
    /\ ~InCheck("none")
    /\ check' = NoCheck
    /\ UNCHANGED <<link, exceptions, comparisons, decided, decisions>>

-----------------------------------------------------------------------------
(* Decisions, each in one transaction, on a row with these two matches.     *)

Overlaps(exception, source, admin) ==
    \/ source # NoMatch /\ exception.source = source
    \/ admin # NoMatch /\ exception.admin = admin

Others(source, admin) == {e \in exceptions : ~Overlaps(e, source, admin)}

Decides(ids) ==
    /\ decisions < MaxDecisions
    /\ decisions' = decisions + 1
    /\ decided' = decided \cup (ids \ {NoMatch})
    /\ UNCHANGED <<check, comparisons>>

MANUAL_LINK(source, admin) ==
    /\ link' = [link EXCEPT ![source] = admin]
    /\ Decides({source, admin, link[source]})
    /\ UNCHANGED exceptions

\* The ids a decision on exceptions is about.
About(source, admin) ==
    {source, admin} \cup (UNION {{e.source, e.admin} : e \in exceptions \ Others(source, admin)})

\* EXCLUDE and IGNORE_UNTIL.
exclude(source, admin) ==
    /\ exceptions' = Others(source, admin) \cup {[source |-> source, admin |-> admin]}
    /\ Decides(About(source, admin))
    /\ UNCHANGED link

RESET(source, admin) ==
    /\ link' = IF source = NoMatch THEN link ELSE [link EXCEPT ![source] = NoMatch]
    /\ exceptions' = Others(source, admin)
    /\ Decides(About(source, admin) \cup (IF source = NoMatch THEN {} ELSE {link[source]}))

expires(e) ==
    /\ exceptions' = exceptions \ {e}
    /\ decided' = decided \cup ({e.source, e.admin} \ {NoMatch})
    /\ UNCHANGED <<link, check, comparisons, decisions>>

Decide(source, admin) ==
    \/ source # NoMatch /\ admin # NoMatch /\ MANUAL_LINK(source, admin)
    \/ source # admin /\ (exclude(source, admin) \/ RESET(source, admin))

ReviewNext ==
    \/ fetchChampionship \/ persistSourceOnlyEvidence \/ fetchMatches
    \/ readLinks \/ readExceptions \/ saveComparisons \/ abandonCheck
    \/ \E source \in SourceIds \cup {NoMatch}, admin \in AdminIds \cup {NoMatch} : Decide(source, admin)
    \/ \E e \in exceptions : expires(e)

ReviewSpec == ReviewInit /\ [][ReviewNext]_reviewVars

-----------------------------------------------------------------------------
(* Properties. *)

\* A check stores rows; one that has asked both sides does so from its stage "ready".
Saves == comparisons' # <<>> /\ comparisons' # comparisons
Compares == Saves /\ InCheck("ready")
Rows == {comparisons[i] : i \in DOMAIN comparisons}
Paired(s, a) == \E v \in Rows : v.row.source = s /\ v.row.admin = a

\* The matches of a link are one row, unless another link claims the same match of the Admin line.
LinksCount ==
    \A s \in IdsOf(check.sources) \ decided :
        link[s] \in IdsOf(check.admins) \ decided =>
           \/ Paired(s, link[s])'
           \/ \E t \in IdsOf(check.sources) \ {s} : link[t] = link[s] \/ t \in decided

\* A row is ignored exactly when an exception names it.
ExceptionsCount ==
    \A v \in Rows' :
        {v.row.source, v.row.admin} \cap decided = {} =>
           v.ignored = (\E e \in exceptions : Concerns(e, v.row))

\* The last word of an operator counts in every comparison of both sides that began after it, however
\* many checks of the site alone came between; one spoken during a comparison is heard by it or by the
\* next.  A check of the site alone applies no link and no exception, so nothing is said of it here.
LastWordCounts == [][Compares => LinksCount /\ ExceptionsCount]_reviewVars

EntriesOf(matches, id) == {m \in ToSet(matches) : m.id = id}

\* No match is lost, whether the Admin line was asked or not: each of the site has a row, and each of
\* the Admin line is in a row, a candidate of one, or was taken for the event of a duplicate of its
\* teams; none is paired with two.
EveryMatchAccountedFor ==
    [][Saves =>
        /\ \A s \in IdsOf(check.sources) : \E v \in Rows' : v.row.source = s
        /\ \A a \in IdsOf(check.admins) :
              \/ \E v \in Rows' : a \in {v.row.admin} \cup v.row.candidates
              \/ \E v \in Rows' : v.row.status = "DUPLICATE_SOURCE" /\
                    \E s \in EntriesOf(check.sources, v.row.source), m \in EntriesOf(check.admins, a) :
                       s.pair = m.pair /\ InWindow(s, m)
        /\ \A i, j \in DOMAIN comparisons' :
              i # j /\ comparisons'[i].row.source # NoMatch /\ comparisons'[i].row.admin # NoMatch =>
                 comparisons'[i].row.admin # comparisons'[j].row.admin]_reviewVars

\* Matches that could have been paired are not left single, and no exchange of the matches of two
\* rows the comparison paired by itself would bring them nearer in time.
PairsAreBest ==
    [][Saves =>
        LET of(v) == CHOOSE s \in EntriesOf(check.sources, v.row.source) : TRUE
            with(v) == CHOOSE a \in EntriesOf(check.admins, v.row.admin) : TRUE
            fits(s, a) == s.pair = a.pair /\ InWindow(s, a)
            single(status) == {v \in Rows' : v.row.status = status}
            automatic == {v \in Rows' : v.row.source # NoMatch /\ v.row.admin # NoMatch /\ ~v.row.linked}
        IN  /\ \A v \in single("SOURCE_ONLY"), w \in single("ADMIN_ONLY") : ~fits(of(v), with(w))
            /\ \A v, w \in automatic :
                  fits(of(v), with(w)) /\ fits(of(w), with(v)) =>
                     Delta(of(v), with(v)) + Delta(of(w), with(w))
                        <= Delta(of(v), with(w)) + Delta(of(w), with(v))]_reviewVars
=============================================================================
