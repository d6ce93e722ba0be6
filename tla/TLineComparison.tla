-------------------------- MODULE TLineComparison --------------------------
(***************************************************************************)
(* How TLine compares the matches of one championship on the official site *)
(* with those in the Admin line (backend/src/tline/comparison/engine.ts):  *)
(* links of the operator first, then what cannot be decided - unmapped     *)
(* teams, duplicates, ambiguity -, then the best pairs by time, then what  *)
(* is left on either side.                                                 *)
(*                                                                         *)
(* A match is a record of its id, the unordered pair of its Admin teams    *)
(* (Unmapped when one is missing), its time in minutes or NoTime, and its  *)
(* status.  Which side is at home, and the order of the rows, are left out; *)
(* so is the text of a time that is not exact.                             *)
(***************************************************************************)
EXTENDS Integers, Sequences, FiniteSets, FiniteSetsExt, SequencesExt

CONSTANTS
    Window,       \* candidateMatchWindowMinutes
    Tolerance,    \* allowedTimeDriftMinutes
    NoTime,
    Unmapped,
    NoMatch          \* no match on that side of a row

Dist(s, t) == IF s > t THEN s - t ELSE t - s

\* candidateDeltaMinutes, where there is one: an undated match of the site fits every time.
InWindow(source, admin) ==
    \/ source.time = NoTime
    \/ admin.time # NoTime /\ Dist(source.time, admin.time) <= Window

Delta(source, admin) == IF source.time = NoTime THEN 0 ELSE Dist(source.time, admin.time)

moscowDate(time) == time \div 1440

SpecialStatuses == {"TBD", "POSTPONED", "CANCELLED"}

compareMatchedPair(source, admin) ==
    LET undated == {m \in {source, admin} : m.time = NoTime}
        drift == Dist(source.time, admin.time)
    IN  CASE source.status # admin.status -> "STATUS_MISMATCH"
          [] source.status = admin.status /\ undated # {} ->
                IF source.time = admin.time /\ source.status \in SpecialStatuses
                THEN "AUTO_OK" ELSE "SOURCE_TIME_UNDEFINED"
          [] OTHER ->
                CASE moscowDate(source.time) # moscowDate(admin.time) \/ drift > 30 -> "TIME_CRITICAL"
                  [] moscowDate(source.time) = moscowDate(admin.time) /\ drift <= Tolerance -> "AUTO_OK"
                  [] moscowDate(source.time) = moscowDate(admin.time) /\ drift \in (Tolerance + 1)..5 -> "TIME_WARNING"
                  [] OTHER -> "TIME_ERROR"

-----------------------------------------------------------------------------
(* The comparison so far: its rows, and the ids that are settled.  A row    *)
(* names a match of each side, or NoMatch, and the candidates it names.       *)

Row(source, admin, candidates, status) ==
    [source |-> source, admin |-> admin, candidates |-> candidates, status |-> status, linked |-> FALSE]

SourceRow(source, status) == Row(source.id, NoMatch, {}, status)
AdminRow(admin, status) == Row(NoMatch, admin.id, {admin.id}, status)
PairRow(source, admin) == Row(source.id, admin.id, {admin.id}, compareMatchedPair(source, admin))

With(done, rows, sources, admins) ==
    [rows |-> done.rows \o rows,
     sources |-> done.sources \cup {m.id : m \in sources},
     admins |-> done.admins \cup {m.id : m \in admins}]

Nothing == [rows |-> <<>>, sources |-> {}, admins |-> {}]

OpenSources(done, sources) == SelectSeq(sources, LAMBDA m : m.id \notin done.sources)
OpenMapped(done, sources) == SelectSeq(OpenSources(done, sources), LAMBDA m : m.pair # Unmapped)
OpenAdmins(done, admins) == SelectSeq(admins, LAMBDA m : m.id \notin done.admins)
WithId(matches, id) == SelectSeq(matches, LAMBDA m : m.id = id)

\* Mutant: a link has to be a pair the comparison could have found.
LikelyLinkStep(done, link, sources, admins) ==
    LET s == OpenSources(done, WithId(sources, link.source))
        a == OpenAdmins(done, WithId(admins, link.admin))
    IN  IF s = <<>> \/ a = <<>> \/ (s # <<>> /\ a # <<>> /\ ~InWindow(s[1], a[1])) THEN done
        ELSE With(done, <<[PairRow(s[1], a[1]) EXCEPT !.linked = TRUE]>>, {s[1]}, {a[1]})

\* The links of the operator, in the order they are read.
LinkStep(done, link, sources, admins) ==
    LET s == OpenSources(done, WithId(sources, link.source))
        a == OpenAdmins(done, WithId(admins, link.admin))
    IN  IF s = <<>> \/ a = <<>> THEN done
        ELSE With(done, <<[PairRow(s[1], a[1]) EXCEPT !.linked = TRUE]>>, {s[1]}, {a[1]})

UnmappedStep(done, source) ==
    IF source.id \in done.sources \/ source.pair # Unmapped THEN done
    ELSE With(done, <<SourceRow(source, "TEAM_UNMAPPED")>>, {source}, {})

SameEvent(m, n) == m.pair = n.pair /\ m.time = n.time /\ m.status = n.status

\* duplicateGroups: the groups of two or more entries that name one event, in order.
Repeated(matches) ==
    LET firsts == {i \in DOMAIN matches : \A j \in 1..(i - 1) : ~SameEvent(matches[j], matches[i])}
        order == SetToSortSeq(firsts, LAMBDA i, j : i < j)
        groups == [k \in DOMAIN order |-> SelectSeq(matches, LAMBDA m : SameEvent(m, matches[order[k]]))]
    IN  SelectSeq(groups, LAMBDA g : Len(g) > 1)

\* Mutant: every match of these teams in the Admin line is taken for the event.
DuplicatePairStep(done, group, admins) ==
    With(done, [i \in DOMAIN group |-> SourceRow(group[i], "DUPLICATE_SOURCE")], ToSet(group),
         {a \in ToSet(admins) : a.pair = group[1].pair})

DuplicateSourceStep(done, group, admins) ==
    With(done, [i \in DOMAIN group |-> SourceRow(group[i], "DUPLICATE_SOURCE")], ToSet(group),
         {a \in ToSet(admins) : a.pair = group[1].pair /\ InWindow(group[1], a)})

DuplicateAdminStep(done, group, sources) ==
    LET fitting == SelectSeq(OpenMapped(done, sources),
                             LAMBDA s : s.pair = group[1].pair /\ InWindow(s, group[1]))
        ids == {a.id : a \in ToSet(group)}
    IN  IF ids \cap done.admins # {} THEN done
        ELSE IF fitting = <<>>
        THEN With(done, [i \in DOMAIN group |-> AdminRow(group[i], "DUPLICATE_ADMIN")], {}, ToSet(group))
        ELSE With(done, <<Row(fitting[1].id, NoMatch, ids, "DUPLICATE_ADMIN")>>, {fitting[1]}, ToSet(group))

\* A match of the site with two nearest candidates is not guessed.
AmbiguousStep(done, source, admins) ==
    LET candidates == {a \in ToSet(OpenAdmins(done, admins)) : a.pair = source.pair /\ InWindow(source, a)}
        nearest == {a \in candidates : \A b \in candidates : Delta(source, a) <= Delta(source, b)}
    IN  IF source.id \in done.sources \/ Cardinality(nearest) < 2 THEN done
        ELSE With(done, <<Row(source.id, NoMatch, {a.id : a \in nearest}, "MATCH_AMBIGUOUS")>>, {source}, nearest)

Cost(pairs) == MapThenSumSet(LAMBDA p : Delta(p[1], p[2]), pairs)

\* Mutant: the cheapest wins, however few it pairs.
Cheaper(pairs, others) == Cost(pairs) < Cost(others)

Better(pairs, others) ==
    \/ Cardinality(pairs) > Cardinality(others)
    \/ Cardinality(pairs) = Cardinality(others) /\ Cost(pairs) < Cost(others)

\* The most pairs, and of those the nearest in time.
findMinimumCostAssignments(sources, admins) ==
    LET solve[i \in 1..(Len(sources) + 1), free \in SUBSET ToSet(admins)] ==
          IF i > Len(sources) THEN {}
          ELSE LET solutions ==
                     {solve[i + 1, free]} \cup
                     {{<<sources[i], a>>} \cup solve[i + 1, {b \in free : b.id # a.id}] :
                         a \in {b \in free : b.pair = sources[i].pair /\ InWindow(sources[i], b)}}
               IN  CHOOSE best \in solutions : \A other \in solutions : ~Better(other, best)
    IN  solve[1, ToSet(admins)]

AssignStep(done, sources, admins) ==
    LET pairs == findMinimumCostAssignments(OpenMapped(done, sources), OpenAdmins(done, admins))
        rows == SetToSeq(pairs)
    IN  With(done, [i \in DOMAIN rows |-> PairRow(rows[i][1], rows[i][2])],
             {p[1] : p \in pairs}, {p[2] : p \in pairs})

SourceRestStep(done, source) ==
    IF source.id \in done.sources THEN done
    ELSE With(done, <<SourceRow(source, IF source.time = NoTime THEN "SOURCE_TIME_UNDEFINED" ELSE "SOURCE_ONLY")>>,
              {source}, {})

AdminRestStep(done, admin) ==
    IF admin.id \in done.admins THEN done
    ELSE With(done, <<AdminRow(admin, "ADMIN_ONLY")>>, {}, {admin})

compareTLineMatches(sources, admins, links) ==
    LET linked == FoldLeft(LAMBDA done, link : LinkStep(done, link, sources, admins), Nothing, links)
        mapped == FoldLeft(UnmappedStep, linked, sources)
        single == FoldLeft(LAMBDA done, g : DuplicateSourceStep(done, g, admins), mapped,
                           Repeated(OpenMapped(mapped, sources)))
        unique == FoldLeft(LAMBDA done, g : DuplicateAdminStep(done, g, sources), single,
                           Repeated(OpenAdmins(single, admins)))
        certain == FoldLeft(LAMBDA done, s : AmbiguousStep(done, s, admins), unique,
                            OpenMapped(unique, sources))
        paired == AssignStep(certain, sources, admins)
    IN  FoldLeft(AdminRestStep, FoldLeft(SourceRestStep, paired, sources), admins).rows
=============================================================================
