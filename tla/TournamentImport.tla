-------------------------- MODULE TournamentImport --------------------------
(***************************************************************************)
(* Importing a tournament page from HLTV, DLTV and the beach volleyball    *)
(* sources (backend/src/sources), while an operator edits team mappings.   *)
(* An import creates its record, fetches a snapshot, decides whether it    *)
(* may replace what is stored, and writes everything in one Serializable   *)
(* transaction that is tried again when PostgreSQL reports a conflict.     *)
(* What a transaction reads it reads at its beginning; a row it writes     *)
(* that somebody changed since then is a conflict.  Advisory locks only    *)
(* make such conflicts rarer and are left out.  A page is its tournament.  *)
(***************************************************************************)
EXTENDS Naturals, FiniteSets

CONSTANTS
    Imports,      \* import records; their numbers are in the order of the ids
    Pages,        \* pages of the sources, each of one tournament
    Source,       \* the source of a page: "hltv", "dltv" or "beach"
    Matches,      \* match ids, unique over all tournaments
    Names,        \* names of teams
    Ids,          \* platform ids of teams
    MaxTime,      \* bound of the clock startedAt is read from
    MaxEdits,     \* bound of the edits under way at the same time
    None          \* SQL null

ASSUME SourcesAssumption == Source \in [Pages -> {"hltv", "dltv", "beach"}]
ASSUME BoundsAssumption == Imports \subseteq Nat /\ MaxTime \in Nat /\ MaxEdits \in Nat

Missing == "missing"   \* no participant row of that name

ASSUME NoneAssumption == None \notin Imports \cup Pages \cup Ids /\ Missing \notin Ids \cup {None}

\* What is parsed from a page: data from an old cache or with failed pages is not valid.
Snapshots == [valid : BOOLEAN, matches : SUBSET Matches, teams : SUBSET Names, empty : {"no", "generic", "cancelled"}]

VARIABLES
    now,            \* the clock
    imports,        \* the import records with the progress of the process that runs each
    lastImport,     \* lastImportId of the tournament of a page, None when there is no tournament
    matches,        \* the import that wrote the row of a match, None when there is none
    participants,   \* platformId of the row of a name in a tournament, or Missing
    mapping,        \* platformId of the team mapping of a name
    edits           \* edits of mappings whose cascade to the participants is still to come

vars == <<now, imports, lastImport, matches, participants, mapping, edits>>

NoSnapshot == [valid |-> FALSE, matches |-> {}, teams |-> {}, empty |-> "no"]
NoView == [mapping |-> [n \in Names |-> None], rows |-> [n \in Names |-> Missing], matches |-> {}]

TypeOK ==
    /\ now \in 0..MaxTime
    /\ imports \in [Imports ->
          [page : Pages \cup {None}, status : {"NONE", "PENDING", "SUCCESS", "FAILED"}, startedAt : 0..MaxTime,
           stage : {"none", "fetching", "fetched", "ready", "open", "committed", "caught", "done"},
           snapshot : Snapshots, attempt : 1..3, outdated : BOOLEAN,
           view : [mapping : [Names -> Ids \cup {None}], rows : [Names -> Ids \cup {None, Missing}], matches : SUBSET Matches]]]
    /\ lastImport \in [Pages -> Imports \cup {None}]
    /\ matches \in [Matches -> Imports \cup {None}]
    /\ participants \in [Pages -> [Names -> Ids \cup {None, Missing}]]
    /\ mapping \in [Names -> Ids \cup {None}]
    /\ edits \subseteq [name : Names, id : Ids \cup {None}, nr : 1..MaxEdits]

Init ==
    /\ now = 0
    /\ imports = [i \in Imports |-> [page |-> None, status |-> "NONE", startedAt |-> 0, stage |-> "none",
                     snapshot |-> NoSnapshot, attempt |-> 1, outdated |-> FALSE, view |-> NoView]]
    /\ lastImport = [p \in Pages |-> None]
    /\ matches = [m \in Matches |-> None]
    /\ participants = [p \in Pages |-> [n \in Names |-> Missing]]
    /\ mapping = [n \in Names |-> None]
    /\ edits = {}

OwnedBy(p) == {m \in Matches : matches[m] # None /\ imports[matches[m]].page = p}

Persisted(p) == OwnedBy(p) # {} \/ \E n \in Names : participants[p][n] # Missing

\* The process of the import goes on to the stage.
Goes(i, stage) == imports' = [imports EXCEPT ![i].stage = stage]

\* It gives up what it held in memory; what a tournament was written from is kept for the properties.
Leaves(i, stage) ==
    imports' = [imports EXCEPT ![i].stage = stage, ![i].attempt = 1, ![i].outdated = FALSE, ![i].view = NoView,
                               ![i].snapshot = IF imports[i].status = "SUCCESS" THEN @ ELSE NoSnapshot]

-----------------------------------------------------------------------------
(* The import up to its transaction. *)

start(i, p) ==
    /\ imports[i].stage = "none"
    /\ imports' = [imports EXCEPT ![i].stage = "fetching", ![i].page = p, ![i].status = "PENDING", ![i].startedAt = now]
    /\ UNCHANGED <<now, lastImport, matches, participants, mapping, edits>>

\* What the fetch of a page may return: only HLTV says why a page is empty, the beach clients throw
\* instead of returning invalid data, and of what no source lets pass one value is enough.
Answers(p) == {snap \in Snapshots :
    /\ snap.valid \/ (snap = NoSnapshot /\ Source[p] # "beach")
    /\ snap.matches = {} => snap.teams = {}
    /\ snap.empty # "no" => Source[p] = "hltv" /\ snap.matches = {}}

fetch(i) ==
    /\ imports[i].stage = "fetching"
    /\ \E snap \in Answers(imports[i].page) :
          imports' = [imports EXCEPT ![i].stage = "fetched", ![i].snapshot = snap]
    /\ UNCHANGED <<now, lastImport, matches, participants, mapping, edits>>

decideTournamentSnapshotWrite(incoming, validated, explicitEmpty) == validated /\ (incoming # {} \/ explicitEmpty)

shouldReplaceDltv(snap) == decideTournamentSnapshotWrite(snap.matches, snap.valid, FALSE)
prepareBeach(snap) == decideTournamentSnapshotWrite(snap.matches, TRUE, FALSE)
shouldReplaceHltv(snap, persisted) == decideTournamentSnapshotWrite(snap.matches, snap.valid,
    snap.empty = "cancelled" \/ (snap.empty = "generic" /\ ~persisted))

\* HLTV also reads what is stored, outside of any transaction.
Accepts(p, snap) ==
    CASE Source[p] = "hltv" -> shouldReplaceHltv(snap, Persisted(p))
      [] Source[p] = "dltv" -> shouldReplaceDltv(snap)
      [] Source[p] = "beach" -> prepareBeach(snap)

decide(i) ==
    /\ imports[i].stage = "fetched"
    /\ IF Accepts(imports[i].page, imports[i].snapshot) THEN Goes(i, "ready") ELSE Leaves(i, "caught")
    /\ UNCHANGED <<now, lastImport, matches, participants, mapping, edits>>

-----------------------------------------------------------------------------
(* The transaction. *)

Older(i, j) ==
    \/ imports[i].startedAt < imports[j].startedAt
    \/ imports[i].startedAt = imports[j].startedAt /\ i < j

compareTournamentImportFreshness(i, j) == Older(i, j)

\* assertTournamentImportFresh
Stale(i) ==
    LET current == lastImport[imports[i].page]
    IN  current # None /\ compareTournamentImportFreshness(i, current)

\* refreshTournamentMatchesPreservingState: a match id belongs to another tournament.
Foreign(i) == \E m \in imports[i].snapshot.matches : matches[m] # None /\ imports[matches[m]].page # imports[i].page

\* Mutant: the count made before the transaction is trusted.
TrustsEarlierCount(i) == FALSE

\* HLTV counts the stored rows again: a generic empty schedule replaces nothing.
EmptiesStored(i) ==
    /\ imports[i].snapshot.matches = {}
    /\ imports[i].snapshot.empty = "generic"
    /\ lastImport[imports[i].page] # None
    /\ Persisted(imports[i].page)

Rejected(i) == Stale(i) \/ Foreign(i) \/ EmptiesStored(i)

View(i) == [mapping |-> mapping, rows |-> participants[imports[i].page], matches |-> OwnedBy(imports[i].page)]

begin(i) ==
    /\ imports[i].stage = "ready"
    /\ IF Rejected(i) THEN Leaves(i, "caught")
       ELSE imports' = [imports EXCEPT ![i].stage = "open", ![i].outdated = FALSE, ![i].view = View(i)]
    /\ UNCHANGED <<now, lastImport, matches, participants, mapping, edits>>

\* Names of the participants whose rows the transaction updates or deletes.
WrittenRows(i) ==
    {n \in Names : /\ imports[i].view.rows[n] # Missing
                   /\ n \in imports[i].snapshot.teams \/ imports[i].view.rows[n] = None}

\* Two transactions read and write common rows: one tournament, or one match id.
Overlap(i, j) ==
    \/ imports[i].page = imports[j].page
    \/ imports[i].snapshot.matches \cap imports[j].snapshot.matches # {}

\* Open transactions that must notice what the step wrote.
Outdate(conflicting) == [j \in Imports |->
    [imports[j] EXCEPT !.outdated = @ \/ (imports[j].stage = "open" /\ j \in conflicting)]]

\* mergeTournamentParticipantManualFields: the stored id wins over the mapping.
MergedId(i, n) ==
    IF imports[i].view.rows[n] \in Ids THEN imports[i].view.rows[n] ELSE imports[i].view.mapping[n]

refreshTournamentParticipants(i) == [n \in Names |->
    CASE n \in imports[i].snapshot.teams -> MergedId(i, n)
      [] n \in WrittenRows(i) \ imports[i].snapshot.teams -> Missing
      [] OTHER -> participants[imports[i].page][n]]

refreshTournamentMatches(i) == [m \in Matches |->
    CASE m \in imports[i].snapshot.matches -> i
      [] m \in imports[i].view.matches \ imports[i].snapshot.matches -> None
      [] OTHER -> matches[m]]

\* Mutant: the transaction is not Serializable.
NoConflict(i) == FALSE

\* PostgreSQL answers P2034: the transaction would overwrite or miss what was committed meanwhile.
Conflict(i) == imports[i].outdated

commit(i) ==
    /\ imports[i].stage = "open" /\ ~Conflict(i)
    /\ lastImport' = [lastImport EXCEPT ![imports[i].page] = i]
    /\ matches' = refreshTournamentMatches(i)
    /\ participants' = [participants EXCEPT ![imports[i].page] = refreshTournamentParticipants(i)]
    /\ LET conflicting == {j \in Imports \ {i} : Overlap(i, j)}
       IN  imports' = [Outdate(conflicting) EXCEPT ![i].stage = "committed", ![i].status = "SUCCESS", ![i].attempt = 1, ![i].view = NoView]
    /\ UNCHANGED <<now, mapping, edits>>

\* The transaction is tried three times.
retry(i) ==
    /\ imports[i].stage = "open" /\ Conflict(i)
    /\ IF imports[i].attempt < 3
       THEN imports' = [imports EXCEPT ![i].stage = "ready", ![i].attempt = @ + 1, ![i].outdated = FALSE, ![i].view = NoView]
       ELSE Leaves(i, "caught")
    /\ UNCHANGED <<now, lastImport, matches, participants, mapping, edits>>

-----------------------------------------------------------------------------
(* The end of an import. *)

\* The source or the database fails; after the commit the tournament is read once more.
throw(i) ==
    /\ imports[i].stage \in {"fetching", "fetched", "ready", "open", "committed"}
    /\ Leaves(i, "caught")
    /\ UNCHANGED <<now, lastImport, matches, participants, mapping, edits>>

\* Mutant: whatever threw, the record becomes FAILED.
AlwaysMarksFailed(i) == TRUE

\* Only a record that is still PENDING becomes FAILED.
MarksFailed(i) == imports[i].status = "PENDING"

markFailed(i) ==
    /\ imports[i].stage = "caught"
    /\ imports' = [imports EXCEPT ![i].stage = "done", ![i].status = IF MarksFailed(i) THEN "FAILED" ELSE @]
    /\ UNCHANGED <<now, lastImport, matches, participants, mapping, edits>>

\* The answer is sent, or the process dies: an open transaction is rolled back.
leave(i) ==
    /\ imports[i].stage \notin {"none", "done"}
    /\ Leaves(i, "done")
    /\ UNCHANGED <<now, lastImport, matches, participants, mapping, edits>>

-----------------------------------------------------------------------------
(* The operator and the clock. *)

\* POST and DELETE team-mapping: first the mapping ...
saveMapping(n, id, k) ==
    /\ \A e \in edits : e.nr # k
    /\ mapping[n] # id
    /\ mapping' = [mapping EXCEPT ![n] = id]
    /\ edits' = edits \cup {[name |-> n, id |-> id, nr |-> k]}
    /\ UNCHANGED <<now, imports, lastImport, matches, participants>>

\* ... then the rows of that name in every tournament, in a statement of its own.
cascade(e) ==
    /\ e \in edits
    /\ participants' = [p \in Pages |->
          [participants[p] EXCEPT ![e.name] = IF @ = Missing THEN @ ELSE e.id]]
    /\ imports' = Outdate({j \in Imports : e.name \in WrittenRows(j)})
    /\ edits' = edits \ {e}
    /\ UNCHANGED <<now, lastImport, matches, mapping>>

tick ==
    /\ now < MaxTime
    /\ now' = now + 1
    /\ UNCHANGED <<imports, lastImport, matches, participants, mapping, edits>>

Progress(i) == fetch(i) \/ decide(i) \/ begin(i) \/ commit(i) \/ retry(i) \/ throw(i) \/ markFailed(i) \/ leave(i)

Edit ==
    \/ \E n \in Names, id \in Ids \cup {None}, k \in 1..MaxEdits : saveMapping(n, id, k)
    \/ \E e \in edits : cascade(e)

Next ==
    \/ \E i \in Imports, p \in Pages : start(i, p)
    \/ \E i \in Imports : Progress(i)
    \/ Edit
    \/ tick

Spec == Init /\ [][Next]_vars

-----------------------------------------------------------------------------
(* Properties. *)

\* An import that started earlier, or at the same moment with a smaller id, never replaces the
\* import a tournament was last written by, in whatever order the two finish.
FresherImportWins == [][\A p \in Pages :
    lastImport[p] # None /\ lastImport'[p] # lastImport[p] =>
        LET old == imports[lastImport[p]]  new == imports[lastImport'[p]]
        IN  \/ old.startedAt < new.startedAt
            \/ old.startedAt = new.startedAt /\ lastImport[p] < lastImport'[p]]_vars

\* What a tournament holds is the whole snapshot of one import that succeeded: exactly its matches,
\* all its teams, and never a record called FAILED because something broke after the commit.
SnapshotIsWhole ==
    /\ \A p \in Pages : lastImport[p] # None =>
          LET i == lastImport[p]
          IN  /\ imports[i].status = "SUCCESS"
              /\ \A m \in imports[i].snapshot.matches : matches[m] = i
              /\ \A n \in imports[i].snapshot.teams : participants[p][n] # Missing
    /\ \A m \in Matches : matches[m] # None =>
          lastImport[imports[matches[m]].page] = matches[m] /\ m \in imports[matches[m]].snapshot.matches

\* Type correctness, and tournaments stored as a whole.
StoredSoundly == TypeOK /\ SnapshotIsWhole

\* Stored matches disappear as a whole only when the page says that the event was cancelled.
LastGoodKept == [][\A p \in Pages :
    OwnedBy(p) # {} /\ OwnedBy(p)' = {} => imports'[lastImport'[p]].snapshot.empty = "cancelled"]_vars

\* An id a participant row got is changed or removed only by the cascade of an edit, never by an
\* import that read the row before.
EditsSurvive == [][\A p \in Pages, n \in Names :
    participants[p][n] \in Ids /\ participants'[p][n] # participants[p][n] =>
        \E e \in edits \ edits' : e.name = n /\ e.id = participants'[p][n]]_vars

=============================================================================
