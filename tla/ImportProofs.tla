---------------------------- MODULE ImportProofs ----------------------------
(***************************************************************************)
(* A tournament holds the whole snapshot of its freshest import, and what  *)
(* an operator edited survives, for any pages, imports and edits; one of   *)
(* Liquipedia holds all its pages, and neither it nor the last good page    *)
(* goes back, for any pages, revisions and imports.                        *)
(***************************************************************************)
EXTENDS TournamentImport, LiquipediaImport, TLAPS

Views == [mapping : [Names -> Ids \cup {None}], rows : [Names -> Ids \cup {None, Missing}], matches : SUBSET Matches]

ImportRow ==
    [page : Pages \cup {None}, status : {"NONE", "PENDING", "SUCCESS", "FAILED"}, startedAt : 0..MaxTime,
     stage : {"none", "fetching", "fetched", "ready", "open", "committed", "caught", "done"},
     snapshot : Snapshots, attempt : 1..3, outdated : BOOLEAN,
     view : Views]

ImportTypeOK ==
    /\ now \in 0..MaxTime
    /\ imports \in [Imports -> ImportRow]
    /\ lastImport \in [Pages -> Imports \cup {None}]
    /\ matches \in [Matches -> Imports \cup {None}]
    /\ participants \in [Pages -> [Names -> Ids \cup {None, Missing}]]
    /\ mapping \in [Names -> Ids \cup {None}]
    /\ edits \subseteq [name : Names, id : Ids \cup {None}, nr : 1..MaxEdits]

\* How far an import is, and what its record says.
StatusSound(i) ==
    /\ (imports[i].page = None) <=> (imports[i].stage = "none")
    /\ imports[i].stage = "none" => imports[i].status = "NONE"
    /\ imports[i].stage \in {"fetching", "fetched", "ready", "open"} => imports[i].status = "PENDING"
    /\ imports[i].stage \in {"ready", "open"} /\ imports[i].snapshot.matches = {} =>
          imports[i].snapshot.empty \in {"cancelled", "generic"}

\* A tournament was written by an import of its page, and so was a match of some tournament.
WrittenByOwn ==
    /\ \A p \in Pages : lastImport[p] # None => imports[lastImport[p]].page = p
    /\ \A m \in Matches : matches[m] # None => imports[matches[m]].page \in Pages

\* What a transaction decided at its beginning still holds, unless it is outdated: a commit comes
\* after everything committed so far.
ViewCurrent(i) ==
    imports[i].stage = "open" /\ ~imports[i].outdated =>
        /\ ~Stale(i) /\ ~Foreign(i)
        /\ imports[i].view.matches = OwnedBy(imports[i].page)
        /\ imports[i].snapshot.matches = {} /\ OwnedBy(imports[i].page) # {} => imports[i].snapshot.empty = "cancelled"
        /\ \A n \in Names :
              /\ (imports[i].view.rows[n] = Missing) <=> (participants[imports[i].page][n] = Missing)
              /\ n \in WrittenRows(i) => imports[i].view.rows[n] = participants[imports[i].page][n]

ImportInv ==
    /\ ImportTypeOK /\ SnapshotIsWhole /\ WrittenByOwn
    /\ \A i \in Imports : StatusSound(i) /\ ViewCurrent(i)

-----------------------------------------------------------------------------

LEMMA ImportTypes == TypeOK <=> ImportTypeOK
BY DEF TypeOK, ImportTypeOK, ImportRow, Views

LEMMA ImportInit == Init => ImportInv
<1> SUFFICES ASSUME Init PROVE ImportInv
    OBVIOUS
<1> USE NoneAssumption, BoundsAssumption
<1>1. NoSnapshot \in Snapshots
    BY DEF NoSnapshot, Snapshots
<1>2. NoView \in Views
    BY DEF NoView, Views
<1>3. ImportTypeOK
  <2> DEFINE row == [page |-> None, status |-> "NONE", startedAt |-> 0, stage |-> "none",
                     snapshot |-> NoSnapshot, attempt |-> 1, outdated |-> FALSE, view |-> NoView]
  <2>1. row \in ImportRow
      BY <1>1, <1>2 DEF ImportRow
  <2>2. imports = [i \in Imports |-> row]
      BY DEF Init
  <2>3. imports \in [Imports -> ImportRow]
    <3> HIDE DEF row
    <3> QED BY <2>1, <2>2
  <2>4. [n \in Names |-> Missing] \in [Names -> Ids \cup {None, Missing}]
      OBVIOUS
  <2>5. participants \in [Pages -> [Names -> Ids \cup {None, Missing}]]
      BY <2>4 DEF Init
  <2>6. now \in 0..MaxTime
      BY DEF Init
  <2>7. lastImport \in [Pages -> Imports \cup {None}] /\ matches \in [Matches -> Imports \cup {None}]
      BY DEF Init
  <2>8. mapping \in [Names -> Ids \cup {None}] /\ edits = {}
      BY DEF Init
  <2> QED BY <2>3, <2>5, <2>6, <2>7, <2>8 DEF ImportTypeOK
<1>4. SnapshotIsWhole /\ WrittenByOwn
    BY DEF Init, SnapshotIsWhole, WrittenByOwn
<1>5. \A i \in Imports : StatusSound(i) /\ ViewCurrent(i)
    BY DEF Init, StatusSound, ViewCurrent
<1> QED BY <1>3, <1>4, <1>5 DEF ImportInv

\* What a tournament was written from does not change while other imports go on.
Settled(i) ==
    /\ imports[i].page # None => imports'[i].page = imports[i].page /\ imports'[i].startedAt = imports[i].startedAt
    /\ imports[i].status = "SUCCESS" => imports'[i].status = "SUCCESS" /\ imports'[i].snapshot = imports[i].snapshot

\* The imports that tournaments and matches name have succeeded.
LEMMA WritersSucceeded ==
    ASSUME ImportInv
    PROVE  /\ \A p \in Pages : lastImport[p] # None =>
                 /\ lastImport[p] \in Imports /\ imports[lastImport[p]].page = p
                 /\ imports[lastImport[p]].status = "SUCCESS"
           /\ \A m \in Matches : matches[m] # None =>
                 /\ matches[m] \in Imports /\ imports[matches[m]].page \in Pages
                 /\ imports[matches[m]].status = "SUCCESS"
BY DEF ImportInv, ImportTypeOK, WrittenByOwn, SnapshotIsWhole

\* A step of the process of one import that writes nothing but its own record.
LEMMA ProcessStep ==
    ASSUME ImportInv, NEW i \in Imports,
           imports' \in [Imports -> ImportRow], \A j \in Imports \ {i} : imports'[j] = imports[j],
           UNCHANGED <<now, lastImport, matches, participants, mapping, edits>>,
           Settled(i), StatusSound(i)', ViewCurrent(i)'
    PROVE  ImportInv'
<1> USE NoneAssumption
<1>1. ImportTypeOK'
    BY DEF ImportInv, ImportTypeOK
<1>2. \A j \in Imports : Settled(j)
    BY DEF Settled
<1>3. /\ \A p \in Pages : lastImport[p] # None =>
            /\ imports'[lastImport[p]].page = p
            /\ imports'[lastImport[p]].status = "SUCCESS"
            /\ imports'[lastImport[p]].snapshot = imports[lastImport[p]].snapshot
            /\ imports'[lastImport[p]].startedAt = imports[lastImport[p]].startedAt
      /\ \A m \in Matches : matches[m] # None =>
            /\ imports'[matches[m]].page = imports[matches[m]].page
            /\ imports'[matches[m]].snapshot = imports[matches[m]].snapshot
    BY <1>2, WritersSucceeded DEF Settled
<1>4. SnapshotIsWhole'
    BY <1>3 DEF ImportInv, SnapshotIsWhole
<1>5. WrittenByOwn'
    BY <1>3 DEF ImportInv, WrittenByOwn
<1>6. \A p \in Pages : OwnedBy(p)' = OwnedBy(p)
    BY <1>3 DEF OwnedBy
<1>7. ASSUME NEW j \in Imports, j # i PROVE StatusSound(j)' /\ ViewCurrent(j)'
  <2>1. imports'[j] = imports[j]
      BY <1>7
  <2>2. StatusSound(j)'
      BY <2>1 DEF ImportInv, StatusSound
  <2>3. ASSUME imports[j].stage = "open" PROVE ViewCurrent(j)'
    <3>1. imports[j].page \in Pages
        BY <2>3 DEF ImportInv, StatusSound, ImportTypeOK, ImportRow
    <3>2. Stale(j)' <=> Stale(j)
        BY <2>1, <3>1, <1>3 DEF Stale, compareTournamentImportFreshness, Older
    <3>3. Foreign(j)' <=> Foreign(j)
      <4>1. imports[j].snapshot.matches \subseteq Matches
          BY DEF ImportInv, ImportTypeOK, ImportRow, Snapshots
      <4> QED BY <2>1, <4>1, <1>3 DEF Foreign
    <3>4. WrittenRows(j)' = WrittenRows(j)
        BY <2>1 DEF WrittenRows
    <3> QED BY <2>1, <3>1, <3>2, <3>3, <3>4, <1>6 DEF ImportInv, ViewCurrent
  <2>4. ASSUME imports[j].stage # "open" PROVE ViewCurrent(j)'
      BY <2>1, <2>4 DEF ViewCurrent
  <2> QED BY <2>2, <2>3, <2>4
<1> QED BY <1>1, <1>4, <1>5, <1>7 DEF ImportInv


-----------------------------------------------------------------------------
(* The transaction commits.                                                *)

\* Only imports of the written tournament's page, and of the written matches, must notice.
LEMMA CommitWrites ==
    ASSUME ImportInv, NEW i \in Imports, commit(i)
    PROVE  /\ imports[i].page \in Pages /\ imports[i].status = "PENDING"
           /\ imports[i].snapshot.matches \subseteq Matches /\ imports[i].snapshot.teams \subseteq Names
           /\ ~Stale(i) /\ ~Foreign(i)
           /\ imports[i].view.matches = OwnedBy(imports[i].page)
           /\ lastImport' = [lastImport EXCEPT ![imports[i].page] = i]
           /\ \A m \in Matches : matches'[m] = IF m \in imports[i].snapshot.matches THEN i
                                               ELSE IF m \in OwnedBy(imports[i].page) THEN None ELSE matches[m]
<1>1. imports[i] \in ImportRow /\ imports[i].stage = "open" /\ ~imports[i].outdated
    BY DEF ImportInv, ImportTypeOK, commit, Conflict
<1>2. imports[i].page \in Pages /\ imports[i].status = "PENDING"
    BY <1>1 DEF ImportInv, StatusSound, ImportRow
<1>3. imports[i].snapshot.matches \subseteq Matches /\ imports[i].snapshot.teams \subseteq Names
    BY <1>1 DEF ImportRow, Snapshots
<1>4. ~Stale(i) /\ ~Foreign(i) /\ imports[i].view.matches = OwnedBy(imports[i].page)
    BY <1>1 DEF ImportInv, ViewCurrent
<1>5. \A m \in Matches : matches'[m] = IF m \in imports[i].snapshot.matches THEN i
                                       ELSE IF m \in OwnedBy(imports[i].page) THEN None ELSE matches[m]
    BY <1>4 DEF commit, refreshTournamentMatches
<1> QED BY <1>2, <1>3, <1>4, <1>5 DEF commit

\* A step that outdates transactions changes nothing else of their imports.
LEMMA OutdateRecords ==
    ASSUME ImportInv, NEW conflicting
    PROVE  /\ Outdate(conflicting) \in [Imports -> ImportRow]
           /\ \A j \in Imports :
                 LET new == Outdate(conflicting)[j]
                 IN  /\ new.page = imports[j].page /\ new.startedAt = imports[j].startedAt
                     /\ new.stage = imports[j].stage /\ new.status = imports[j].status
                     /\ new.snapshot = imports[j].snapshot /\ new.view = imports[j].view
                     /\ imports[j].stage = "open" /\ ~new.outdated => ~imports[j].outdated /\ j \notin conflicting
<1> DEFINE row(m, b) == [m EXCEPT !.outdated = b]
           late(j) == imports[j].outdated \/ (imports[j].stage = "open" /\ j \in conflicting)
<1>1. Outdate(conflicting) = [j \in Imports |-> row(imports[j], late(j))]
    BY DEF Outdate
<1>2. ASSUME NEW m \in ImportRow, NEW b \in BOOLEAN
      PROVE  /\ row(m, b) \in ImportRow /\ row(m, b).page = m.page /\ row(m, b).startedAt = m.startedAt
             /\ row(m, b).stage = m.stage /\ row(m, b).status = m.status
             /\ row(m, b).snapshot = m.snapshot /\ row(m, b).view = m.view /\ row(m, b).outdated = b
    BY DEF ImportRow
<1>3. ASSUME NEW j \in Imports PROVE imports[j] \in ImportRow /\ late(j) \in BOOLEAN
    BY DEF ImportInv, ImportTypeOK, ImportRow
<1> HIDE DEF row
<1>4. Outdate(conflicting) \in [Imports -> ImportRow]
    BY <1>1, <1>2, <1>3
<1>5. ASSUME NEW j \in Imports
      PROVE  LET new == Outdate(conflicting)[j]
             IN  /\ new.page = imports[j].page /\ new.startedAt = imports[j].startedAt
                 /\ new.stage = imports[j].stage /\ new.status = imports[j].status
                 /\ new.snapshot = imports[j].snapshot /\ new.view = imports[j].view
                 /\ new.outdated = late(j)
  <2>1. Outdate(conflicting)[j] = row(imports[j], late(j))
      BY <1>1
  <2> HIDE DEF late
  <2> QED BY <1>2, <1>3, <2>1
<1> QED BY <1>4, <1>5

LEMMA CommitRecords ==
    ASSUME ImportInv, NEW i \in Imports, commit(i)
    PROVE  /\ imports' \in [Imports -> ImportRow]
           /\ imports'[i].page = imports[i].page /\ imports'[i].startedAt = imports[i].startedAt
           /\ imports'[i].stage = "committed" /\ imports'[i].status = "SUCCESS"
           /\ imports'[i].snapshot = imports[i].snapshot
           /\ \A j \in Imports \ {i} :
                 /\ imports'[j].page = imports[j].page /\ imports'[j].startedAt = imports[j].startedAt
                 /\ imports'[j].stage = imports[j].stage /\ imports'[j].status = imports[j].status
                 /\ imports'[j].snapshot = imports[j].snapshot /\ imports'[j].view = imports[j].view
                 /\ imports[j].stage = "open" /\ ~imports'[j].outdated => ~imports[j].outdated /\ ~Overlap(i, j)
<1> DEFINE marked == Outdate({j \in Imports \ {i} : Overlap(i, j)})
           done(m, a, v) == [m EXCEPT !.stage = "committed", !.status = "SUCCESS", !.attempt = a, !.view = v]
<1>1. imports' = [marked EXCEPT ![i] = done(marked[i], 1, NoView)]
    BY DEF commit
<1>2. marked \in [Imports -> ImportRow] /\ NoView \in Views /\ 1 \in 1..3
    BY OutdateRecords DEF NoView, Views
<1>3. ASSUME NEW m \in ImportRow, NEW a \in 1..3, NEW v \in Views
      PROVE  /\ done(m, a, v) \in ImportRow
             /\ done(m, a, v).page = m.page /\ done(m, a, v).startedAt = m.startedAt
             /\ done(m, a, v).stage = "committed" /\ done(m, a, v).status = "SUCCESS"
             /\ done(m, a, v).snapshot = m.snapshot
    BY DEF ImportRow
<1>4. /\ \A j \in Imports :
            /\ marked[j].page = imports[j].page /\ marked[j].startedAt = imports[j].startedAt
            /\ marked[j].stage = imports[j].stage /\ marked[j].status = imports[j].status
            /\ marked[j].snapshot = imports[j].snapshot /\ marked[j].view = imports[j].view
      /\ \A j \in Imports \ {i} :
            imports[j].stage = "open" /\ ~marked[j].outdated => ~imports[j].outdated /\ ~Overlap(i, j)
    BY OutdateRecords
<1> HIDE DEF marked, done
<1>5. imports' \in [Imports -> ImportRow] /\ imports'[i] = done(marked[i], 1, NoView)
      /\ \A j \in Imports \ {i} : imports'[j] = marked[j]
    BY <1>1, <1>2, <1>3
<1> QED BY <1>2, <1>3, <1>4, <1>5

\* The rows of participants that a commit writes are those the operator's edits left there.
LEMMA CommitParticipants ==
    ASSUME ImportInv, NEW i \in Imports, commit(i)
    PROVE  /\ participants' \in [Pages -> [Names -> Ids \cup {None, Missing}]]
           /\ \A p \in Pages \ {imports[i].page} : participants'[p] = participants[p]
           /\ \A n \in imports[i].snapshot.teams : participants'[imports[i].page][n] # Missing
           /\ \A n \in Names : participants[imports[i].page][n] \in Ids =>
                 participants'[imports[i].page][n] = participants[imports[i].page][n]
<1> USE NoneAssumption
<1> DEFINE p == imports[i].page
           seen == imports[i].view.rows
           new == refreshTournamentParticipants(i)
<1>1. p \in Pages /\ imports[i] \in ImportRow /\ imports[i].stage = "open" /\ ~imports[i].outdated
    BY CommitWrites DEF ImportInv, ImportTypeOK, commit, Conflict
<1>2. participants' = [participants EXCEPT ![p] = new] /\ participants \in [Pages -> [Names -> Ids \cup {None, Missing}]]
    BY DEF commit, ImportInv, ImportTypeOK
<1>3. \A n \in Names : MergedId(i, n) \in Ids \cup {None} /\ seen[n] \in Ids \cup {None, Missing}
    BY <1>1 DEF MergedId, ImportRow, Views
<1>4. new \in [Names -> Ids \cup {None, Missing}]
    BY <1>1, <1>2, <1>3 DEF refreshTournamentParticipants
<1>5. \A n \in Names : n \in imports[i].snapshot.teams => new[n] = MergedId(i, n)
    BY DEF refreshTournamentParticipants
<1>6. ASSUME NEW n \in Names, participants[p][n] \in Ids PROVE new[n] = participants[p][n]
  <2>1. /\ (seen[n] = Missing) <=> (participants[p][n] = Missing)
        /\ n \in WrittenRows(i) => seen[n] = participants[p][n]
      BY <1>1 DEF ImportInv, ViewCurrent
  <2>2. CASE n \in imports[i].snapshot.teams
    <3>1. n \in WrittenRows(i)
        BY <1>6, <2>1, <2>2 DEF WrittenRows
    <3> QED BY <1>5, <1>6, <2>1, <2>2, <3>1 DEF MergedId
  <2>3. CASE n \notin imports[i].snapshot.teams
    <3>1. n \notin WrittenRows(i)
        BY <1>6, <2>1, <2>3 DEF WrittenRows
    <3> QED BY <2>3, <3>1 DEF refreshTournamentParticipants
  <2> QED BY <2>2, <2>3
<1>7. imports[i].snapshot.teams \subseteq Names
    BY CommitWrites
<1> HIDE DEF new, p
<1>8. participants'[p] = new /\ \A q \in Pages \ {p} : participants'[q] = participants[q]
    BY <1>1, <1>2
<1>9. participants' \in [Pages -> [Names -> Ids \cup {None, Missing}]]
    BY <1>2, <1>4
<1> QED BY <1>3, <1>5, <1>6, <1>7, <1>8, <1>9 DEF p

LEMMA CommitStep ==
    ASSUME ImportInv, NEW i \in Imports, commit(i)
    PROVE  ImportInv'
<1> USE NoneAssumption
<1> DEFINE p == imports[i].page
           found == imports[i].snapshot.matches
<1>1. /\ p \in Pages /\ found \subseteq Matches /\ ~Foreign(i) /\ i # None
      /\ lastImport' = [lastImport EXCEPT ![p] = i]
      /\ \A m \in Matches : matches'[m] = IF m \in found THEN i ELSE IF m \in OwnedBy(p) THEN None ELSE matches[m]
      /\ UNCHANGED <<now, mapping, edits>>
    BY CommitWrites DEF commit
<1>2. \A j \in Imports : imports'[j].page = imports[j].page /\ imports'[j].startedAt = imports[j].startedAt
                         /\ imports'[j].snapshot = imports[j].snapshot
    BY CommitRecords
<1>3. \A j \in Imports : imports[j].status = "SUCCESS" => imports'[j].status = "SUCCESS"
    BY CommitRecords
<1>4. ImportTypeOK'
  <2>1. matches' \in [Matches -> Imports \cup {None}]
    <3>1. matches' = refreshTournamentMatches(i)
        BY DEF commit
    <3> QED BY <3>1 DEF refreshTournamentMatches, ImportInv, ImportTypeOK
  <2>2. lastImport' \in [Pages -> Imports \cup {None}]
      BY <1>1 DEF ImportInv, ImportTypeOK
  <2> QED BY <1>1, <2>1, <2>2, CommitRecords, CommitParticipants DEF ImportInv, ImportTypeOK
<1>5. /\ lastImport'[p] = i
      /\ \A q \in Pages \ {p} : lastImport'[q] = lastImport[q] /\ participants'[q] = participants[q]
    BY <1>1, CommitParticipants DEF ImportInv, ImportTypeOK
<1>6. \A m \in found : matches[m] # None => imports[matches[m]].page = p
    BY <1>1 DEF Foreign
<1>7. ASSUME NEW q \in Pages, q # p PROVE OwnedBy(q)' = OwnedBy(q)
    BY <1>1, <1>2, <1>6, <1>7, WritersSucceeded DEF OwnedBy
<1>8. SnapshotIsWhole'
  <2>1. ASSUME NEW q \in Pages, lastImport'[q] # None
        PROVE  /\ imports'[lastImport'[q]].status = "SUCCESS"
               /\ \A m \in imports'[lastImport'[q]].snapshot.matches : matches'[m] = lastImport'[q]
               /\ \A n \in imports'[lastImport'[q]].snapshot.teams : participants'[q][n] # Missing
    <3>1. CASE q = p
        BY <1>1, <1>2, <1>5, <3>1, CommitRecords, CommitParticipants
    <3>2. CASE q # p
      <4> DEFINE j == lastImport[q]
      <4>1. /\ j \in Imports /\ imports[j].status = "SUCCESS" /\ imports[j].page = q /\ lastImport'[q] = j
            /\ imports'[j].snapshot = imports[j].snapshot /\ participants'[q] = participants[q]
          BY <1>2, <1>5, <2>1, <3>2, WritersSucceeded
      <4>2. ASSUME NEW m \in imports[j].snapshot.matches PROVE matches'[m] = j
        <5>1. m \in Matches /\ matches[m] = j
            BY <2>1, <4>1 DEF ImportInv, SnapshotIsWhole, ImportTypeOK, ImportRow, Snapshots
        <5>2. m \notin found /\ m \notin OwnedBy(p)
            BY <1>6, <2>1, <3>2, <4>1, <5>1 DEF OwnedBy
        <5> QED BY <1>1, <5>1, <5>2
      <4>3. \A n \in imports[j].snapshot.teams : participants'[q][n] # Missing
          BY <2>1, <4>1 DEF ImportInv, SnapshotIsWhole
      <4> QED BY <1>3, <4>1, <4>2, <4>3
    <3> QED BY <3>1, <3>2
  <2>2. ASSUME NEW m \in Matches, matches'[m] # None
        PROVE  /\ lastImport'[imports'[matches'[m]].page] = matches'[m]
               /\ m \in imports'[matches'[m]].snapshot.matches
    <3>1. CASE m \in found
        BY <1>1, <1>2, <1>5, <3>1
    <3>2. CASE m \notin found
      <4>1. matches'[m] = matches[m] /\ matches[m] # None /\ m \notin OwnedBy(p)
          BY <1>1, <2>2, <3>2
      <4>2. matches[m] \in Imports /\ imports[matches[m]].page \in Pages \ {p}
          BY <4>1, WritersSucceeded DEF OwnedBy
      <4> QED BY <1>2, <1>5, <4>1, <4>2 DEF ImportInv, SnapshotIsWhole
    <3> QED BY <3>1, <3>2
  <2> HIDE DEF p, found
  <2> QED BY <2>1, <2>2 DEF SnapshotIsWhole
<1>9. WrittenByOwn'
    BY <1>1, <1>2, <1>5, WritersSucceeded DEF WrittenByOwn
<1>10. StatusSound(i)' /\ ViewCurrent(i)'
    BY <1>1, CommitRecords DEF StatusSound, ViewCurrent
<1>11. ASSUME NEW j \in Imports, j # i PROVE StatusSound(j)' /\ ViewCurrent(j)'
  <2>1. /\ imports'[j].page = imports[j].page /\ imports'[j].startedAt = imports[j].startedAt
        /\ imports'[j].stage = imports[j].stage /\ imports'[j].status = imports[j].status
        /\ imports'[j].snapshot = imports[j].snapshot /\ imports'[j].view = imports[j].view
        /\ imports[j].stage = "open" /\ ~imports'[j].outdated => ~imports[j].outdated /\ ~Overlap(i, j)
      BY <1>11, CommitRecords
  <2>2. StatusSound(j)'
      BY <2>1 DEF ImportInv, StatusSound
  <2>3. ASSUME imports[j].stage = "open", ~imports'[j].outdated PROVE ViewCurrent(j)'
    <3> DEFINE q == imports[j].page
    <3>1. q \in Pages /\ q # p /\ imports[j].snapshot.matches \cap found = {}
          /\ imports[j].snapshot.matches \subseteq Matches
        BY <2>1, <2>3 DEF ImportInv, StatusSound, ImportTypeOK, ImportRow, Snapshots, Overlap
    <3>2. Stale(j)' <=> Stale(j)
        BY <1>2, <1>5, <2>1, <3>1, WritersSucceeded DEF Stale, compareTournamentImportFreshness, Older
    <3>3. Foreign(j)' => Foreign(j)
        BY <1>1, <1>2, <2>1, <3>1, WritersSucceeded DEF Foreign
    <3>4. WrittenRows(j)' = WrittenRows(j)
        BY <2>1 DEF WrittenRows
    <3>5. OwnedBy(q)' = OwnedBy(q) /\ participants'[q] = participants[q]
        BY <1>5, <1>7, <2>1, <3>1 DEF OwnedBy
    <3>6. ViewCurrent(j) /\ imports[j].stage = "open" /\ ~imports[j].outdated
        BY <2>1, <2>3 DEF ImportInv
    <3> HIDE DEF p
    <3> QED BY <2>1, <3>2, <3>3, <3>4, <3>5, <3>6 DEF ViewCurrent
  <2>4. ASSUME imports[j].stage # "open" \/ imports'[j].outdated PROVE ViewCurrent(j)'
      BY <2>1, <2>4 DEF ViewCurrent
  <2> QED BY <2>2, <2>3, <2>4
<1> QED BY <1>4, <1>8, <1>9, <1>10, <1>11 DEF ImportInv

-----------------------------------------------------------------------------
(* The cascade of an edit.                                                 *)

LEMMA CascadeStep ==
    ASSUME ImportInv, NEW e, cascade(e)
    PROVE  ImportInv'
<1> USE NoneAssumption
<1> DEFINE conflicting == {j \in Imports : e.name \in WrittenRows(j)}
<1>1. e \in edits /\ e.name \in Names /\ e.id \in Ids \cup {None}
    BY DEF cascade, ImportInv, ImportTypeOK
<1>2. UNCHANGED <<now, lastImport, matches, mapping>> /\ imports' = Outdate(conflicting) /\ edits' \subseteq edits
    BY DEF cascade
<1>3. /\ imports' \in [Imports -> ImportRow]
      /\ \A j \in Imports :
            /\ imports'[j].page = imports[j].page /\ imports'[j].startedAt = imports[j].startedAt
            /\ imports'[j].stage = imports[j].stage /\ imports'[j].status = imports[j].status
            /\ imports'[j].snapshot = imports[j].snapshot /\ imports'[j].view = imports[j].view
            /\ imports[j].stage = "open" /\ ~imports'[j].outdated => ~imports[j].outdated /\ e.name \notin WrittenRows(j)
    BY <1>2, OutdateRecords
<1>4. ASSUME NEW p \in Pages
      PROVE  /\ participants[p] \in [Names -> Ids \cup {None, Missing}]
             /\ participants'[p] \in [Names -> Ids \cup {None, Missing}]
             /\ \A n \in Names : /\ n # e.name => participants'[p][n] = participants[p][n]
                                 /\ (participants'[p][n] = Missing) <=> (participants[p][n] = Missing)
  <2>1. participants[p] \in [Names -> Ids \cup {None, Missing}]
      BY DEF ImportInv, ImportTypeOK
  <2>2. participants'[p] = [participants[p] EXCEPT ![e.name] = IF @ = Missing THEN @ ELSE e.id]
      BY DEF cascade
  <2> QED BY <1>1, <2>1, <2>2
<1>5. ImportTypeOK'
  <2>1. participants' \in [Pages -> [Names -> Ids \cup {None, Missing}]]
    <3>1. participants' = [p \in Pages |-> participants'[p]]
        BY DEF cascade
    <3> QED BY <1>4, <3>1
  <2> QED BY <1>2, <1>3, <2>1 DEF ImportInv, ImportTypeOK
<1>6. SnapshotIsWhole'
  <2>1. \A p \in Pages : lastImport[p] # None => imports[lastImport[p]].snapshot.teams \subseteq Names
      BY DEF ImportInv, ImportTypeOK, ImportRow, Snapshots
  <2> QED BY <1>2, <1>3, <1>4, <2>1, WritersSucceeded DEF ImportInv, SnapshotIsWhole
<1>7. WrittenByOwn'
    BY <1>2, <1>3, WritersSucceeded DEF WrittenByOwn
<1>8. \A p \in Pages : OwnedBy(p)' = OwnedBy(p)
    BY <1>2, <1>3, WritersSucceeded DEF OwnedBy
<1>9. ASSUME NEW j \in Imports PROVE StatusSound(j)' /\ ViewCurrent(j)'
  <2>1. StatusSound(j)'
      BY <1>3 DEF ImportInv, StatusSound
  <2>2. ASSUME imports[j].stage = "open", ~imports'[j].outdated PROVE ViewCurrent(j)'
    <3>1. imports[j].page \in Pages /\ imports[j].snapshot.matches \subseteq Matches
        BY <2>2 DEF ImportInv, StatusSound, ImportTypeOK, ImportRow, Snapshots
    <3>2. Stale(j)' <=> Stale(j)
        BY <1>2, <1>3, <3>1, WritersSucceeded DEF Stale, compareTournamentImportFreshness, Older
    <3>3. Foreign(j)' => Foreign(j)
        BY <1>2, <1>3, <3>1, WritersSucceeded DEF Foreign
    <3>4. WrittenRows(j)' = WrittenRows(j) /\ e.name \notin WrittenRows(j)
        BY <1>3, <2>2 DEF WrittenRows
    <3>5. ViewCurrent(j) /\ imports[j].stage = "open" /\ ~imports[j].outdated
        BY <1>3, <2>2 DEF ImportInv
    <3>6. OwnedBy(imports[j].page)' = OwnedBy(imports[j].page)
        BY <1>3, <1>8, <3>1 DEF OwnedBy
    <3>7. \A n \in Names :
             /\ (imports'[j].view.rows[n] = Missing) <=> (participants'[imports'[j].page][n] = Missing)
             /\ n \in WrittenRows(j)' => imports'[j].view.rows[n] = participants'[imports'[j].page][n]
        BY <1>3, <1>4, <3>1, <3>4, <3>5 DEF ViewCurrent
    <3> QED BY <1>3, <3>1, <3>2, <3>3, <3>5, <3>6, <3>7 DEF ViewCurrent
  <2>3. ASSUME imports[j].stage # "open" \/ imports'[j].outdated PROVE ViewCurrent(j)'
      BY <1>3, <2>3 DEF ViewCurrent
  <2> QED BY <2>1, <2>2, <2>3
<1> QED BY <1>5, <1>6, <1>7, <1>9 DEF ImportInv

-----------------------------------------------------------------------------
(* The other steps of an import, of the operator and of the clock.         *)

LEMMA LeavesStep ==
    ASSUME ImportInv, NEW i \in Imports, NEW stage \in {"caught", "done"}, Leaves(i, stage),
           imports[i].stage # "none",
           UNCHANGED <<now, lastImport, matches, participants, mapping, edits>>
    PROVE  ImportInv'
<1> USE NoneAssumption
<1> DEFINE row(snap, a, v) == [imports[i] EXCEPT !.stage = stage, !.attempt = a, !.outdated = FALSE,
                                                 !.view = v, !.snapshot = snap]
           kept == IF imports[i].status = "SUCCESS" THEN imports[i].snapshot ELSE NoSnapshot
<1>1. imports[i] \in ImportRow /\ imports[i].snapshot \in Snapshots /\ imports \in [Imports -> ImportRow]
    BY DEF ImportInv, ImportTypeOK, ImportRow
<1>2. NoView \in Views /\ kept \in Snapshots /\ 1 \in 1..3
    BY <1>1 DEF NoView, Views, NoSnapshot, Snapshots
<1>3. imports' = [imports EXCEPT ![i] = row(kept, 1, NoView)]
    BY DEF Leaves
<1>4. ASSUME NEW snap \in Snapshots, NEW a \in 1..3, NEW v \in Views
      PROVE  /\ row(snap, a, v) \in ImportRow
             /\ row(snap, a, v).page = imports[i].page /\ row(snap, a, v).startedAt = imports[i].startedAt
             /\ row(snap, a, v).stage = stage /\ row(snap, a, v).status = imports[i].status
             /\ row(snap, a, v).snapshot = snap
    BY <1>1 DEF ImportRow
<1>5. /\ imports' \in [Imports -> ImportRow] /\ \A j \in Imports \ {i} : imports'[j] = imports[j]
      /\ imports'[i].page = imports[i].page /\ imports'[i].startedAt = imports[i].startedAt
      /\ imports'[i].stage = stage /\ imports'[i].status = imports[i].status
      /\ imports[i].status = "SUCCESS" => imports'[i].snapshot = imports[i].snapshot
  <2> HIDE DEF row
  <2> QED BY <1>1, <1>2, <1>3, <1>4
<1>6. StatusSound(i)' /\ ViewCurrent(i)' /\ Settled(i)
    BY <1>5 DEF ImportInv, StatusSound, ViewCurrent, Settled
<1> QED BY <1>5, <1>6, ProcessStep

LEMMA StartStep ==
    ASSUME ImportInv, NEW i \in Imports, NEW p \in Pages, start(i, p)
    PROVE  ImportInv'
<1> USE NoneAssumption
<1>1. imports[i] \in ImportRow /\ imports \in [Imports -> ImportRow] /\ now \in 0..MaxTime /\ p # None
    BY DEF ImportInv, ImportTypeOK
<1>2. imports[i].page = None /\ imports[i].status = "NONE"
    BY DEF ImportInv, StatusSound, start
<1>3. /\ imports' \in [Imports -> ImportRow] /\ \A j \in Imports \ {i} : imports'[j] = imports[j]
      /\ imports'[i].page = p /\ imports'[i].stage = "fetching" /\ imports'[i].status = "PENDING"
    BY <1>1 DEF start, ImportRow
<1>4. StatusSound(i)' /\ ViewCurrent(i)' /\ Settled(i)
    BY <1>1, <1>2, <1>3 DEF StatusSound, ViewCurrent, Settled
<1> QED BY <1>3, <1>4, ProcessStep DEF start

LEMMA FetchStep ==
    ASSUME ImportInv, NEW i \in Imports, fetch(i)
    PROVE  ImportInv'
<1>1. imports[i] \in ImportRow /\ imports \in [Imports -> ImportRow]
    BY DEF ImportInv, ImportTypeOK
<1>2. PICK snap \in Snapshots : imports' = [imports EXCEPT ![i].stage = "fetched", ![i].snapshot = snap]
    BY DEF fetch, Answers
<1>3. /\ imports' \in [Imports -> ImportRow] /\ \A j \in Imports \ {i} : imports'[j] = imports[j]
      /\ imports'[i].page = imports[i].page /\ imports'[i].startedAt = imports[i].startedAt
      /\ imports'[i].stage = "fetched" /\ imports'[i].status = imports[i].status
    BY <1>1, <1>2 DEF ImportRow
<1>4. StatusSound(i)' /\ ViewCurrent(i)' /\ Settled(i)
    BY <1>1, <1>3 DEF fetch, ImportInv, StatusSound, ViewCurrent, Settled
<1> QED BY <1>3, <1>4, ProcessStep DEF fetch

\* An empty schedule is accepted only from HLTV, which says that there is none or that it is cancelled.
LEMMA DecideStep ==
    ASSUME ImportInv, NEW i \in Imports, decide(i)
    PROVE  ImportInv'
<1>1. imports[i] \in ImportRow /\ imports \in [Imports -> ImportRow] /\ imports[i].page \in Pages
    BY DEF ImportInv, ImportTypeOK, ImportRow, StatusSound, decide
<1>2. CASE Accepts(imports[i].page, imports[i].snapshot)
  <2>1. imports[i].snapshot.matches = {} => imports[i].snapshot.empty \in {"cancelled", "generic"}
      BY <1>1, <1>2, SourcesAssumption
         DEF Accepts, shouldReplaceHltv, shouldReplaceDltv, prepareBeach, decideTournamentSnapshotWrite
  <2>2. imports' = [imports EXCEPT ![i].stage = "ready"]
      BY <1>2 DEF decide, Goes
  <2>3. /\ imports' \in [Imports -> ImportRow] /\ \A j \in Imports \ {i} : imports'[j] = imports[j]
        /\ imports'[i].page = imports[i].page /\ imports'[i].startedAt = imports[i].startedAt
        /\ imports'[i].stage = "ready" /\ imports'[i].status = imports[i].status
        /\ imports'[i].snapshot = imports[i].snapshot
      BY <1>1, <2>2 DEF ImportRow
  <2>4. StatusSound(i)' /\ ViewCurrent(i)' /\ Settled(i)
      BY <1>1, <2>1, <2>3 DEF decide, ImportInv, StatusSound, ViewCurrent, Settled
  <2> QED BY <2>3, <2>4, ProcessStep DEF decide
<1>3. CASE ~Accepts(imports[i].page, imports[i].snapshot)
    BY <1>3, LeavesStep DEF decide
<1> QED BY <1>2, <1>3

\* A transaction begins with a view of what is stored, and is not outdated.
LEMMA BeginStep ==
    ASSUME ImportInv, NEW i \in Imports, begin(i)
    PROVE  ImportInv'
<1> USE NoneAssumption
<1> DEFINE p == imports[i].page
<1>1. imports[i] \in ImportRow /\ imports \in [Imports -> ImportRow] /\ p \in Pages
    BY DEF ImportInv, ImportTypeOK, ImportRow, StatusSound, begin
<1>2. CASE ~Rejected(i)
  <2>1. View(i) \in Views
      BY <1>1 DEF View, Views, ImportInv, ImportTypeOK, OwnedBy
  <2>2. imports' = [imports EXCEPT ![i].stage = "open", ![i].outdated = FALSE, ![i].view = View(i)]
      BY <1>2 DEF begin
  <2>3. /\ imports' \in [Imports -> ImportRow] /\ \A j \in Imports \ {i} : imports'[j] = imports[j]
        /\ imports'[i].page = p /\ imports'[i].startedAt = imports[i].startedAt
        /\ imports'[i].stage = "open" /\ imports'[i].status = imports[i].status
        /\ imports'[i].snapshot = imports[i].snapshot /\ imports'[i].view = View(i)
    <3> HIDE DEF View
    <3> QED BY <1>1, <2>1, <2>2 DEF ImportRow
  <2>4. UNCHANGED <<lastImport, matches, participants>> /\ ~Stale(i) /\ ~Foreign(i) /\ ~EmptiesStored(i)
      BY <1>2 DEF begin, Rejected
  <2>5. /\ imports[i].snapshot.matches \subseteq Matches
        /\ \A m \in Matches : matches[m] # None => imports'[matches[m]].page = imports[matches[m]].page
        /\ \A q \in Pages : lastImport[q] # None => imports'[lastImport[q]].startedAt = imports[lastImport[q]].startedAt
      BY <1>1, <2>3, WritersSucceeded DEF ImportRow, Snapshots
  <2>6. ~Stale(i)' /\ ~Foreign(i)'
      BY <1>1, <2>3, <2>4, <2>5 DEF Stale, Foreign, compareTournamentImportFreshness, Older
  <2>7. OwnedBy(p) = OwnedBy(imports[i].page)'
      BY <1>1, <2>3, <2>4, <2>5 DEF OwnedBy
  <2>8. imports[i].snapshot.matches = {} /\ OwnedBy(p) # {} => imports[i].snapshot.empty = "cancelled"
    <3>1. imports[i].snapshot.matches = {} => imports[i].snapshot.empty \in {"cancelled", "generic"}
        BY DEF ImportInv, StatusSound, begin
    <3>2. OwnedBy(p) # {} => lastImport[p] # None /\ Persisted(p)
        BY <1>1, WritersSucceeded DEF OwnedBy, Persisted, ImportInv, SnapshotIsWhole
    <3> QED BY <2>4, <3>1, <3>2 DEF EmptiesStored
  <2>9. imports'[i].view.rows = participants'[imports'[i].page] /\ imports'[i].view.matches = OwnedBy(p)
      BY <2>3, <2>4 DEF View
  <2>10. ViewCurrent(i)'
    <3> HIDE DEF p
    <3> QED BY <2>3, <2>6, <2>7, <2>8, <2>9 DEF ViewCurrent
  <2>11. StatusSound(i)' /\ Settled(i)
      BY <1>1, <2>3 DEF begin, ImportInv, StatusSound, Settled
  <2> QED BY <2>3, <2>10, <2>11, ProcessStep DEF begin
<1>3. CASE Rejected(i)
    BY <1>3, LeavesStep DEF begin
<1> QED BY <1>2, <1>3

LEMMA RetryStep ==
    ASSUME ImportInv, NEW i \in Imports, retry(i)
    PROVE  ImportInv'
<1>1. imports[i] \in ImportRow /\ imports \in [Imports -> ImportRow] /\ NoView \in Views
    BY DEF ImportInv, ImportTypeOK, NoView, Views
<1>2. CASE imports[i].attempt < 3
  <2>1. imports' = [imports EXCEPT ![i].stage = "ready", ![i].attempt = @ + 1, ![i].outdated = FALSE, ![i].view = NoView]
      BY <1>2 DEF retry
  <2>2. imports[i].attempt + 1 \in 1..3
      BY <1>1, <1>2 DEF ImportRow
  <2>3. /\ imports' \in [Imports -> ImportRow] /\ \A j \in Imports \ {i} : imports'[j] = imports[j]
        /\ imports'[i].page = imports[i].page /\ imports'[i].startedAt = imports[i].startedAt
        /\ imports'[i].stage = "ready" /\ imports'[i].status = imports[i].status
        /\ imports'[i].snapshot = imports[i].snapshot
      BY <1>1, <2>1, <2>2 DEF ImportRow
  <2>4. StatusSound(i)' /\ ViewCurrent(i)' /\ Settled(i)
      BY <2>3 DEF retry, ImportInv, StatusSound, ViewCurrent, Settled
  <2> QED BY <2>3, <2>4, ProcessStep DEF retry
<1>3. CASE ~(imports[i].attempt < 3)
    BY <1>3, LeavesStep DEF retry
<1> QED BY <1>2, <1>3

LEMMA MarkFailedStep ==
    ASSUME ImportInv, NEW i \in Imports, markFailed(i)
    PROVE  ImportInv'
<1>1. imports[i] \in ImportRow /\ imports \in [Imports -> ImportRow]
    BY DEF ImportInv, ImportTypeOK
<1>2. PICK status \in {"NONE", "PENDING", "SUCCESS", "FAILED"} :
          /\ imports' = [imports EXCEPT ![i].stage = "done", ![i].status = status]
          /\ imports[i].status = "SUCCESS" => status = "SUCCESS"
    BY <1>1 DEF markFailed, MarksFailed, ImportRow
<1>3. /\ imports' \in [Imports -> ImportRow] /\ \A j \in Imports \ {i} : imports'[j] = imports[j]
      /\ imports'[i].page = imports[i].page /\ imports'[i].startedAt = imports[i].startedAt
      /\ imports'[i].stage = "done" /\ imports'[i].status = status /\ imports'[i].snapshot = imports[i].snapshot
    BY <1>1, <1>2 DEF ImportRow
<1>4. StatusSound(i)' /\ ViewCurrent(i)' /\ Settled(i)
    BY <1>2, <1>3 DEF markFailed, ImportInv, StatusSound, ViewCurrent, Settled
<1> QED BY <1>3, <1>4, ProcessStep DEF markFailed

LEMMA AsideStep ==
    ASSUME ImportInv, UNCHANGED <<imports, lastImport, matches, participants>>,
           now' \in 0..MaxTime, mapping' \in [Names -> Ids \cup {None}],
           edits' \subseteq [name : Names, id : Ids \cup {None}, nr : 1..MaxEdits]
    PROVE  ImportInv'
<1>1. ImportTypeOK'
    BY DEF ImportInv, ImportTypeOK
<1>2. SnapshotIsWhole' /\ WrittenByOwn'
    BY DEF ImportInv, SnapshotIsWhole, WrittenByOwn
<1>3. \A i \in Imports : StatusSound(i)'
    BY DEF ImportInv, StatusSound
<1>4. \A i \in Imports : ViewCurrent(i)'
    BY DEF ImportInv, ViewCurrent, Stale, Foreign, OwnedBy, WrittenRows, compareTournamentImportFreshness, Older
<1> QED BY <1>1, <1>2, <1>3, <1>4 DEF ImportInv

LEMMA ImportStep ==
    ASSUME ImportInv, [Next]_vars
    PROVE  ImportInv'
<1>1. CASE UNCHANGED vars
    BY <1>1, AsideStep DEF vars, ImportInv, ImportTypeOK
<1>2. ASSUME NEW n \in Names, NEW id \in Ids \cup {None}, NEW k \in 1..MaxEdits, saveMapping(n, id, k)
      PROVE  ImportInv'
    BY <1>2, AsideStep DEF saveMapping, ImportInv, ImportTypeOK
<1>3. CASE tick
    BY <1>3, AsideStep, BoundsAssumption DEF tick, ImportInv, ImportTypeOK
<1>4. ASSUME NEW i \in Imports, throw(i) \/ leave(i) PROVE ImportInv'
  <2>1. imports[i].stage # "none"
      BY <1>4 DEF throw, leave
  <2> QED BY <1>4, <2>1, LeavesStep DEF throw, leave
<1>5. ASSUME NEW i \in Imports, Progress(i) PROVE ImportInv'
    BY <1>4, <1>5, FetchStep, DecideStep, BeginStep, CommitStep, RetryStep, MarkFailedStep DEF Progress
<1> QED BY <1>1, <1>2, <1>3, <1>5, StartStep, CascadeStep DEF Next, Edit

THEOREM ImportInductive == Spec => []ImportInv
BY ImportInit, ImportStep, PTL DEF Spec

\* At every moment each tournament holds the whole snapshot of one import that succeeded.
THEOREM TournamentsStoredSoundly == Spec => []StoredSoundly
<1>1. ImportInv => StoredSoundly
    BY ImportTypes DEF ImportInv, StoredSoundly
<1> QED BY <1>1, ImportInductive, PTL

-----------------------------------------------------------------------------
(* What a step may not do.                                                 *)

\* Only a commit writes a tournament, only a commit and a cascade write its participants.
LEMMA OnlyCommitWrites ==
    ASSUME ImportInv, [Next]_vars
    PROVE  \/ \E i \in Imports : commit(i)
           \/ \E e \in edits : cascade(e) /\ UNCHANGED <<lastImport, matches>>
           \/ UNCHANGED <<lastImport, matches, participants>>
BY DEF Next, Edit, Progress, vars, start, fetch, decide, begin, retry, throw, markFailed, leave, saveMapping,
       cascade, tick

\* Whatever order imports finish in, one that started earlier does not replace a later one.
THEOREM FresherTournamentImportWins == Spec => FresherImportWins
<1> DEFINE Fresher == \A p \in Pages : lastImport[p] # None /\ lastImport'[p] # lastImport[p] =>
                          LET old == imports[lastImport[p]]  new == imports[lastImport'[p]]
                          IN  \/ old.startedAt < new.startedAt
                              \/ old.startedAt = new.startedAt /\ lastImport[p] < lastImport'[p]
<1>1. ASSUME ImportInv, [Next]_vars PROVE Fresher
  <2>1. ASSUME NEW i \in Imports, commit(i) PROVE Fresher
    <3> SUFFICES ASSUME NEW p \in Pages, lastImport[p] # None, lastImport'[p] # lastImport[p]
                 PROVE  LET old == imports[lastImport[p]]  new == imports[lastImport'[p]]
                        IN  \/ old.startedAt < new.startedAt
                            \/ old.startedAt = new.startedAt /\ lastImport[p] < lastImport'[p]
        OBVIOUS
    <3>1. lastImport' = [lastImport EXCEPT ![imports[i].page] = i] /\ ~Stale(i) /\ lastImport \in [Pages -> Imports \cup {None}]
        BY <1>1, <2>1, CommitWrites DEF ImportInv, ImportTypeOK
    <3>2. p = imports[i].page /\ lastImport'[p] = i
        BY <3>1
    <3> DEFINE j == lastImport[p]
    <3>3. j \in Imports /\ j # i /\ ~Older(i, j)
        BY <1>1, <3>1, <3>2, WritersSucceeded DEF Stale, compareTournamentImportFreshness
    <3>4. i \in Nat /\ j \in Nat /\ imports[i].startedAt \in Nat /\ imports[j].startedAt \in Nat
      <4>1. \A k \in Imports : imports[k] \in ImportRow
          BY <1>1 DEF ImportInv, ImportTypeOK
      <4>2. \A k \in Imports : imports[k].startedAt \in 0..MaxTime
          BY <4>1 DEF ImportRow
      <4>3. \A k \in Imports : k \in Nat
          BY BoundsAssumption
      <4>4. \A x \in 0..MaxTime : x \in Nat
          BY BoundsAssumption
      <4> HIDE DEF j
      <4> QED BY <3>3, <4>2, <4>3, <4>4
    <3> QED BY <3>2, <3>3, <3>4 DEF Older
  <2>2. lastImport' = lastImport => Fresher
      OBVIOUS
  <2> QED BY <1>1, <2>1, <2>2, OnlyCommitWrites
<1> QED BY <1>1, ImportInductive, PTL DEF Spec, FresherImportWins

\* A step that writes neither tournaments nor matches gives no match to another tournament.
LEMMA OwnersKept ==
    ASSUME ImportInv, ImportInv', UNCHANGED <<lastImport, matches>>, NEW p \in Pages
    PROVE  OwnedBy(p)' = OwnedBy(p)
<1>1. ASSUME NEW m \in Matches, matches[m] # None PROVE imports'[matches[m]].page = imports[matches[m]].page
  <2> DEFINE j == matches[m]
             q == imports'[j].page
  <2>1. q \in Pages /\ lastImport[q] = j
      BY <1>1 DEF ImportInv, WrittenByOwn, SnapshotIsWhole
  <2>2. imports[j].page = q
      BY <1>1, <2>1 DEF ImportInv, WrittenByOwn
  <2> QED BY <2>2
<1> QED BY <1>1 DEF OwnedBy

\* A tournament loses all its matches only to a page that says the event is cancelled.
THEOREM LastGoodTournamentKept == Spec => LastGoodKept
<1> DEFINE Kept == \A p \in Pages :
        OwnedBy(p) # {} /\ OwnedBy(p)' = {} => imports'[lastImport'[p]].snapshot.empty = "cancelled"
<1>1. ASSUME ImportInv, ImportInv', [Next]_vars PROVE Kept
  <2>1. ASSUME NEW i \in Imports, commit(i) PROVE Kept
    <3> SUFFICES ASSUME NEW p \in Pages, OwnedBy(p) # {}, OwnedBy(p)' = {}
                 PROVE  imports'[lastImport'[p]].snapshot.empty = "cancelled"
        OBVIOUS
    <3>1. /\ imports[i].page \in Pages /\ imports[i].snapshot.matches \subseteq Matches /\ ~Foreign(i)
          /\ lastImport' = [lastImport EXCEPT ![imports[i].page] = i] /\ lastImport \in [Pages -> Imports \cup {None}]
          /\ \A m \in Matches : matches'[m] = IF m \in imports[i].snapshot.matches THEN i
                                              ELSE IF m \in OwnedBy(imports[i].page) THEN None ELSE matches[m]
        BY <1>1, <2>1, CommitWrites DEF ImportInv, ImportTypeOK
    <3>2. \A j \in Imports : imports'[j].page = imports[j].page /\ imports'[j].snapshot = imports[j].snapshot
        BY <1>1, <2>1, CommitRecords
    <3>3. p = imports[i].page
      <4> SUFFICES ASSUME p # imports[i].page PROVE FALSE
          OBVIOUS
      <4>1. PICK m \in Matches : matches[m] # None /\ imports[matches[m]].page = p
          BY DEF OwnedBy
      <4>2. m \notin imports[i].snapshot.matches /\ m \notin OwnedBy(imports[i].page)
          BY <4>1, <3>1 DEF Foreign, OwnedBy
      <4>3. matches'[m] = matches[m] /\ matches[m] \in Imports
          BY <1>1, <3>1, <4>1, <4>2, WritersSucceeded
      <4> QED BY <3>2, <4>1, <4>3 DEF OwnedBy
    <3>4. imports[i].snapshot.matches = {}
      <4>1. \A m \in imports[i].snapshot.matches : m \in OwnedBy(p)'
          BY <3>1, <3>2, <3>3, NoneAssumption DEF OwnedBy
      <4> QED BY <4>1
    <3>5. imports[i].snapshot.empty = "cancelled"
        BY <1>1, <2>1, <3>3, <3>4 DEF ImportInv, ViewCurrent, commit, Conflict
    <3> QED BY <3>1, <3>2, <3>3, <3>5
  <2>2. ASSUME UNCHANGED <<lastImport, matches>> PROVE Kept
      BY <1>1, <2>2, OwnersKept
  <2> HIDE DEF Kept
  <2> QED BY <1>1, <2>1, <2>2, OnlyCommitWrites
<1> QED BY <1>1, ImportInductive, PTL DEF Spec, LastGoodKept

\* An id of a participant changes only by the cascade of an edit that says so.
THEOREM OperatorsEditsSurvive == Spec => EditsSurvive
<1> USE NoneAssumption
<1> DEFINE Survive == \A p \in Pages, n \in Names :
        participants[p][n] \in Ids /\ participants'[p][n] # participants[p][n] =>
            \E e \in edits \ edits' : e.name = n /\ e.id = participants'[p][n]
<1>1. ASSUME ImportInv, [Next]_vars PROVE Survive
  <2>1. ASSUME NEW i \in Imports, commit(i) PROVE Survive
    <3>1. \A p \in Pages, n \in Names : participants[p][n] \in Ids => participants'[p][n] = participants[p][n]
        BY <1>1, <2>1, CommitParticipants
    <3> QED BY <3>1
  <2>2. ASSUME NEW e \in edits, cascade(e) PROVE Survive
    <3> SUFFICES ASSUME NEW p \in Pages, NEW n \in Names,
                        participants[p][n] \in Ids, participants'[p][n] # participants[p][n]
                 PROVE  e \in edits \ edits' /\ e.name = n /\ e.id = participants'[p][n]
        OBVIOUS
    <3>1. participants'[p] = [participants[p] EXCEPT ![e.name] = IF @ = Missing THEN @ ELSE e.id]
          /\ edits' = edits \ {e} /\ participants[p] \in [Names -> Ids \cup {None, Missing}]
        BY <1>1, <2>2 DEF cascade, ImportInv, ImportTypeOK
    <3> QED BY <3>1
  <2>3. participants' = participants => Survive
      OBVIOUS
  <2> QED BY <1>1, <2>1, <2>2, <2>3, OnlyCommitWrites
<1> QED BY <1>1, ImportInductive, PTL DEF Spec, EditsSurvive

-----------------------------------------------------------------------------
(* Liquipedia.                                                             *)

PageRow ==
    [stage : {"none", "lookup", "revision", "fetch", "warned", "done", "incomplete"}, snapshot : Nat, publish : BOOLEAN]

ProcessRow ==
    [stage : {"none", "pages", "publish", "over"}, force : BOOLEAN, pages : [LiquipediaPages -> PageRow]]

ImporterTypeOK ==
    /\ revision \in [LiquipediaPages -> 0..MaxRevision]
    /\ snapshots \in [LiquipediaPages -> Seq(0..MaxRevision)]
    /\ lastGood \in [LiquipediaPages -> Nat]
    /\ committed \in [LiquipediaPages -> SUBSET Nat]
    /\ process \in [Importers -> ProcessRow]

\* A page that is had names a snapshot that exists; one that is to be published was stored.
ProcessSound(i) ==
    /\ \A p \in LiquipediaPages :
          PageOf(i, p).stage \in {"done", "revision"} => PageOf(i, p).snapshot \in DOMAIN snapshots[p]
    /\ process[i].stage = "publish" =>
          /\ tournament.import # NoImport
          /\ \A p \in LiquipediaPages : PageOf(i, p).snapshot \in committed[p]

\* What is stored and what is last good are snapshots that exist; a freshness names its import.
PagesSound ==
    /\ \A p \in LiquipediaPages : committed[p] \subseteq DOMAIN snapshots[p]
    /\ \A p \in LiquipediaPages : lastGood[p] # 0 => lastGood[p] \in DOMAIN snapshots[p]
    /\ tournament.import # NoImport =>
          tournament.freshness.revision \in Nat /\ tournament.freshness.started = tournament.import

ImporterInv ==
    ImporterTypeOK /\ PagesSound /\ StoredIsWhole /\ \A i \in Importers : ProcessSound(i)

\* Snapshots are only added.
Grown ==
    \A p \in LiquipediaPages :
        /\ DOMAIN snapshots[p] \subseteq DOMAIN snapshots'[p]
        /\ \A n \in DOMAIN snapshots[p] : snapshots'[p][n] = snapshots[p][n]

-----------------------------------------------------------------------------

LEMMA ImporterStart == ImporterInit => ImporterInv
<1> SUFFICES ASSUME ImporterInit PROVE ImporterInv
    OBVIOUS
<1> USE LiquipediaAssumption
<1>1. 0 \in 0..MaxRevision
    OBVIOUS
<1>2. process \in [Importers -> ProcessRow]
  <2>1. NoPage \in PageRow
      BY DEF NoPage, PageRow
  <2>2. NoProcess \in ProcessRow
      BY <2>1 DEF NoProcess, ProcessRow
  <2> QED BY <2>2 DEF ImporterInit
<1>3. \A i \in Importers : ProcessSound(i)
    BY DEF ImporterInit, ProcessSound, PageOf, NoProcess, NoPage
<1>4. CASE tournament = NoTournament
  <2>1. /\ snapshots = [p \in LiquipediaPages |-> <<>>] /\ lastGood = [p \in LiquipediaPages |-> 0]
        /\ committed = [p \in LiquipediaPages |-> {}]
      BY <1>4 DEF ImporterInit, NoTournament
  <2>2. ImporterTypeOK
      BY <1>1, <1>2, <2>1 DEF ImporterInit, ImporterTypeOK
  <2>3. PagesSound /\ StoredIsWhole
      BY <1>4, <2>1 DEF ImporterInit, PagesSound, StoredIsWhole, NoTournament
  <2> QED BY <1>3, <2>2, <2>3 DEF ImporterInv
<1>5. CASE tournament = [import |-> 0, freshness |-> Freshness(0, 0, 1),
                         matches |-> Listing(LiquipediaPages, revision)] /\ tournament # NoTournament
  <2>1. /\ snapshots = [p \in LiquipediaPages |-> <<0>>] /\ lastGood = [p \in LiquipediaPages |-> 1]
        /\ committed = [p \in LiquipediaPages |-> {1}]
      BY <1>5 DEF ImporterInit
  <2>2. <<0>> \in Seq(0..MaxRevision)
      BY <1>1
  <2>3. ImporterTypeOK
      BY <1>1, <1>2, <2>1, <2>2 DEF ImporterInit, ImporterTypeOK
  <2>4. PagesSound
      BY <1>5, <2>1 DEF PagesSound, Freshness
  <2>5. revision \in [LiquipediaPages -> 0..MaxRevision] /\ \A p \in LiquipediaPages : revision[p] = 0
      BY <1>1 DEF ImporterInit
  <2>6. revision[Main] = tournament.freshness.revision
      BY <1>5, <2>5 DEF Freshness, LiquipediaPages
  <2>7. \A p \in LiquipediaPages : \E n \in DOMAIN snapshots[p] : n \in committed[p] /\ snapshots[p][n] = revision[p]
    <3> SUFFICES ASSUME NEW p \in LiquipediaPages
                 PROVE  1 \in DOMAIN snapshots[p] /\ 1 \in committed[p] /\ snapshots[p][1] = revision[p]
        OBVIOUS
    <3> QED BY <2>1, <2>5
  <2>8. StoredIsWhole
      BY <1>5, <2>5, <2>6, <2>7 DEF StoredIsWhole, ImporterInit
  <2> QED BY <1>3, <2>3, <2>4, <2>8 DEF ImporterInv
<1> QED BY <1>4, <1>5 DEF ImporterInit

\* What is stored stays whole while snapshots are added and nothing else of it changes.
LEMMA StoredKept ==
    ASSUME ImporterInv, Grown, UNCHANGED <<lastGood, tournament, committed>>,
           diagnostics' \in {NoImport, tournament.import}
    PROVE  PagesSound' /\ StoredIsWhole'
<1>1. PagesSound'
    BY DEF ImporterInv, PagesSound, Grown
<1>2. StoredIsWhole'
  <2> SUFFICES ASSUME tournament.import # NoImport
               PROVE  \E revs \in [LiquipediaPages -> 0..MaxRevision] :
                         /\ revs[Main] = tournament.freshness.revision
                         /\ \A p \in LiquipediaPages :
                               \E n \in DOMAIN snapshots'[p] : n \in committed[p] /\ snapshots'[p][n] = revs[p]
                         /\ tournament.matches = Listing(LiquipediaPages, revs)
      BY DEF StoredIsWhole, Listing
  <2>1. PICK revs \in [LiquipediaPages -> 0..MaxRevision] :
             /\ revs[Main] = tournament.freshness.revision
             /\ \A p \in LiquipediaPages :
                   \E n \in DOMAIN snapshots[p] : n \in committed[p] /\ snapshots[p][n] = revs[p]
             /\ tournament.matches = Listing(LiquipediaPages, revs)
      BY DEF ImporterInv, StoredIsWhole
  <2>2. \A p \in LiquipediaPages :
           \E n \in DOMAIN snapshots'[p] : n \in committed[p] /\ snapshots'[p][n] = revs[p]
      BY <2>1 DEF Grown
  <2> QED BY <2>1, <2>2
<1> QED BY <1>1, <1>2

\* A step of one import on one page.
LEMMA PageStep ==
    ASSUME ImporterInv, NEW i \in Importers, NEW p \in LiquipediaPages, NEW page \in PageRow,
           SetPage(i, p, page), process[i].stage = "pages",
           Grown, snapshots' \in [LiquipediaPages -> Seq(0..MaxRevision)],
           UNCHANGED <<revision, lastGood, tournament, diagnostics, committed>>,
           page.stage \in {"done", "revision"} => page.snapshot \in DOMAIN snapshots'[p]
    PROVE  ImporterInv'
<1>1. process \in [Importers -> ProcessRow] /\ process[i] \in ProcessRow
    BY DEF ImporterInv, ImporterTypeOK
<1>2. /\ process' \in [Importers -> ProcessRow] /\ \A j \in Importers \ {i} : process'[j] = process[j]
      /\ process'[i].stage = "pages"
      /\ \A q \in LiquipediaPages : process'[i].pages[q] = IF q = p THEN page ELSE process[i].pages[q]
    BY <1>1 DEF SetPage, ProcessRow
<1>3. ImporterTypeOK'
    BY <1>2 DEF ImporterInv, ImporterTypeOK
<1>4. PagesSound' /\ StoredIsWhole'
  <2>1. diagnostics' \in {NoImport, tournament.import}
      BY DEF ImporterInv, StoredIsWhole
  <2> QED BY <2>1, StoredKept
<1>5. ASSUME NEW j \in Importers, j # i PROVE ProcessSound(j)'
  <2>1. process'[j] = process[j]
      BY <1>2, <1>5
  <2> QED BY <2>1 DEF ImporterInv, ProcessSound, PageOf, Grown
<1>6. ProcessSound(i)'
    BY <1>2 DEF ImporterInv, ProcessSound, PageOf, Grown
<1> QED BY <1>3, <1>4, <1>5, <1>6 DEF ImporterInv

\* An import ends, with what is stored as it is.
LEMMA EndsStep ==
    ASSUME ImporterInv, NEW i \in Importers, EndsImport(i),
           UNCHANGED <<revision, snapshots, lastGood, tournament, committed>>,
           diagnostics' \in {NoImport, tournament.import}
    PROVE  ImporterInv'
<1>1. NoProcess \in ProcessRow
    BY DEF NoProcess, NoPage, ProcessRow, PageRow
<1>2. [NoProcess EXCEPT !.stage = "over"] \in ProcessRow /\ [NoProcess EXCEPT !.stage = "over"].stage = "over"
      /\ [NoProcess EXCEPT !.stage = "over"].pages = NoProcess.pages
    BY <1>1 DEF ProcessRow
<1>3. /\ process' \in [Importers -> ProcessRow] /\ \A j \in Importers \ {i} : process'[j] = process[j]
      /\ process'[i].stage = "over" /\ process'[i].pages = [p \in LiquipediaPages |-> NoPage]
    BY <1>2 DEF EndsImport, ImporterInv, ImporterTypeOK, NoProcess
<1>4. ImporterTypeOK'
    BY <1>3 DEF ImporterInv, ImporterTypeOK
<1>5. PagesSound' /\ StoredIsWhole'
  <2>1. Grown
      BY DEF Grown
  <2> QED BY <2>1, StoredKept
<1>6. ASSUME NEW j \in Importers, j # i PROVE ProcessSound(j)'
  <2>1. process'[j] = process[j]
      BY <1>3, <1>6
  <2> QED BY <2>1 DEF ImporterInv, ProcessSound, PageOf
<1>7. ProcessSound(i)'
    BY <1>3 DEF ProcessSound, PageOf, NoPage
<1> QED BY <1>4, <1>5, <1>6, <1>7 DEF ImporterInv

LEMMA OpeningStep ==
    ASSUME ImporterInv, NEW i \in Importers, \E force \in BOOLEAN : importLiquipediaTournament(i, force)
    PROVE  ImporterInv'
<1>1. PICK force \in BOOLEAN : importLiquipediaTournament(i, force)
    OBVIOUS
<1> DEFINE page == [NoPage EXCEPT !.stage = "lookup"]
<1>2. page \in PageRow /\ page.stage = "lookup"
    BY DEF NoPage, PageRow
<1>3. process \in [Importers -> ProcessRow] /\ process[i] \in ProcessRow /\ Main \in LiquipediaPages
    BY DEF ImporterInv, ImporterTypeOK, LiquipediaPages
<1>4. process' = [process EXCEPT ![i].stage = "pages", ![i].force = force, ![i].pages[Main] = page]
    BY <1>1 DEF importLiquipediaTournament
<1> HIDE DEF page
<1>5. /\ process' \in [Importers -> ProcessRow] /\ \A j \in Importers \ {i} : process'[j] = process[j]
      /\ process'[i].stage = "pages"
      /\ \A q \in LiquipediaPages : process'[i].pages[q] = IF q = Main THEN page ELSE process[i].pages[q]
    BY <1>2, <1>3, <1>4 DEF ProcessRow
<1>6. Grown /\ UNCHANGED <<revision, snapshots, lastGood, tournament, committed>>
      /\ diagnostics' \in {NoImport, tournament.import}
    BY <1>1 DEF importLiquipediaTournament, Grown, ImporterInv, StoredIsWhole
<1>7. ImporterTypeOK' /\ PagesSound' /\ StoredIsWhole'
    BY <1>5, <1>6, StoredKept DEF ImporterInv, ImporterTypeOK
<1>8. ASSUME NEW j \in Importers, j # i PROVE ProcessSound(j)'
  <2>1. process'[j] = process[j]
      BY <1>5, <1>8
  <2> QED BY <1>6, <2>1 DEF ImporterInv, ProcessSound, PageOf
<1>9. ProcessSound(i)'
    BY <1>2, <1>5, <1>6 DEF ImporterInv, ProcessSound, PageOf
<1> QED BY <1>7, <1>8, <1>9 DEF ImporterInv

LEMMA LookUpStep ==
    ASSUME ImporterInv, NEW i \in Importers, NEW p \in LiquipediaPages,
           lookUp(i, p) \/ checkRevision(i, p) \/ revisionCheckFails(i, p)
    PROVE  ImporterInv'
<1>1. /\ UNCHANGED <<revision, snapshots, lastGood, tournament, diagnostics, committed>>
      /\ process[i].stage = "pages" /\ Grown /\ snapshots' \in [LiquipediaPages -> Seq(0..MaxRevision)]
    BY DEF lookUp, checkRevision, revisionCheckFails, PageStage, Grown, ImporterInv, ImporterTypeOK
<1>2. /\ lastGood[p] # 0 => lastGood[p] \in DOMAIN snapshots[p]
      /\ snapshots[p] # <<>> => Len(snapshots[p]) \in DOMAIN snapshots[p]
      /\ DOMAIN snapshots[p] \subseteq Nat
  <2>1. snapshots[p] \in Seq(0..MaxRevision)
      BY DEF ImporterInv, ImporterTypeOK
  <2> QED BY <2>1 DEF ImporterInv, PagesSound
<1>3. ASSUME NEW n \in DOMAIN snapshots[p], NEW b \in BOOLEAN, readSnapshot(i, p, n, b) PROVE ImporterInv'
  <2>1. Loaded(n, b) \in PageRow /\ Incomplete \in PageRow /\ Incomplete.stage = "incomplete" /\ Loaded(n, b).snapshot = n
      BY <1>2 DEF Loaded, Incomplete, NoPage, PageRow
  <2>2. SetPage(i, p, Loaded(n, b)) \/ SetPage(i, p, Incomplete)
      BY <1>3 DEF readSnapshot
  <2> QED BY <1>1, <2>1, <2>2, PageStep
<1>4. ASSUME NEW stage \in {"fetch", "warned"}, SetPage(i, p, [NoPage EXCEPT !.stage = stage]) PROVE ImporterInv'
  <2> DEFINE page == [NoPage EXCEPT !.stage = stage]
  <2>1. page \in PageRow /\ page.stage = stage
      BY DEF NoPage, PageRow
  <2> HIDE DEF page
  <2>2. SetPage(i, p, page)
      BY <1>4 DEF page
  <2> QED BY <1>1, <2>1, <2>2, PageStep
<1>5. ASSUME lastGood[p] # 0, SetPage(i, p, [NoPage EXCEPT !.stage = "revision", !.snapshot = lastGood[p]])
      PROVE  ImporterInv'
  <2> DEFINE page == [NoPage EXCEPT !.stage = "revision", !.snapshot = lastGood[p]]
  <2>1. page \in PageRow /\ page.snapshot = lastGood[p]
      BY <1>2, <1>5 DEF NoPage, PageRow
  <2> HIDE DEF page
  <2>2. SetPage(i, p, page)
      BY <1>5 DEF page
  <2> QED BY <1>1, <1>2, <1>5, <2>1, <2>2, PageStep
<1>6. CASE lookUp(i, p)
    BY <1>2, <1>3, <1>4, <1>5, <1>6 DEF lookUp
<1>7. CASE checkRevision(i, p)
  <2>1. PageOf(i, p).snapshot \in DOMAIN snapshots[p]
      BY <1>7 DEF ImporterInv, ProcessSound, checkRevision, PageStage
  <2> QED BY <1>3, <1>4, <1>7, <2>1 DEF checkRevision
<1>8. CASE revisionCheckFails(i, p)
    BY <1>4, <1>8 DEF revisionCheckFails
<1> QED BY <1>6, <1>7, <1>8

LEMMA FetchPageStep ==
    ASSUME ImporterInv, NEW i \in Importers, NEW p \in LiquipediaPages, fetchPage(i, p)
    PROVE  ImporterInv'
<1>1. snapshots \in [LiquipediaPages -> Seq(0..MaxRevision)] /\ revision[p] \in 0..MaxRevision
    BY DEF ImporterInv, ImporterTypeOK
<1>2. /\ UNCHANGED <<revision, lastGood, tournament, diagnostics, committed>>
      /\ process[i].stage = "pages" /\ snapshots' = [snapshots EXCEPT ![p] = Append(snapshots[p], revision[p])]
    BY DEF fetchPage, PageStage
<1>3. /\ snapshots' \in [LiquipediaPages -> Seq(0..MaxRevision)]
      /\ snapshots'[p] = Append(snapshots[p], revision[p])
      /\ \A q \in LiquipediaPages \ {p} : snapshots'[q] = snapshots[q]
  <2>1. Append(snapshots[p], revision[p]) \in Seq(0..MaxRevision)
      BY <1>1
  <2> QED BY <1>1, <1>2, <2>1
<1>4. Len(snapshots'[p]) \in Nat /\ Len(snapshots'[p]) \in DOMAIN snapshots'[p]
    BY <1>1, <1>3
<1>5. Grown
  <2>1. DOMAIN snapshots[p] \subseteq DOMAIN snapshots'[p] /\ \A n \in DOMAIN snapshots[p] : snapshots'[p][n] = snapshots[p][n]
      BY <1>1, <1>3
  <2> QED BY <1>3, <2>1 DEF Grown
<1>6. Loaded(Len(snapshots'[p]), TRUE) \in PageRow /\ Loaded(Len(snapshots'[p]), TRUE).snapshot = Len(snapshots'[p])
    BY <1>4 DEF Loaded, PageRow
<1>7. Incomplete \in PageRow /\ Incomplete.stage = "incomplete"
    BY DEF Incomplete, NoPage, PageRow
<1>8. SetPage(i, p, Loaded(Len(snapshots'[p]), TRUE)) \/ SetPage(i, p, Incomplete)
    BY DEF fetchPage
<1> QED BY <1>2, <1>3, <1>4, <1>5, <1>6, <1>7, <1>8, PageStep

LEMMA FetchFailsStep ==
    ASSUME ImporterInv, NEW i \in Importers, NEW p \in LiquipediaPages, fetchFails(i, p)
    PROVE  ImporterInv'
<1>1. /\ UNCHANGED <<revision, snapshots, lastGood, tournament, diagnostics, committed>>
      /\ process[i].stage = "pages" /\ Grown /\ snapshots' \in [LiquipediaPages -> Seq(0..MaxRevision)]
      /\ diagnostics' \in {NoImport, tournament.import}
    BY DEF fetchFails, PageStage, Grown, ImporterInv, ImporterTypeOK, StoredIsWhole
<1>2. Incomplete \in PageRow /\ Incomplete.stage = "incomplete"
    BY DEF Incomplete, NoPage, PageRow
<1>3. EndsImport(i) \/ SetPage(i, p, Incomplete)
    BY DEF fetchFails
<1> QED BY <1>1, <1>2, <1>3, PageStep, EndsStep

LEMMA OpenSubpagesStep ==
    ASSUME ImporterInv, NEW i \in Importers, openSubpages(i)
    PROVE  ImporterInv'
<1>1. process \in [Importers -> ProcessRow] /\ process[i] \in ProcessRow
    BY DEF ImporterInv, ImporterTypeOK
<1> DEFINE pages == [p \in LiquipediaPages |-> IF p = Main THEN process[i].pages[p] ELSE [NoPage EXCEPT !.stage = "lookup"]]
<1>2. pages \in [LiquipediaPages -> PageRow]
  <2>1. [NoPage EXCEPT !.stage = "lookup"] \in PageRow
      BY DEF NoPage, PageRow
  <2> QED BY <1>1, <2>1 DEF ProcessRow
<1>3. \A p \in LiquipediaPages \ {Main} : pages[p].stage = "lookup"
    BY DEF NoPage
<1>4. pages[Main] = process[i].pages[Main] /\ Main \in LiquipediaPages
    BY DEF LiquipediaPages
<1>5. process' = [process EXCEPT ![i].pages = pages]
    BY DEF openSubpages
<1> HIDE DEF pages
<1>6. /\ process' \in [Importers -> ProcessRow] /\ \A j \in Importers \ {i} : process'[j] = process[j]
      /\ process'[i].stage = process[i].stage /\ process'[i].pages = pages
    BY <1>1, <1>2, <1>5 DEF ProcessRow
<1>7. Grown /\ UNCHANGED <<revision, snapshots, lastGood, tournament, committed>>
      /\ diagnostics' \in {NoImport, tournament.import} /\ process[i].stage = "pages"
    BY DEF openSubpages, PageStage, Grown, ImporterInv, StoredIsWhole
<1>8. ImporterTypeOK' /\ PagesSound' /\ StoredIsWhole'
    BY <1>6, <1>7, StoredKept DEF ImporterInv, ImporterTypeOK
<1>9. ASSUME NEW j \in Importers, j # i PROVE ProcessSound(j)'
  <2>1. process'[j] = process[j]
      BY <1>6, <1>9
  <2> QED BY <1>7, <2>1 DEF ImporterInv, ProcessSound, PageOf
<1>10. ProcessSound(i)'
    BY <1>3, <1>4, <1>6, <1>7 DEF ImporterInv, ProcessSound, PageOf
<1> QED BY <1>8, <1>9, <1>10 DEF ImporterInv

\* What a sequence holds.
LEMMA ElementsOfSequence ==
    ASSUME NEW S, NEW s \in Seq(S)
    PROVE  \A n \in DOMAIN s : s[n] \in S
OBVIOUS

\* An import that may replace the tournament has all its pages.
LEMMA ValidatedIsWhole ==
    ASSUME ImporterInv, NEW i \in Importers, Validated(i)
    PROVE  /\ process[i].stage = "pages"
           /\ \A p \in LiquipediaPages : PageOf(i, p).stage = "done" /\ PageOf(i, p).snapshot \in DOMAIN snapshots[p]
           /\ \A p \in LiquipediaPages : RevisionOf(i)[p] = snapshots[p][PageOf(i, p).snapshot]
           /\ RevisionOf(i) \in [LiquipediaPages -> 0..MaxRevision]
           /\ CandidateMatches(i) = Listing(LiquipediaPages, RevisionOf(i))
<1>1. process[i].stage = "pages" /\ \A p \in LiquipediaPages : PageOf(i, p).stage = "done"
    BY DEF Validated, PageStage, LiquipediaPages
<1>2. \A p \in LiquipediaPages : PageOf(i, p).snapshot \in DOMAIN snapshots[p]
    BY <1>1 DEF ImporterInv, ProcessSound
<1>3. \A p \in LiquipediaPages : RevisionOf(i)[p] = snapshots[p][PageOf(i, p).snapshot]
    BY DEF RevisionOf
<1>4. ASSUME NEW p \in LiquipediaPages PROVE snapshots[p][PageOf(i, p).snapshot] \in 0..MaxRevision
  <2>1. snapshots[p] \in Seq(0..MaxRevision)
      BY DEF ImporterInv, ImporterTypeOK
  <2>2. \A n \in DOMAIN snapshots[p] : snapshots[p][n] \in 0..MaxRevision
      BY <2>1, ElementsOfSequence
  <2> QED BY <1>2, <2>2, Zenon
<1>5. RevisionOf(i) \in [LiquipediaPages -> 0..MaxRevision]
    BY <1>4 DEF RevisionOf
<1>6. {p \in LiquipediaPages : PageStage(i, p, "done")} = LiquipediaPages
    BY <1>1 DEF PageStage
<1>7. CandidateMatches(i) = Listing(LiquipediaPages, RevisionOf(i))
    BY <1>6 DEF CandidateMatches
<1> QED BY <1>1, <1>2, <1>3, <1>5, <1>7

LEMMA CommitTournamentStep ==
    ASSUME ImporterInv, NEW i \in Importers, commitTournament(i)
    PROVE  ImporterInv'
<1> USE LiquipediaAssumption
<1>1. UNCHANGED <<revision, snapshots, lastGood>> /\ Grown
    BY DEF commitTournament, Grown
<1>2. CASE tournament' = tournament /\ EndsImport(i) /\ UNCHANGED <<diagnostics, committed>>
  <2>1. diagnostics' \in {NoImport, tournament.import}
      BY <1>2 DEF ImporterInv, StoredIsWhole
  <2> QED BY <1>1, <1>2, <2>1, EndsStep
<1>3. ASSUME /\ tournament' = [import |-> i, freshness |-> CandidateFreshness(i), matches |-> CandidateMatches(i)]
             /\ diagnostics' = NoImport
             /\ committed' = [p \in LiquipediaPages |-> committed[p] \cup {PageOf(i, p).snapshot}]
             /\ process' = [process EXCEPT ![i].stage = "publish"]
             /\ Validated(i)
      PROVE  ImporterInv'
  <2>1. /\ process[i].stage = "pages" /\ \A p \in LiquipediaPages : PageOf(i, p).stage = "done"
        /\ \A p \in LiquipediaPages : PageOf(i, p).snapshot \in DOMAIN snapshots[p] /\ snapshots[p] \in Seq(0..MaxRevision)
        /\ process \in [Importers -> ProcessRow] /\ process[i] \in ProcessRow
      BY <1>3, ValidatedIsWhole DEF ImporterInv, ImporterTypeOK
  <2>2. /\ process' \in [Importers -> ProcessRow] /\ \A j \in Importers \ {i} : process'[j] = process[j]
        /\ process'[i].stage = "publish" /\ process'[i].pages = process[i].pages
      BY <1>3, <2>1 DEF ProcessRow
  <2>3. ImporterTypeOK'
    <3>1. committed' \in [LiquipediaPages -> SUBSET Nat]
        BY <1>3, <2>1 DEF ImporterInv, ImporterTypeOK
    <3> QED BY <1>1, <2>2, <3>1 DEF ImporterInv, ImporterTypeOK
  <2>4. /\ RevisionOf(i) \in [LiquipediaPages -> 0..MaxRevision]
        /\ \A p \in LiquipediaPages : RevisionOf(i)[p] = snapshots[p][PageOf(i, p).snapshot]
        /\ CandidateMatches(i) = Listing(LiquipediaPages, RevisionOf(i))
      BY <1>3, ValidatedIsWhole
  <2>5. /\ tournament'.import = i /\ i # NoImport /\ Main \in LiquipediaPages
        /\ tournament'.freshness.revision = RevisionOf(i)[Main] /\ tournament'.freshness.started = i
        /\ tournament'.matches = Listing(LiquipediaPages, RevisionOf(i))
      BY <1>3, <2>4 DEF CandidateFreshness, Freshness, Importers, LiquipediaPages
  <2>6. PagesSound'
    <3>1. RevisionOf(i)[Main] \in Nat
        BY <2>4, <2>5
    <3>2. \A p \in LiquipediaPages : committed'[p] \subseteq DOMAIN snapshots'[p]
        BY <1>1, <1>3, <2>1 DEF ImporterInv, PagesSound
    <3>3. \A p \in LiquipediaPages : lastGood'[p] # 0 => lastGood'[p] \in DOMAIN snapshots'[p]
        BY <1>1 DEF ImporterInv, PagesSound
    <3> QED BY <2>5, <3>1, <3>2, <3>3 DEF PagesSound
  <2>7. StoredIsWhole'
    <3> DEFINE revs == RevisionOf(i)
    <3>1. \A p \in LiquipediaPages :
             PageOf(i, p).snapshot \in DOMAIN snapshots'[p] /\ PageOf(i, p).snapshot \in committed'[p]
             /\ snapshots'[p][PageOf(i, p).snapshot] = revs[p]
        BY <1>1, <1>3, <2>1, <2>4
    <3>2. \A p \in LiquipediaPages : \E n \in DOMAIN snapshots'[p] : n \in committed'[p] /\ snapshots'[p][n] = revs[p]
        BY <3>1
    <3>3. \E r \in [LiquipediaPages -> 0..MaxRevision] :
             /\ r[Main] = tournament'.freshness.revision
             /\ \A p \in LiquipediaPages : \E n \in DOMAIN snapshots'[p] : n \in committed'[p] /\ snapshots'[p][n] = r[p]
             /\ tournament'.matches = Listing(LiquipediaPages, r)
      <4> HIDE DEF revs
      <4>1. revs \in [LiquipediaPages -> 0..MaxRevision] /\ revs[Main] = tournament'.freshness.revision
            /\ tournament'.matches = Listing(LiquipediaPages, revs)
          BY <2>4, <2>5 DEF revs
      <4> QED BY <3>2, <4>1
    <3> QED BY <1>3, <3>3 DEF StoredIsWhole, Listing
  <2>8. ASSUME NEW j \in Importers, j # i PROVE ProcessSound(j)'
    <3>1. process'[j] = process[j]
        BY <2>2, <2>8
    <3> QED BY <1>1, <1>3, <2>5, <3>1 DEF ImporterInv, ProcessSound, PageOf
  <2>9. ProcessSound(i)'
      BY <1>1, <1>3, <2>1, <2>2, <2>5 DEF ProcessSound, PageOf
  <2> QED BY <2>3, <2>6, <2>7, <2>8, <2>9 DEF ImporterInv
<1> QED BY <1>2, <1>3 DEF commitTournament

LEMMA PublishStep ==
    ASSUME ImporterInv, NEW i \in Importers, NEW p \in LiquipediaPages, publish(i, p)
    PROVE  ImporterInv'
<1>1. process \in [Importers -> ProcessRow] /\ process[i] \in ProcessRow
    BY DEF ImporterInv, ImporterTypeOK
<1>2. /\ process' \in [Importers -> ProcessRow] /\ \A j \in Importers \ {i} : process'[j] = process[j]
      /\ process'[i].stage = process[i].stage
      /\ \A q \in LiquipediaPages : process'[i].pages[q].stage = process[i].pages[q].stage
                                    /\ process'[i].pages[q].snapshot = process[i].pages[q].snapshot
  <2>1. process[i].pages[p] \in PageRow
      BY <1>1 DEF ProcessRow
  <2> DEFINE page == [process[i].pages[p] EXCEPT !.publish = FALSE]
  <2>2. page \in PageRow /\ page.stage = process[i].pages[p].stage /\ page.snapshot = process[i].pages[p].snapshot
      BY <2>1 DEF PageRow
  <2>3. process' = [process EXCEPT ![i].pages[p] = page]
      BY DEF publish
  <2> HIDE DEF page
  <2> QED BY <1>1, <2>2, <2>3 DEF ProcessRow
<1>3. /\ UNCHANGED <<revision, snapshots, tournament, diagnostics, committed>>
      /\ lastGood' = lastGood \/ lastGood' = [lastGood EXCEPT ![p] = PageOf(i, p).snapshot]
      /\ PageOf(i, p).snapshot \in committed[p]
    BY DEF publish, ImporterInv, ProcessSound
<1>4. committed[p] \subseteq DOMAIN snapshots[p] /\ committed[p] \subseteq Nat
    BY DEF ImporterInv, PagesSound, ImporterTypeOK
<1>5. ImporterTypeOK'
    BY <1>2, <1>3, <1>4 DEF ImporterInv, ImporterTypeOK
<1>6. PagesSound'
  <2>1. \A q \in LiquipediaPages : lastGood'[q] # 0 => lastGood'[q] \in DOMAIN snapshots[q]
      BY <1>3, <1>4 DEF ImporterInv, ImporterTypeOK, PagesSound
  <2> QED BY <1>3, <2>1 DEF ImporterInv, PagesSound
<1>7. StoredIsWhole'
    BY <1>3 DEF ImporterInv, StoredIsWhole, Listing
<1>8. ASSUME NEW j \in Importers, j # i PROVE ProcessSound(j)'
  <2>1. process'[j] = process[j]
      BY <1>2, <1>8
  <2> QED BY <1>3, <2>1 DEF ImporterInv, ProcessSound, PageOf
<1>9. ProcessSound(i)'
    BY <1>2, <1>3 DEF ImporterInv, ProcessSound, PageOf
<1> QED BY <1>5, <1>6, <1>7, <1>8, <1>9 DEF ImporterInv

\* Diagnostics are stored only while the tournament is the import's own.
LEMMA DiagnosticsStep ==
    ASSUME ImporterInv, NEW i \in Importers, persistMergedDiagnostics(i)
    PROVE  ImporterInv'
<1>1. tournament.import # NoImport /\ tournament.freshness.started = tournament.import
    BY DEF persistMergedDiagnostics, ImporterInv, ProcessSound, PagesSound
<1>2. SameFreshness(i) => tournament.import = i
    BY <1>1 DEF SameFreshness, CandidateFreshness, Freshness
<1>3. diagnostics' \in {NoImport, tournament.import}
    BY <1>2 DEF persistMergedDiagnostics, ImporterInv, StoredIsWhole
<1> QED BY <1>3, EndsStep DEF persistMergedDiagnostics

LEMMA ImporterAside ==
    ASSUME ImporterInv, revision' \in [LiquipediaPages -> 0..MaxRevision],
           UNCHANGED <<snapshots, lastGood, tournament, diagnostics, process, committed>>
    PROVE  ImporterInv'
<1>1. Grown /\ diagnostics' \in {NoImport, tournament.import}
    BY DEF Grown, ImporterInv, StoredIsWhole
<1>2. PagesSound' /\ StoredIsWhole'
    BY <1>1, StoredKept
<1>3. ImporterTypeOK'
    BY DEF ImporterInv, ImporterTypeOK
<1>4. \A i \in Importers : ProcessSound(i)'
    BY DEF ImporterInv, ProcessSound, PageOf
<1> QED BY <1>2, <1>3, <1>4 DEF ImporterInv

LEMMA ImporterStep ==
    ASSUME ImporterInv, [ImporterNext]_importerVars
    PROVE  ImporterInv'
<1>1. CASE UNCHANGED importerVars
    BY <1>1, ImporterAside DEF importerVars, ImporterInv, ImporterTypeOK
<1>2. ASSUME NEW p \in LiquipediaPages, editPage(p) PROVE ImporterInv'
  <2>1. revision' \in [LiquipediaPages -> 0..MaxRevision]
      BY <1>2, LiquipediaAssumption DEF editPage, ImporterInv, ImporterTypeOK
  <2> QED BY <1>2, <2>1, ImporterAside DEF editPage
<1>3. ASSUME NEW i \in Importers, stops(i) PROVE ImporterInv'
    BY <1>3, EndsStep DEF stops, ImporterInv, StoredIsWhole
<1> QED BY <1>1, <1>2, <1>3, OpeningStep, LookUpStep, FetchPageStep, FetchFailsStep, OpenSubpagesStep,
           CommitTournamentStep, PublishStep, DiagnosticsStep DEF ImporterNext

THEOREM ImporterInductive == ImporterSpec => []ImporterInv
BY ImporterStart, ImporterStep, PTL DEF ImporterSpec

\* The matches stored are those of all pages of one import, and the diagnostics are of that import.
THEOREM LiquipediaStoredWhole == ImporterSpec => []StoredIsWhole
<1>1. ImporterInv => StoredIsWhole
    BY DEF ImporterInv
<1> QED BY <1>1, ImporterInductive, PTL

\* Only a commit changes the tournament.
LEMMA OnlyCommitsStore ==
    ASSUME [ImporterNext]_importerVars
    PROVE  tournament' = tournament \/ \E i \in Importers : commitTournament(i)
<1>1. CASE UNCHANGED importerVars
    BY <1>1 DEF importerVars
<1>2. ASSUME NEW p \in LiquipediaPages, editPage(p) PROVE tournament' = tournament
    BY <1>2 DEF editPage
<1>3. ASSUME NEW i \in Importers, NEW f \in BOOLEAN,
             importLiquipediaTournament(i, f) \/ openSubpages(i) \/ persistMergedDiagnostics(i) \/ stops(i)
      PROVE  tournament' = tournament
    BY <1>3 DEF importLiquipediaTournament, openSubpages, persistMergedDiagnostics, stops
<1>4. ASSUME NEW i \in Importers, NEW p \in LiquipediaPages,
             lookUp(i, p) \/ checkRevision(i, p) \/ revisionCheckFails(i, p) \/ fetchPage(i, p) \/ fetchFails(i, p) \/ publish(i, p)
      PROVE  tournament' = tournament
    BY <1>4 DEF lookUp, checkRevision, revisionCheckFails, fetchPage, fetchFails, publish
<1> QED BY <1>1, <1>2, <1>3, <1>4 DEF ImporterNext

\* Only a publication changes what is last good.
LEMMA OnlyPublicationsMarkGood ==
    ASSUME [ImporterNext]_importerVars
    PROVE  lastGood' = lastGood \/ \E i \in Importers, q \in LiquipediaPages : publish(i, q)
<1>1. CASE UNCHANGED importerVars
    BY <1>1 DEF importerVars
<1>2. ASSUME NEW p \in LiquipediaPages, editPage(p) PROVE lastGood' = lastGood
    BY <1>2 DEF editPage
<1>3. ASSUME NEW i \in Importers, NEW f \in BOOLEAN,
             importLiquipediaTournament(i, f) \/ openSubpages(i) \/ commitTournament(i) \/ persistMergedDiagnostics(i) \/ stops(i)
      PROVE  lastGood' = lastGood
    BY <1>3 DEF importLiquipediaTournament, openSubpages, commitTournament, persistMergedDiagnostics, stops
<1>4. ASSUME NEW i \in Importers, NEW p \in LiquipediaPages,
             lookUp(i, p) \/ checkRevision(i, p) \/ revisionCheckFails(i, p) \/ fetchPage(i, p) \/ fetchFails(i, p)
      PROVE  lastGood' = lastGood
    BY <1>4 DEF lookUp, checkRevision, revisionCheckFails, fetchPage, fetchFails
<1> QED BY <1>1, <1>2, <1>3, <1>4 DEF ImporterNext

\* However imports overlap, the tournament never goes back to an older main page.
THEOREM LiquipediaMainPageAdvances == ImporterSpec => MainPageAdvances
<1> DEFINE Advances == tournament.import # NoImport => tournament'.freshness.revision >= tournament.freshness.revision
<1>1. ASSUME ImporterInv, [ImporterNext]_importerVars PROVE Advances
  <2>1. ASSUME NEW i \in Importers, commitTournament(i), tournament' # tournament, tournament.import # NoImport
        PROVE  tournament'.freshness.revision >= tournament.freshness.revision
    <3>1. /\ Validated(i) /\ ~Superseded(i)
          /\ tournament' = [import |-> i, freshness |-> CandidateFreshness(i), matches |-> CandidateMatches(i)]
        BY <2>1 DEF commitTournament
    <3>2. RevisionOf(i)[Main] \in 0..MaxRevision
        BY <1>1, <3>1, ValidatedIsWhole DEF LiquipediaPages
    <3>3. tournament'.freshness.revision = RevisionOf(i)[Main] /\ tournament'.freshness.revision \in Nat
        BY <3>1, <3>2, LiquipediaAssumption DEF CandidateFreshness, Freshness
    <3>4. tournament.freshness.revision \in Nat /\ ~shouldRejectSuperseded(CandidateFreshness(i), tournament.freshness)
        BY <1>1, <2>1, <3>1 DEF Superseded, ImporterInv, PagesSound
    <3>5. ~(CandidateFreshness(i).revision < tournament.freshness.revision)
        BY <3>4 DEF shouldRejectSuperseded
    <3> QED BY <3>1, <3>3, <3>4, <3>5
  <2>2. tournament' = tournament => Advances
      BY <1>1 DEF ImporterInv, PagesSound
  <2>3. tournament' = tournament \/ \E i \in Importers : commitTournament(i)
      BY <1>1, OnlyCommitsStore
  <2> QED BY <2>1, <2>2, <2>3
<1> QED BY <1>1, ImporterInductive, PTL DEF ImporterSpec, MainPageAdvances

\* What becomes last good was stored as a whole, and is newer than what it replaces.
THEOREM LiquipediaLastGoodAdvances == ImporterSpec => LastGoodAdvances
<1> DEFINE Newer(p) ==
        lastGood'[p] # lastGood[p] =>
           LET old == lastGood[p]  new == lastGood'[p]
           IN  /\ new \in committed[p]
               /\ old # 0 => \/ snapshots[p][old] < snapshots[p][new]
                             \/ snapshots[p][old] = snapshots[p][new] /\ old < new
<1>1. ASSUME ImporterInv, [ImporterNext]_importerVars PROVE \A p \in LiquipediaPages : Newer(p)
  <2>1. ASSUME NEW i \in Importers, NEW q \in LiquipediaPages, publish(i, q), NEW p \in LiquipediaPages,
               lastGood'[p] # lastGood[p]
        PROVE  Newer(p)
    <3> DEFINE old == lastGood[p]
               new == lastGood'[p]
    <3>1. p = q /\ new = PageOf(i, q).snapshot /\ ~SkipsPublication(q, PageOf(i, q).snapshot)
        BY <1>1, <2>1 DEF publish, ImporterInv, ImporterTypeOK
    <3>2. new \in committed[p] /\ new \in DOMAIN snapshots[p] /\ new \in Nat /\ old \in Nat
          /\ (old # 0 => old \in DOMAIN snapshots[p])
        BY <1>1, <2>1, <3>1 DEF publish, ImporterInv, ProcessSound, PagesSound, ImporterTypeOK
    <3>3. snapshots[p] \in Seq(0..MaxRevision)
        BY <1>1 DEF ImporterInv, ImporterTypeOK
    <3>4. \A n \in DOMAIN snapshots[p] : snapshots[p][n] \in Nat
        BY <3>3, LiquipediaAssumption
    <3>5. ASSUME old # 0
          PROVE  \/ snapshots[p][old] < snapshots[p][new]
                 \/ snapshots[p][old] = snapshots[p][new] /\ old < new
      <4>1. snapshots[p][old] \in Nat /\ snapshots[p][new] \in Nat
          BY <3>2, <3>4, <3>5
      <4>2. IF snapshots[p][new] # snapshots[p][old] THEN ~(snapshots[p][old] > snapshots[p][new]) ELSE ~(old > new)
          BY <2>1, <3>1, <3>5 DEF SkipsPublication
      <4> HIDE DEF old, new
      <4>3. old # new
          BY <2>1 DEF old, new
      <4> QED BY <3>2, <4>1, <4>2, <4>3
    <3> QED BY <3>2, <3>5
  <2>2. lastGood' = lastGood \/ \E i \in Importers, q \in LiquipediaPages : publish(i, q)
      BY <1>1, OnlyPublicationsMarkGood
  <2> QED BY <2>1, <2>2
<1> QED BY <1>1, ImporterInductive, PTL DEF ImporterSpec, LastGoodAdvances
=============================================================================
