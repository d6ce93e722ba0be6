-------------------------- MODULE TLineTeamMapping --------------------------
(***************************************************************************)
(* Which team of the Admin directory a team of the official site is         *)
(* (backend/src/tline/mappings and the routes of team mappings): set,      *)
(* cleared and unlocked by operators, and filled in by the automap, which  *)
(* reads all mappings first and writes those it found later.               *)
(***************************************************************************)
EXTENDS Naturals

CONSTANTS
    SourceTeams,    \* of one championship
    AdminTeams,     \* of its Shapka's directory
    Automaps,       \* requests
    Unmatched       \* no team

VARIABLES
    teamMapping,        \* TLineTeamMapping: [SourceTeams -> a row]
    automap,        \* the progress of each request
    chosen,         \* history: the team an operator chose last
    raced           \* history: teams locked while an automap took them for free

mappingVars == <<teamMapping, automap, chosen, raced>>

NoMapping == [status |-> "none", admin |-> Unmatched, locked |-> FALSE]
NoAutomap == [stage |-> "idle", seen |-> [t \in SourceTeams |-> NoMapping]]

MappingInit ==
    /\ teamMapping = [t \in SourceTeams |-> NoMapping]
    /\ automap = [r \in Automaps |-> NoAutomap]
    /\ chosen = [t \in SourceTeams |-> Unmatched]
    /\ raced = {}

\* An automap that read this team before now will write it.
Taken(t) == \E r \in Automaps : automap[r].stage = "write" /\ ~automap[r].seen[t].locked

\* An operator sets the row of t.
Sets(t, row) ==
    /\ teamMapping' = [teamMapping EXCEPT ![t] = row]
    /\ chosen' = [chosen EXCEPT ![t] = row.admin]
    /\ raced' = IF Taken(t) THEN raced \cup {t} ELSE raced \ {t}
    /\ UNCHANGED automap

HasRow(t) == teamMapping[t].status # "none"

saveManualTLineTeamMapping(t, a, locked) ==
    Sets(t, [status |-> "MANUAL_MAPPED", admin |-> a, locked |-> locked])

clearManualTLineTeamMapping(t) ==
    /\ HasRow(t)
    /\ Sets(t, [teamMapping[t] EXCEPT !.status = "MANUAL_UNMAPPED", !.locked = TRUE])

unlockTLineTeamMapping(t) ==
    /\ HasRow(t)
    /\ Sets(t, [teamMapping[t] EXCEPT !.status = IF @ = "MANUAL_UNMAPPED" THEN "UNMAPPED" ELSE @,
                                  !.locked = FALSE])

readMappings(r) ==
    /\ automap[r].stage = "idle"
    /\ automap' = [automap EXCEPT ![r] = [stage |-> "write", seen |-> teamMapping]]
    /\ UNCHANGED <<teamMapping, chosen, raced>>

\* Mutant: what is locked is found again, by its name.
AnyRow(row) == TRUE

Writable(row) == ~row.locked

\* resolveTeamMapping finds one team, or none, for each row that is not locked; the lock of the row
\* is left as it is.
writeMappings(r) ==
    /\ automap[r].stage = "write"
    /\ \E found \in [SourceTeams -> AdminTeams \cup {Unmatched}] :
          teamMapping' = [t \in SourceTeams |->
              IF Writable(automap[r].seen[t]) /\ found[t] # Unmatched
              THEN [teamMapping[t] EXCEPT !.status = "AUTO_MAPPED", !.admin = found[t]]
              ELSE teamMapping[t]]
    /\ automap' = [automap EXCEPT ![r] = NoAutomap]
    /\ UNCHANGED <<chosen, raced>>

MappingNext ==
    \/ \E t \in SourceTeams :
          \/ \E a \in AdminTeams, locked \in BOOLEAN : saveManualTLineTeamMapping(t, a, locked)
          \/ clearManualTLineTeamMapping(t) \/ unlockTLineTeamMapping(t)
    \/ \E r \in Automaps : readMappings(r) \/ writeMappings(r)

MappingSpec == MappingInit /\ [][MappingNext]_mappingVars

-----------------------------------------------------------------------------
(* Properties. *)

\* What an operator locked stands until an operator changes it, whatever automaps run and in
\* whatever order they read and write; only one that had read the team before it was locked
\* overwrites the choice, and leaves the lock on its own.
OperatorsChoiceStands ==
    \A t \in SourceTeams \ raced :
        teamMapping[t].locked =>
            teamMapping[t].status \in {"MANUAL_MAPPED", "MANUAL_UNMAPPED"} /\ teamMapping[t].admin = chosen[t]
=============================================================================
