----------------------------- MODULE KhlDelivery -----------------------------
(***************************************************************************)
(* KHL results from the source's answer to the delivery that is staged for  *)
(* Admin: repository.ts stores revisions and activates the valid ones,      *)
(* bindings.ts and targetBindings.ts confirm the Admin ids an operator      *)
(* chose, preview.ts computes the payload and delivery.ts stages it once.   *)
(*                                                                         *)
(* Every write is one serializable transaction and so one action.  Only the *)
(* staging of a delivery spans several steps: its preview is read before    *)
(* the transaction, and a transaction that loses a conflict is tried again. *)
(***************************************************************************)
EXTENDS Naturals, Sequences, SequencesExt

CONSTANTS
    Games, Teams, Players,
    Contents,         \* the normalized contents a source may answer with
    Content,          \* [Contents -> [game, valid, identity, teams, roster]]
    AdminTeams, AdminMatches,
    AdminMatch,       \* [AdminMatches -> [fits: identities, teams: [Teams -> AdminTeams]]]
    Stagers,          \* requests that stage a delivery
    MaxStageAttempts, \* MAX_STAGE_ATTEMPTS, five in the code
    None

ASSUME AttemptsAssumption == MaxStageAttempts \in Nat \ {0}
ASSUME ContentsAssumption ==
    \A c \in Contents :
        /\ Content[c].game \in Games /\ Content[c].teams \subseteq Teams /\ Content[c].roster \subseteq Players
        /\ \A d \in Contents : Content[c].game = Content[d].game /\ Content[c].identity = Content[d].identity
                               => Content[c].teams = Content[d].teams
ASSUME CandidatesAssumption == \A m \in AdminMatches : AdminMatch[m].teams \in [Teams -> AdminTeams]
ASSUME NoneAssumption == None \notin Contents \cup AdminTeams \cup AdminMatches

VARIABLES
    revisions,    \* game -> contents in the order of their revision numbers
    active,       \* game -> content of the active revision
    match,        \* game -> confirmed Admin match
    team,         \* team -> confirmed Admin team
    teamStats,    \* team -> Admin team whose stat records are confirmed for it
    statTypes,    \* the Admin stat types are confirmed
    player,       \* players with a confirmed Admin player
    participant,  \* game -> player -> Admin match whose match-player id is confirmed
    target,       \* game -> player -> Admin match whose stat records are confirmed
    stager,
    deliveries    \* payloads in the order they were staged

bindings == <<match, team, teamStats, statTypes, player, participant, target>>
vars == <<revisions, active, bindings, stager, deliveries>>

Identity(c) == Content[c].identity
TeamsOf(g) == Content[active[g]].teams
Roster(g) == Content[active[g]].roster

Unbound == [g \in Games |-> [p \in Players |-> None]]
IdleStager == [step |-> "idle", payload |-> None, attempt |-> 0]

Init ==
    /\ revisions = [g \in Games |-> <<>>]
    /\ active = [g \in Games |-> None]
    /\ match = [g \in Games |-> None]
    /\ team = [t \in Teams |-> None]
    /\ teamStats = [t \in Teams |-> None]
    /\ statTypes = FALSE
    /\ player = {}
    /\ participant = Unbound
    /\ target = Unbound
    /\ stager = [s \in Stagers |-> IdleStager]
    /\ deliveries = <<>>

-----------------------------------------------------------------------------
(* Ingestion.                                                              *)

bindingIdentityChanged(g, c) == active[g] = None \/ Identity(active[g]) # Identity(c)

\* Mutant: only the listed players.
ListedOnly(binding, g) == [binding EXCEPT ![g] = [p \in Players |->
    IF active[g] # None /\ p \in Roster(g) THEN None ELSE @[p]]]

\* The ids that belonged to the match as it was, also those of players no longer listed.
Invalidated(binding, g) == [binding EXCEPT ![g] = [p \in Players |-> None]]

invalidateMatchScopedBindings(g) ==
    /\ match' = [match EXCEPT ![g] = None]
    /\ participant' = Invalidated(participant, g)
    /\ target' = Invalidated(target, g)

\* A valid content becomes active, the one an earlier answer stored included; a rejected
\* one leaves evidence only.
ingestTransaction(c) ==
    LET g == Content[c].game IN
    /\ revisions' = IF c \in ToSet(revisions[g]) THEN revisions
                    ELSE [revisions EXCEPT ![g] = Append(@, c)]
    /\ active' = IF Content[c].valid THEN [active EXCEPT ![g] = c] ELSE active
    /\ IF Content[c].valid /\ bindingIdentityChanged(g, c)
       THEN invalidateMatchScopedBindings(g)
       ELSE UNCHANGED <<match, participant, target>>
    /\ UNCHANGED <<team, teamStats, statTypes, player, stager, deliveries>>

-----------------------------------------------------------------------------
(* Bindings.  The operator confirms ids of the Admin objects bound at that  *)
(* time: the ids of a match's participants belong to its Admin match, the   *)
(* stat records of a team to its Admin team.                               *)

Ingested(t) == \E g \in Games : \E c \in ToSet(revisions[g]) : t \in Content[c].teams

\* A bound match was stored with an active revision, which names its two teams.
DependentMatches(t) == {g \in Games : match[g] # None /\ t \in TeamsOf(g)}

confirmKhlTeamBinding(t, a) ==
    /\ Ingested(t)
    /\ team[t] \notin {None, a} => DependentMatches(t) = {}
    /\ \A u \in Teams \ {t} : team[u] # a
    /\ team' = [team EXCEPT ![t] = a]
    /\ UNCHANGED <<revisions, active, match, teamStats, statTypes, player, participant,
                   target, stager, deliveries>>

\* Mutant: the Admin teams of the candidate are not compared.
TimeCompatible(g, m) == Identity(active[g]) \in AdminMatch[m].fits

\* resolveAdminMatch: the candidate must name both Admin teams, the season, the stage and
\* the time of the game.
Compatible(g, m) ==
    /\ Identity(active[g]) \in AdminMatch[m].fits
    /\ \A t \in TeamsOf(g) : team[t] = AdminMatch[m].teams[t]

confirmKhlMatchBinding(g, m) ==
    /\ active[g] # None
    /\ \A t \in TeamsOf(g) : team[t] # None
    /\ Compatible(g, m)
    /\ match[g] \in {None, m}
    /\ \A h \in Games \ {g} : match[h] # m
    /\ match' = [match EXCEPT ![g] = m]
    /\ UNCHANGED <<revisions, active, team, teamStats, statTypes, player, participant,
                   target, stager, deliveries>>

\* With the match-player id when the match is bound, and without it.
confirmKhlPlayerBinding(g, p, withMatch) ==
    /\ active[g] # None
    /\ p \in Roster(g)
    /\ withMatch => match[g] # None /\ participant[g][p] \in {None, match[g]}
    /\ player' = player \cup {p}
    /\ participant' = IF withMatch THEN [participant EXCEPT ![g][p] = match[g]] ELSE participant
    /\ UNCHANGED <<revisions, active, match, team, teamStats, statTypes, target, stager,
                   deliveries>>

confirmKhlStatTypes ==
    /\ ~statTypes
    /\ statTypes' = TRUE
    /\ UNCHANGED <<revisions, active, match, team, teamStats, player, participant, target,
                   stager, deliveries>>

\* upsertImmutableTeamStatBinding: a confirmed record is repeated, never replaced.
WithTeamStats(T) ==
    [t \in Teams |-> IF t \in T /\ teamStats[t] = None THEN team[t] ELSE teamStats[t]]

confirmKhlTeamStatBindings(t) ==
    /\ team[t] # None
    /\ teamStats' = WithTeamStats({t})
    /\ UNCHANGED <<revisions, active, match, team, statTypes, player, participant, target,
                   stager, deliveries>>

\* Everything the result of one match needs, for exactly the listed players.
confirmKhlResultTargets(g) ==
    /\ match[g] # None
    /\ \A t \in TeamsOf(g) : team[t] # None
    /\ \A p \in Roster(g) : {participant[g][p], target[g][p]} \subseteq {None, match[g]}
    /\ statTypes' = TRUE
    /\ teamStats' = WithTeamStats(TeamsOf(g))
    /\ player' = player \cup Roster(g)
    /\ participant' = [participant EXCEPT ![g] =
           [p \in Players |-> IF p \in Roster(g) THEN match[g] ELSE @[p]]]
    /\ target' = [target EXCEPT ![g] =
           [p \in Players |-> IF p \in Roster(g) THEN match[g] ELSE @[p]]]
    /\ UNCHANGED <<revisions, active, match, team, stager, deliveries>>

-----------------------------------------------------------------------------
(* Preview.  Every content stands for a finished game.                     *)

LatestIsActive(g) == active[g] # None /\ Last(revisions[g]) = active[g]

\* buildKhlAdminPreview is ready: the newest revision is the active one and no id is missing.
Ready(g) ==
    /\ LatestIsActive(g)
    /\ match[g] # None
    /\ statTypes
    /\ \A t \in TeamsOf(g) : team[t] # None /\ teamStats[t] # None
    /\ \A p \in Roster(g) : p \in player /\ participant[g][p] # None /\ target[g][p] # None

\* buildKhlAdminCanonicalPayload; its hash tells two payloads apart.
Payload(g) ==
    [game |-> g, content |-> active[g], match |-> match[g],
     teams |-> [t \in TeamsOf(g) |-> team[t]],
     stats |-> [t \in TeamsOf(g) |-> teamStats[t]],
     players |-> [p \in Roster(g) |-> {participant[g][p], target[g][p]}]]

-----------------------------------------------------------------------------
(* Staging.                                                                *)

Answer(s) == stager' = [stager EXCEPT ![s] = [IdleStager EXCEPT !.step = "staged"]]
Refuse(s) == stager' = [stager EXCEPT ![s] = IdleStager]

\* Mutant: the delivery of the winner is returned as it is.
AssumedCurrent(s) == TRUE

Reviewed(s) == stager[s].payload
Current(s) == Ready(Reviewed(s).game) /\ Payload(Reviewed(s).game) = Reviewed(s)

\* stageKhlAdminDelivery builds the preview once more and goes on if it is the one the
\* operator reviewed; a request with any other is refused and changes nothing.
buildPreview(s, g) ==
    /\ stager[s].step = "idle"
    /\ Ready(g)
    /\ stager' = [stager EXCEPT ![s] = [step |-> "staging", payload |-> Payload(g), attempt |-> 1]]
    /\ UNCHANGED <<revisions, active, bindings, deliveries>>

\* Mutant: the transaction trusts the preview.
UnlockedActive(p) == active[p.game] # None

\* What the transaction compares once more with the row of the match locked.
StillActive(p) ==
    /\ active[p.game] = p.content
    /\ match[p.game] = p.match
    /\ LatestIsActive(p.game)

stageTransaction(s) ==
    /\ stager[s].step = "staging"
    /\ IF StillActive(Reviewed(s))
       THEN /\ deliveries' = IF Reviewed(s) \in ToSet(deliveries) THEN deliveries
                             ELSE Append(deliveries, Reviewed(s))
            /\ Answer(s)
       ELSE Refuse(s) /\ UNCHANGED deliveries
    /\ UNCHANGED <<revisions, active, bindings>>

\* The transaction lost a conflict: another request may have staged the same payload.
stageConflict(s) ==
    /\ stager[s].step = "staging"
    /\ IF Reviewed(s) \in ToSet(deliveries) THEN stager' = [stager EXCEPT ![s].step = "winner", ![s].attempt = 0]
       ELSE IF stager[s].attempt >= MaxStageAttempts THEN Refuse(s)
       ELSE stager' = [stager EXCEPT ![s].attempt = @ + 1]
    /\ UNCHANGED <<revisions, active, bindings, deliveries>>

assertReviewedPreviewCurrent(s) ==
    /\ stager[s].step = "winner"
    /\ IF Current(s) THEN Answer(s) ELSE Refuse(s)
    /\ UNCHANGED <<revisions, active, bindings, deliveries>>

leave(s) ==
    /\ stager[s].step = "staged"
    /\ Refuse(s)
    /\ UNCHANGED <<revisions, active, bindings, deliveries>>

-----------------------------------------------------------------------------

Bind ==
    \/ \E t \in Teams : confirmKhlTeamStatBindings(t) \/ \E a \in AdminTeams : confirmKhlTeamBinding(t, a)
    \/ \E g \in Games : confirmKhlResultTargets(g) \/ \E m \in AdminMatches : confirmKhlMatchBinding(g, m)
    \/ \E g \in Games, p \in Players, withMatch \in BOOLEAN : confirmKhlPlayerBinding(g, p, withMatch)
    \/ confirmKhlStatTypes

Stage(s) ==
    \/ \E g \in Games : buildPreview(s, g)
    \/ stageTransaction(s) \/ stageConflict(s) \/ assertReviewedPreviewCurrent(s) \/ leave(s)

Next ==
    \/ \E c \in Contents : ingestTransaction(c)
    \/ Bind
    \/ \E s \in Stagers : Stage(s)

Spec == Init /\ [][Next]_vars

-----------------------------------------------------------------------------
(* Properties.                                                             *)

\* A confirmed Admin match fits the identity of the active revision and names the Admin
\* teams its two teams are bound to, and every id of a participant belongs to that match:
\* neither a re-activated revision nor a team bound anew leaves ids of another match behind.
BindingsFollowIdentity ==
    \A g \in Games :
        /\ match[g] # None =>
              /\ active[g] # None
              /\ Identity(active[g]) \in AdminMatch[match[g]].fits
              /\ \A t \in TeamsOf(g) : team[t] = AdminMatch[match[g]].teams[t]
        /\ \A p \in Players : {participant[g][p], target[g][p]} \subseteq {None, match[g]}

\* A staged payload carries a valid content, the whole roster and ids of one Admin match that
\* fits the content, however much was bound anew while it was reviewed and staged.
PayloadsConsistent ==
    \A i \in DOMAIN deliveries :
        LET p == deliveries[i]
        IN  /\ Content[p.content].valid
            /\ Identity(p.content) \in AdminMatch[p.match].fits
            /\ p.teams = [t \in Content[p.content].teams |-> AdminMatch[p.match].teams[t]]
            /\ p.players = [x \in Content[p.content].roster |-> {p.match}]

RevisionNumber(c) == CHOOSE n \in DOMAIN revisions[Content[c].game] : revisions[Content[c].game][n] = c

\* A later delivery of a game never carries an older revision than an earlier one, although
\* the source may return to an older content and have it activated again.
DeliveriesAdvance ==
    \A i, j \in DOMAIN deliveries :
        i < j /\ deliveries[i].game = deliveries[j].game
            => RevisionNumber(deliveries[i].content) <= RevisionNumber(deliveries[j].content)

\* A request is answered with a delivery, its own or the one of the request it raced, only
\* while the revision and the match the operator reviewed are still the current ones.
AnswersAreCurrent ==
    [][\A s \in Stagers :
          stager'[s].step = "staged" /\ stager[s].step # "staged" =>
              LET p == Reviewed(s)
              IN  /\ active[p.game] = p.content /\ match[p.game] = p.match
                  /\ p.content = Last(revisions[p.game])
                  /\ p \in ToSet(deliveries')]_vars
=============================================================================
