------------------------- MODULE KhlDeliveryProofs -------------------------
(***************************************************************************)
(* Bindings follow the identity of a match, and payloads are those of one   *)
(* Admin match, for any contents, operators and requests.                  *)
(***************************************************************************)
EXTENDS KhlDelivery, TLAPS

Bound == [Games -> [Players -> AdminMatches \cup {None}]]

TypeOK ==
    /\ active \in [Games -> Contents \cup {None}]
    /\ match \in [Games -> AdminMatches \cup {None}]
    /\ team \in [Teams -> AdminTeams \cup {None}]
    /\ participant \in Bound
    /\ target \in Bound

\* The active content of a game is a valid one of its own.
ActiveSound ==
    \A g \in Games : active[g] # None => Content[active[g]].game = g /\ Content[active[g]].valid

BindingInv == TypeOK /\ ActiveSound /\ BindingsFollowIdentity

-----------------------------------------------------------------------------

LEMMA BindingInit == Init => BindingInv
BY DEF Init, BindingInv, TypeOK, Bound, ActiveSound, BindingsFollowIdentity, Unbound

\* An answer of the same identity names the same teams; another one clears what was bound.
LEMMA IngestStep ==
    ASSUME BindingInv, NEW c \in Contents, ingestTransaction(c)
    PROVE  BindingInv'
<1> USE DEF BindingInv
<1> DEFINE g == Content[c].game
<1>1. g \in Games
    BY ContentsAssumption
<1>2. CASE ~Content[c].valid
    BY <1>2 DEF ingestTransaction, TypeOK, ActiveSound, BindingsFollowIdentity, Identity, TeamsOf
<1>3. CASE Content[c].valid
  <2>1. active' = [active EXCEPT ![g] = c] /\ team' = team
      BY <1>3 DEF ingestTransaction
  <2> HIDE DEF g
  <2>2. CASE bindingIdentityChanged(g, c)
    <3>1. /\ match' = [match EXCEPT ![g] = None]
          /\ participant' = [participant EXCEPT ![g] = [p \in Players |-> None]]
          /\ target' = [target EXCEPT ![g] = [p \in Players |-> None]]
        BY <1>3, <2>2 DEF ingestTransaction, invalidateMatchScopedBindings, Invalidated, g
    <3>2. TypeOK' /\ ActiveSound'
        BY <1>1, <1>3, <2>1, <3>1 DEF TypeOK, Bound, ActiveSound, g
    <3>3. BindingsFollowIdentity'
        BY <1>1, <2>1, <3>1 DEF TypeOK, Bound, BindingsFollowIdentity, Identity, TeamsOf
    <3> QED BY <3>2, <3>3
  <2>3. CASE ~bindingIdentityChanged(g, c)
    <3>1. UNCHANGED <<match, participant, target>>
        BY <1>3, <2>3 DEF ingestTransaction, g
    <3>2. active[g] \in Contents /\ Identity(active[g]) = Identity(c) /\ Content[active[g]].game = g
        BY <1>1, <2>3 DEF bindingIdentityChanged, TypeOK, ActiveSound
    <3>3. Content[active[g]].teams = Content[c].teams
        BY <3>2, ContentsAssumption DEF Identity, g
    <3>4. TypeOK' /\ ActiveSound'
        BY <1>1, <1>3, <2>1, <3>1 DEF TypeOK, ActiveSound, g
    <3>5. BindingsFollowIdentity'
        BY <1>1, <2>1, <3>1, <3>2, <3>3, NoneAssumption DEF TypeOK, BindingsFollowIdentity, Identity, TeamsOf
    <3> QED BY <3>4, <3>5
  <2> QED BY <2>2, <2>3
<1> QED BY <1>2, <1>3

\* A team changes its Admin team only while no bound match names it.
LEMMA TeamStep ==
    ASSUME BindingInv, NEW t \in Teams, NEW a \in AdminTeams, confirmKhlTeamBinding(t, a)
    PROVE  BindingInv'
<1> USE DEF BindingInv, confirmKhlTeamBinding
<1>1. TypeOK' /\ ActiveSound'
    BY DEF TypeOK, ActiveSound
<1>2. ASSUME NEW g \in Games, match[g] # None, NEW u \in TeamsOf(g)
      PROVE  team'[u] = AdminMatch[match[g]].teams[u]
  <2>1. team[u] = AdminMatch[match[g]].teams[u] /\ match[g] \in AdminMatches /\ active[g] \in Contents
      BY <1>2 DEF BindingsFollowIdentity, TypeOK
  <2>2. u \in Teams
      BY <1>2, <2>1, ContentsAssumption DEF TeamsOf
  <2>3. team[u] # None
      BY <2>1, <2>2, CandidatesAssumption, NoneAssumption
  <2>4. CASE u = t
    <3>1. g \in DependentMatches(t)
        BY <1>2, <2>4 DEF DependentMatches
    <3>2. team[t] = a
        BY <2>3, <2>4, <3>1
    <3> QED BY <2>1, <2>4, <3>2 DEF TypeOK
  <2>5. CASE u # t
      BY <2>1, <2>2, <2>5 DEF TypeOK
  <2> QED BY <2>4, <2>5
<1>3. BindingsFollowIdentity'
    BY <1>2 DEF BindingsFollowIdentity, TeamsOf, Identity
<1> QED BY <1>1, <1>3

LEMMA MatchStep ==
    ASSUME BindingInv, NEW g \in Games, NEW m \in AdminMatches, confirmKhlMatchBinding(g, m)
    PROVE  BindingInv'
<1> USE DEF BindingInv, confirmKhlMatchBinding
<1>1. TypeOK' /\ ActiveSound'
    BY DEF TypeOK, ActiveSound
<1>2. BindingsFollowIdentity'
    BY DEF BindingsFollowIdentity, TypeOK, Compatible, TeamsOf, Identity
<1> QED BY <1>1, <1>2

\* Ids of participants are confirmed for the match that is bound, and for no other.
LEMMA PlayerStep ==
    ASSUME BindingInv, NEW g \in Games, NEW p \in Players, NEW withMatch \in BOOLEAN,
           confirmKhlPlayerBinding(g, p, withMatch)
    PROVE  BindingInv'
<1> USE DEF BindingInv, confirmKhlPlayerBinding
<1>1. UNCHANGED <<active, match, team, target>>
    OBVIOUS
<1>2. CASE withMatch
  <2>1. participant' = [participant EXCEPT ![g][p] = match[g]]
      BY <1>2
  <2>2. participant' \in Bound
      BY <2>1 DEF TypeOK, Bound
  <2>3. ASSUME NEW h \in Games, NEW q \in Players
        PROVE  participant'[h][q] \in {participant[h][q], match[h]}
      BY <2>1 DEF TypeOK, Bound
  <2>4. BindingsFollowIdentity'
      BY <1>1, <2>3 DEF BindingsFollowIdentity, TeamsOf, Identity
  <2> QED BY <1>1, <2>2, <2>4 DEF TypeOK, ActiveSound
<1>3. CASE ~withMatch
    BY <1>1, <1>3 DEF TypeOK, ActiveSound, BindingsFollowIdentity, TeamsOf, Identity
<1> QED BY <1>2, <1>3

LEMMA TargetsStep ==
    ASSUME BindingInv, NEW g \in Games, confirmKhlResultTargets(g)
    PROVE  BindingInv'
<1> USE DEF BindingInv
<1>1. UNCHANGED <<active, match, team>>
    BY DEF confirmKhlResultTargets
<1>2. /\ participant' = [participant EXCEPT ![g] =
             [p \in Players |-> IF p \in Roster(g) THEN match[g] ELSE @[p]]]
      /\ target' = [target EXCEPT ![g] =
             [p \in Players |-> IF p \in Roster(g) THEN match[g] ELSE @[p]]]
    BY DEF confirmKhlResultTargets
<1>3. participant' \in Bound /\ target' \in Bound
    BY <1>2 DEF TypeOK, Bound
<1>4. ASSUME NEW h \in Games, NEW q \in Players
      PROVE  participant'[h][q] \in {participant[h][q], match[h]} /\ target'[h][q] \in {target[h][q], match[h]}
    BY <1>2 DEF TypeOK, Bound
<1>5. BindingsFollowIdentity'
    BY <1>1, <1>4 DEF BindingsFollowIdentity, TeamsOf, Identity
<1> QED BY <1>1, <1>3, <1>5 DEF TypeOK, ActiveSound

\* Everything else leaves the match-scoped bindings alone.
LEMMA ElsewhereStep ==
    ASSUME BindingInv, UNCHANGED <<active, match, team, participant, target>>
    PROVE  BindingInv'
BY DEF BindingInv, TypeOK, ActiveSound, BindingsFollowIdentity, TeamsOf, Identity

LEMMA BindingStep ==
    ASSUME BindingInv, [Next]_vars
    PROVE  BindingInv'
<1>1. CASE UNCHANGED vars
    BY <1>1, ElsewhereStep DEF vars, bindings
<1>2. CASE Bind
    BY <1>2, TeamStep, MatchStep, PlayerStep, TargetsStep, ElsewhereStep
       DEF Bind, confirmKhlTeamStatBindings, confirmKhlStatTypes
<1>3. ASSUME NEW s \in Stagers, Stage(s) PROVE UNCHANGED <<active, match, team, participant, target>>
    BY <1>3 DEF Stage, buildPreview, stageTransaction, stageConflict, assertReviewedPreviewCurrent, leave, bindings
<1> QED BY <1>1, <1>2, <1>3, IngestStep, ElsewhereStep DEF Next

THEOREM BindingInductive == Spec => []BindingInv
BY BindingInit, BindingStep, PTL DEF Spec

\* Neither a returning content nor a rebound team leaves ids of another match behind.
THEOREM BindingsSound == Spec => []BindingsFollowIdentity
BY BindingInductive, PTL DEF BindingInv

-----------------------------------------------------------------------------
(* Staging. *)

Payloads ==
    [game : Games, content : Contents, match : AdminMatches,
     teams : UNION {[T -> AdminTeams \cup {None}] : T \in SUBSET Teams},
     stats : UNION {[T -> AdminTeams \cup {None}] : T \in SUBSET Teams},
     players : UNION {[R -> SUBSET (AdminMatches \cup {None})] : R \in SUBSET Players}]

StagingTypeOK ==
    /\ revisions \in [Games -> Seq(Contents)]
    /\ teamStats \in [Teams -> AdminTeams \cup {None}]
    /\ stager \in [Stagers -> [step : {"idle", "staging", "winner", "staged"},
                               payload : Payloads \cup {None}, attempt : Nat]]
    /\ deliveries \in Seq(Payloads)

\* A content is stored once, with its game; the active one is stored.
RevisionsSound ==
    \A g \in Games :
        /\ \A i, j \in DOMAIN revisions[g] : revisions[g][i] = revisions[g][j] => i = j
        /\ \A i \in DOMAIN revisions[g] : Content[revisions[g][i]].game = g
        /\ active[g] # None => \E i \in DOMAIN revisions[g] : revisions[g][i] = active[g]

\* What PayloadsConsistent says of each delivery is true of a payload once and for all.
Consistent(p) ==
    /\ Content[p.content].game = p.game
    /\ Content[p.content].valid
    /\ Identity(p.content) \in AdminMatch[p.match].fits
    /\ p.teams = [t \in Content[p.content].teams |-> AdminMatch[p.match].teams[t]]
    /\ p.players = [x \in Content[p.content].roster |-> {p.match}]

StagersSound ==
    \A s \in Stagers :
        /\ stager[s].step \in {"staging", "winner"} => Reviewed(s) \in Payloads /\ Consistent(Reviewed(s))
        /\ stager[s].step = "winner" => \E i \in DOMAIN deliveries : deliveries[i] = Reviewed(s)

Numbered(p, n) == n \in DOMAIN revisions[p.game] /\ revisions[p.game][n] = p.content

DeliveriesSound ==
    \A i \in DOMAIN deliveries : Consistent(deliveries[i]) /\ \E n \in Nat : Numbered(deliveries[i], n)

DeliveriesInOrder ==
    \A i, j \in DOMAIN deliveries : i < j /\ deliveries[i].game = deliveries[j].game =>
        \A n, m \in Nat : Numbered(deliveries[i], n) /\ Numbered(deliveries[j], m) => n <= m

StagingInv == StagingTypeOK /\ RevisionsSound /\ StagersSound /\ DeliveriesSound /\ DeliveriesInOrder

-----------------------------------------------------------------------------

LEMMA StagingInit == Init => StagingInv
BY DEF Init, StagingInv, StagingTypeOK, RevisionsSound, StagersSound, DeliveriesSound, DeliveriesInOrder, IdleStager

\* A stored content keeps its number when another is stored, and a new one comes last.
LEMMA IngestKeepsNumbers ==
    ASSUME BindingInv, StagingInv, NEW c \in Contents, ingestTransaction(c)
    PROVE  StagingInv'
<1> USE DEF StagingInv
<1> DEFINE g == Content[c].game
<1>1. /\ g \in Games /\ revisions[g] \in Seq(Contents)
      /\ UNCHANGED <<teamStats, stager, deliveries>>
    BY ContentsAssumption DEF StagingTypeOK, ingestTransaction
<1>2. /\ active' = active \/ active' = [active EXCEPT ![g] = c]
      /\ active \in [Games -> Contents \cup {None}]
    BY DEF ingestTransaction, BindingInv, TypeOK
<1>3. \/ revisions' = revisions /\ \E i \in DOMAIN revisions[g] : revisions[g][i] = c
      \/ /\ revisions' = [revisions EXCEPT ![g] = Append(revisions[g], c)]
         /\ \A i \in DOMAIN revisions[g] : revisions[g][i] # c
    BY DEF ingestTransaction, ToSet
<1> HIDE DEF g
<1>4. StagingTypeOK'
  <2>1. Append(revisions[g], c) \in Seq(Contents)
      BY <1>1
  <2>2. revisions' \in [Games -> Seq(Contents)]
      BY <1>1, <1>3, <2>1 DEF StagingTypeOK
  <2> QED BY <1>1, <2>2 DEF StagingTypeOK
<1>5. ASSUME NEW h \in Games
      PROVE  /\ revisions[h] \in Seq(Contents) /\ revisions'[h] \in Seq(Contents)
             /\ \A n \in DOMAIN revisions[h] : n \in DOMAIN revisions'[h] /\ revisions'[h][n] = revisions[h][n]
             /\ \A n \in DOMAIN revisions'[h] :
                   \/ n \in DOMAIN revisions[h]
                   \/ /\ h = g /\ n = Len(revisions[h]) + 1 /\ revisions'[h][n] = c
                      /\ \A i \in DOMAIN revisions[h] : revisions[h][i] # c
  <2>1. revisions[h] \in Seq(Contents) /\ revisions'[h] \in Seq(Contents)
      BY <1>4 DEF StagingTypeOK
  <2>2. CASE revisions'[h] = revisions[h]
      BY <2>1, <2>2
  <2>3. CASE h = g /\ revisions'[h] = Append(revisions[h], c) /\ \A i \in DOMAIN revisions[g] : revisions[g][i] # c
      BY <2>1, <2>3
  <2> QED BY <1>1, <1>3, <2>2, <2>3 DEF StagingTypeOK
<1>6. RevisionsSound'
  <2> SUFFICES ASSUME NEW h \in Games
               PROVE  /\ \A i, j \in DOMAIN revisions'[h] : revisions'[h][i] = revisions'[h][j] => i = j
                      /\ \A i \in DOMAIN revisions'[h] : Content[revisions'[h][i]].game = h
                      /\ active'[h] # None => \E i \in DOMAIN revisions'[h] : revisions'[h][i] = active'[h]
      BY DEF RevisionsSound
  <2>1. \A i, j \in DOMAIN revisions'[h] : revisions'[h][i] = revisions'[h][j] => i = j
      BY <1>5 DEF RevisionsSound
  <2>2. \A i \in DOMAIN revisions'[h] : Content[revisions'[h][i]].game = h
      BY <1>5 DEF RevisionsSound, g
  <2>3. CASE active'[h] = active[h]
    <3>1. ASSUME active[h] # None PROVE \E i \in DOMAIN revisions'[h] : revisions'[h][i] = active[h]
      <4>1. PICK i \in DOMAIN revisions[h] : revisions[h][i] = active[h]
          BY <3>1 DEF RevisionsSound
      <4> QED BY <1>5, <4>1
    <3> QED BY <2>1, <2>2, <2>3, <3>1
  <2>4. CASE h = g /\ active'[h] = c
    <3>1. \E i \in DOMAIN revisions'[g] : revisions'[g][i] = c
      <4>1. CASE revisions' = revisions /\ \E i \in DOMAIN revisions[g] : revisions[g][i] = c
          BY <4>1
      <4>2. CASE revisions'[g] = Append(revisions[g], c)
        <5>1. Len(revisions[g]) + 1 \in DOMAIN revisions'[g] /\ revisions'[g][Len(revisions[g]) + 1] = c
            BY <1>1, <4>2
        <5> QED BY <5>1
      <4> QED BY <1>1, <1>3, <4>1, <4>2 DEF StagingTypeOK
    <3> QED BY <2>1, <2>2, <2>4, <3>1
  <2> QED BY <1>1, <1>2, <2>1, <2>2, <2>3, <2>4
<1>7. \A p \in Payloads, n \in Nat :
         (\E m \in Nat : Numbered(p, m)) => (Numbered(p, n)' <=> Numbered(p, n))
  <2> SUFFICES ASSUME NEW p \in Payloads, NEW n \in Nat, NEW m \in Nat, Numbered(p, m)
               PROVE  Numbered(p, n)' <=> Numbered(p, n)
      OBVIOUS
  <2>1. p.game \in Games
      BY DEF Payloads
  <2> QED BY <1>5, <2>1 DEF Numbered
<1>8. \A i \in DOMAIN deliveries : deliveries[i] \in Payloads
    BY DEF StagingTypeOK
<1>9. DeliveriesSound' /\ DeliveriesInOrder'
  <2>1. DeliveriesSound'
      BY <1>1, <1>7, <1>8 DEF DeliveriesSound, Consistent, Identity
  <2>2. DeliveriesInOrder'
      BY <1>1, <1>7, <1>8 DEF DeliveriesSound, DeliveriesInOrder
  <2> QED BY <2>1, <2>2
<1>10. StagersSound'
    BY <1>1 DEF StagersSound, Consistent, Identity, Reviewed
<1> QED BY <1>4, <1>6, <1>9, <1>10

LEMMA BindKeepsStaging ==
    ASSUME BindingInv, StagingInv, Bind \/ UNCHANGED vars
    PROVE  StagingInv'
<1> USE DEF StagingInv
<1>1. UNCHANGED <<revisions, active, stager, deliveries>>
    BY DEF Bind, confirmKhlTeamBinding, confirmKhlMatchBinding, confirmKhlPlayerBinding, confirmKhlStatTypes,
           confirmKhlTeamStatBindings, confirmKhlResultTargets, vars
<1>2. teamStats' \in [Teams -> AdminTeams \cup {None}]
  <2>1. \A T \in SUBSET Teams : WithTeamStats(T) \in [Teams -> AdminTeams \cup {None}]
      BY DEF WithTeamStats, StagingTypeOK, BindingInv, TypeOK
  <2>2. teamStats' = teamStats \/ \E T : teamStats' = WithTeamStats(T)
      BY DEF Bind, confirmKhlTeamBinding, confirmKhlMatchBinding, confirmKhlPlayerBinding, confirmKhlStatTypes,
             confirmKhlTeamStatBindings, confirmKhlResultTargets, vars, bindings
  <2>3. \A T : WithTeamStats(T) \in [Teams -> AdminTeams \cup {None}]
      BY DEF WithTeamStats, StagingTypeOK, BindingInv, TypeOK
  <2> QED BY <2>2, <2>3 DEF StagingTypeOK
<1>3. StagingTypeOK'
    BY <1>1, <1>2 DEF StagingTypeOK
<1>4. RevisionsSound'
    BY <1>1 DEF RevisionsSound
<1>5. \A p : Consistent(p)' <=> Consistent(p)
    BY DEF Consistent, Identity
<1>6. StagersSound'
    BY <1>1, <1>5 DEF StagersSound, Reviewed
<1>7. \A p, n : Numbered(p, n)' <=> Numbered(p, n)
    BY <1>1 DEF Numbered
<1>8. DeliveriesSound'
    BY <1>1, <1>5, <1>7 DEF DeliveriesSound
<1>9. DeliveriesInOrder'
    BY <1>1, <1>7 DEF DeliveriesInOrder
<1> QED BY <1>3, <1>4, <1>6, <1>8, <1>9

\* A payload that is ready is one match's.
LEMMA PayloadConsistent ==
    ASSUME BindingInv, StagingInv, NEW g \in Games, Ready(g)
    PROVE  Payload(g) \in Payloads /\ Consistent(Payload(g))
<1> USE DEF BindingInv, TypeOK, Bound
<1>1. /\ active[g] \in Contents /\ match[g] \in AdminMatches
      /\ Content[active[g]].game = g /\ Content[active[g]].valid
      /\ TeamsOf(g) \subseteq Teams /\ Roster(g) \subseteq Players
    BY ContentsAssumption DEF Ready, LatestIsActive, ActiveSound, TeamsOf, Roster
<1>2. [t \in TeamsOf(g) |-> team[t]] = [t \in Content[active[g]].teams |-> AdminMatch[match[g]].teams[t]]
  <2>1. ASSUME NEW t \in TeamsOf(g) PROVE team[t] = AdminMatch[match[g]].teams[t]
      BY <1>1, NoneAssumption DEF BindingsFollowIdentity
  <2>2. TeamsOf(g) = Content[active[g]].teams
      BY DEF TeamsOf
  <2> QED BY <2>1, <2>2
<1>3. ASSUME NEW p \in Roster(g) PROVE {participant[g][p], target[g][p]} = {match[g]}
  <2>1. participant[g][p] # None /\ target[g][p] # None /\ p \in Players
      BY <1>1 DEF Ready
  <2>2. {participant[g][p], target[g][p]} \subseteq {None, match[g]}
      BY <2>1 DEF BindingsFollowIdentity
  <2> QED BY <2>1, <2>2
<1>4. [p \in Roster(g) |-> {participant[g][p], target[g][p]}] = [x \in Content[active[g]].roster |-> {match[g]}]
    BY <1>3 DEF Roster
<1>5. Consistent(Payload(g))
  <2>1. Identity(active[g]) \in AdminMatch[match[g]].fits
      BY <1>1, NoneAssumption DEF BindingsFollowIdentity
  <2> HIDE DEF BindingInv, TypeOK, Bound
  <2>2. /\ Payload(g).game = g /\ Payload(g).content = active[g] /\ Payload(g).match = match[g]
        /\ Payload(g).teams = [t \in TeamsOf(g) |-> team[t]]
        /\ Payload(g).players = [p \in Roster(g) |-> {participant[g][p], target[g][p]}]
      BY DEF Payload
  <2> QED BY <1>1, <1>2, <1>4, <2>1, <2>2 DEF Consistent
<1>6. Payload(g) \in Payloads
  <2>1. [t \in TeamsOf(g) |-> team[t]] \in [TeamsOf(g) -> AdminTeams \cup {None}]
      BY <1>1
  <2>2. [t \in TeamsOf(g) |-> teamStats[t]] \in [TeamsOf(g) -> AdminTeams \cup {None}]
      BY <1>1 DEF StagingInv, StagingTypeOK
  <2>3. [p \in Roster(g) |-> {participant[g][p], target[g][p]}] \in [Roster(g) -> SUBSET (AdminMatches \cup {None})]
      BY <1>1
  <2> HIDE DEF BindingInv, TypeOK, Bound
  <2> QED BY <1>1, <2>1, <2>2, <2>3 DEF Payload, Payloads
<1> QED BY <1>5, <1>6

\* A request moves on and changes nothing else.
LEMMA RequestStep ==
    ASSUME StagingInv, NEW s \in Stagers, UNCHANGED <<revisions, active, teamStats, deliveries>>,
           NEW row \in [step : {"idle", "staging", "winner", "staged"}, payload : Payloads \cup {None}, attempt : Nat],
           stager' = [stager EXCEPT ![s] = row],
           row.step \in {"staging", "winner"} => row.payload \in Payloads /\ Consistent(row.payload),
           row.step = "winner" => \E i \in DOMAIN deliveries : deliveries[i] = row.payload
    PROVE  StagingInv'
<1> USE DEF StagingInv
<1>1. StagingTypeOK'
    BY DEF StagingTypeOK
<1>2. StagersSound'
  <2> SUFFICES ASSUME NEW q \in Stagers
               PROVE  /\ stager'[q].step \in {"staging", "winner"}
                            => Reviewed(q)' \in Payloads /\ Consistent(Reviewed(q)')
                      /\ stager'[q].step = "winner" => \E i \in DOMAIN deliveries : deliveries[i] = Reviewed(q)'
      BY DEF StagersSound, Consistent, Identity
  <2>1. CASE q = s
      BY <2>1 DEF StagingTypeOK, Reviewed
  <2>2. CASE q # s
      BY <2>2 DEF StagingTypeOK, StagersSound, Reviewed
  <2> QED BY <2>1, <2>2
<1>3. RevisionsSound' /\ DeliveriesSound' /\ DeliveriesInOrder'
    BY DEF RevisionsSound, DeliveriesSound, DeliveriesInOrder, Numbered, Consistent, Identity
<1> QED BY <1>1, <1>2, <1>3

\* What is staged carries the newest content, so nothing staged before it is newer.
LEMMA StagedStep ==
    ASSUME BindingInv, StagingInv, NEW s \in Stagers, stageTransaction(s)
    PROVE  StagingInv'
<1> USE DEF StagingInv, stageTransaction
<1> DEFINE p == Reviewed(s)
<1>1. /\ UNCHANGED <<revisions, active, teamStats>> /\ IdleStager.step = "idle" /\ IdleStager.payload = None
      /\ p \in Payloads /\ Consistent(p) /\ stager[s].step = "staging"
      /\ deliveries \in Seq(Payloads)
    BY DEF bindings, StagersSound, StagingTypeOK, IdleStager
<1> DEFINE row(step) == [IdleStager EXCEPT !.step = step]
<1>2. /\ row("staged") \in [step : {"idle", "staging", "winner", "staged"}, payload : Payloads \cup {None}, attempt : Nat]
      /\ IdleStager \in [step : {"idle", "staging", "winner", "staged"}, payload : Payloads \cup {None}, attempt : Nat]
      /\ row("staged").step = "staged"
    BY DEF IdleStager
<1>3. CASE UNCHANGED deliveries
  <2>1. stager' = [stager EXCEPT ![s] = row("staged")] \/ stager' = [stager EXCEPT ![s] = IdleStager]
      BY DEF Answer, Refuse
  <2> HIDE DEF row
  <2> QED BY <1>1, <1>2, <1>3, <2>1, RequestStep
<1>4. CASE deliveries' # deliveries
  <2>1. /\ StillActive(p) /\ deliveries' = Append(deliveries, p)
        /\ stager' = [stager EXCEPT ![s] = row("staged")]
      BY <1>4 DEF Answer
  <2> HIDE DEF p, row
  <2>2. StagingTypeOK'
      BY <1>1, <1>2, <2>1 DEF StagingTypeOK
  <2>3. RevisionsSound'
      BY <1>1 DEF RevisionsSound
  <2>4. /\ DOMAIN deliveries' = DOMAIN deliveries \cup {Len(deliveries) + 1} /\ deliveries'[Len(deliveries) + 1] = p
        /\ \A i \in DOMAIN deliveries : deliveries'[i] = deliveries[i] /\ i < Len(deliveries) + 1
        /\ DOMAIN deliveries \subseteq Nat /\ Len(deliveries) + 1 \in Nat
      BY <1>1, <2>1
  <2>5. StagersSound'
    <3> SUFFICES ASSUME NEW q \in Stagers
                 PROVE  /\ stager'[q].step \in {"staging", "winner"}
                              => Reviewed(q)' \in Payloads /\ Consistent(Reviewed(q)')
                        /\ stager'[q].step = "winner" => \E i \in DOMAIN deliveries' : deliveries'[i] = Reviewed(q)'
        BY <1>1 DEF StagersSound, Consistent, Identity
    <3>1. CASE q = s
        BY <1>2, <2>1, <3>1 DEF StagingTypeOK
    <3>2. CASE q # s
        BY <2>1, <2>4, <3>2 DEF StagingTypeOK, StagersSound, Reviewed
    <3> QED BY <3>1, <3>2
  <2>6. p.game \in Games /\ revisions[p.game] \in Seq(Contents) /\ active[p.game] # None
    <3>1. p.game \in Games /\ p.content \in Contents
        BY <1>1 DEF Payloads
    <3> QED BY <2>1, <3>1, NoneAssumption DEF StagingTypeOK, StillActive
  <2>7. Len(revisions[p.game]) \in DOMAIN revisions[p.game] /\ revisions[p.game][Len(revisions[p.game])] = p.content
    <3>1. \E i \in DOMAIN revisions[p.game] : revisions[p.game][i] = active[p.game]
        BY <2>6 DEF RevisionsSound
    <3>2. DOMAIN revisions[p.game] = 1..Len(revisions[p.game]) /\ Len(revisions[p.game]) \in Nat
        BY <2>6
    <3> QED BY <2>1, <3>1, <3>2 DEF StillActive, LatestIsActive, Last
  <2>8. ASSUME NEW n, Numbered(p, n) PROVE n <= Len(revisions[p.game])
      BY <2>6, <2>8 DEF Numbered
  <2>9. Numbered(p, Len(revisions[p.game])) /\ Len(revisions[p.game]) \in Nat
      BY <2>6, <2>7 DEF Numbered
  <2>10. DeliveriesSound'
    <3>1. ASSUME NEW i \in DOMAIN deliveries PROVE Consistent(deliveries[i]) /\ \E n \in Nat : Numbered(deliveries[i], n)
        BY DEF DeliveriesSound
    <3>2. \A i \in DOMAIN deliveries' : Consistent(deliveries'[i]) /\ \E n \in Nat : Numbered(deliveries'[i], n)
        BY <1>1, <2>4, <2>9, <3>1
    <3> QED BY <1>1, <3>2 DEF DeliveriesSound, Numbered, Consistent, Identity
  <2>11. \A q, n : Numbered(q, n)' <=> Numbered(q, n)
      BY <1>1 DEF Numbered
  <2>12. ASSUME NEW m \in Nat, Numbered(p, m) PROVE m = Len(revisions[p.game])
      BY <2>6, <2>9, <2>12 DEF RevisionsSound, Numbered
  <2>13. DeliveriesInOrder'
    <3> SUFFICES ASSUME NEW i \in DOMAIN deliveries', NEW j \in DOMAIN deliveries', i < j,
                        deliveries'[i].game = deliveries'[j].game, NEW n \in Nat, NEW m \in Nat,
                        Numbered(deliveries'[i], n), Numbered(deliveries'[j], m)
                 PROVE  n <= m
        BY <2>11 DEF DeliveriesInOrder
    <3>1. i \in DOMAIN deliveries
        BY <2>4
    <3>2. CASE j \in DOMAIN deliveries
        BY <2>4, <3>1, <3>2 DEF DeliveriesInOrder
    <3>3. CASE j = Len(deliveries) + 1
      <4>1. deliveries'[j] = p /\ deliveries'[i].game = p.game
          BY <2>4, <3>3
      <4>2. n \in DOMAIN revisions[p.game] /\ m = Len(revisions[p.game])
          BY <2>12, <4>1 DEF Numbered
      <4> QED BY <2>6, <4>2
    <3> QED BY <2>4, <3>2, <3>3
  <2> QED BY <2>2, <2>3, <2>5, <2>10, <2>13
<1> QED BY <1>3, <1>4

LEMMA StageStep ==
    ASSUME BindingInv, StagingInv, NEW s \in Stagers, Stage(s)
    PROVE  StagingInv'
<1> DEFINE Rows == [step : {"idle", "staging", "winner", "staged"}, payload : Payloads \cup {None}, attempt : Nat]
<1>1. /\ stager[s] \in Rows
      /\ stager[s].step \in {"staging", "winner"} => Reviewed(s) \in Payloads /\ Consistent(Reviewed(s))
    BY DEF StagingInv, StagingTypeOK, StagersSound
<1>2. ASSUME NEW g \in Games, buildPreview(s, g) PROVE StagingInv'
  <2> DEFINE row == [step |-> "staging", payload |-> Payload(g), attempt |-> 1]
  <2>1. Payload(g) \in Payloads /\ Consistent(Payload(g))
      BY <1>2, PayloadConsistent DEF buildPreview
  <2>2. row \in Rows /\ row.step = "staging" /\ row.payload = Payload(g)
      BY <2>1
  <2>3. stager' = [stager EXCEPT ![s] = row] /\ UNCHANGED <<revisions, active, teamStats, deliveries>>
      BY <1>2 DEF buildPreview, bindings
  <2> HIDE DEF row
  <2> QED BY <2>1, <2>2, <2>3, RequestStep
<1>3. CASE stageConflict(s)
  <2> DEFINE winner == [stager[s] EXCEPT !.step = "winner", !.attempt = 0]
             again == [stager[s] EXCEPT !.attempt = @ + 1]
  <2>1. /\ winner \in Rows /\ winner.step = "winner" /\ winner.payload = Reviewed(s)
        /\ again \in Rows /\ again.step = stager[s].step /\ again.payload = Reviewed(s)
        /\ IdleStager \in Rows /\ IdleStager.step = "idle"
    <3>1. stager[s].payload = Reviewed(s) /\ stager[s].attempt \in Nat
        BY <1>1 DEF Reviewed
    <3>2. winner \in Rows /\ winner.step = "winner" /\ winner.payload = stager[s].payload
        BY <1>1
    <3>3. again \in Rows /\ again.step = stager[s].step /\ again.payload = stager[s].payload
        BY <1>1, <3>1
    <3>4. IdleStager \in Rows /\ IdleStager.step = "idle"
        BY DEF IdleStager
    <3> QED BY <3>1, <3>2, <3>3, <3>4
  <2>2. UNCHANGED <<revisions, active, teamStats, deliveries>> /\ stager[s].step = "staging"
      BY <1>3 DEF stageConflict, bindings
  <2>3. \/ /\ stager' = [stager EXCEPT ![s] = winner]
           /\ \E i \in DOMAIN deliveries : deliveries[i] = Reviewed(s)
        \/ stager' = [stager EXCEPT ![s] = IdleStager]
        \/ stager' = [stager EXCEPT ![s] = again]
      BY <1>1, <1>3 DEF stageConflict, Refuse, ToSet, StagingInv, StagingTypeOK
  <2> HIDE DEF winner, again, Rows
  <2>4. CASE stager' = [stager EXCEPT ![s] = winner] /\ \E i \in DOMAIN deliveries : deliveries[i] = Reviewed(s)
      BY <1>1, <2>1, <2>2, <2>4, RequestStep DEF Rows
  <2>5. CASE stager' = [stager EXCEPT ![s] = IdleStager]
      BY <2>1, <2>2, <2>5, RequestStep DEF Rows
  <2>6. CASE stager' = [stager EXCEPT ![s] = again]
      BY <1>1, <2>1, <2>2, <2>6, RequestStep DEF Rows
  <2> QED BY <2>3, <2>4, <2>5, <2>6
<1>4. CASE assertReviewedPreviewCurrent(s) \/ leave(s)
  <2> DEFINE staged == [IdleStager EXCEPT !.step = "staged"]
  <2>1. /\ staged \in Rows /\ staged.step = "staged"
        /\ IdleStager \in Rows /\ IdleStager.step = "idle"
      BY DEF IdleStager
  <2>2. stager' = [stager EXCEPT ![s] = staged] \/ stager' = [stager EXCEPT ![s] = IdleStager]
      BY <1>4 DEF assertReviewedPreviewCurrent, leave, Answer, Refuse
  <2>3. UNCHANGED <<revisions, active, teamStats, deliveries>>
      BY <1>4 DEF assertReviewedPreviewCurrent, leave, bindings
  <2> HIDE DEF staged
  <2> QED BY <2>1, <2>2, <2>3, RequestStep
<1> QED BY <1>2, <1>3, <1>4, StagedStep DEF Stage

\* The invariant of bindings, revisions and deliveries together.
THEOREM DeliveryInductive == Spec => [](BindingInv /\ StagingInv)
<1>1. BindingInv /\ StagingInv /\ [Next]_vars => StagingInv'
    BY IngestKeepsNumbers, BindKeepsStaging, StageStep DEF Next
<1> QED BY <1>1, BindingInit, StagingInit, BindingStep, PTL DEF Spec

\* Every staged payload is one Admin match's, complete and valid.
THEOREM PayloadsSound == Spec => []PayloadsConsistent
<1>1. StagingInv => PayloadsConsistent
    BY DEF StagingInv, DeliveriesSound, Consistent, PayloadsConsistent
<1> QED BY <1>1, DeliveryInductive, PTL

\* No delivery of a game carries an older revision than one staged before it.
THEOREM DeliveriesNeverGoBack == Spec => []DeliveriesAdvance
<1>1. StagingInv => DeliveriesAdvance
  <2> SUFFICES ASSUME StagingInv, NEW i \in DOMAIN deliveries, NEW j \in DOMAIN deliveries, i < j,
                      deliveries[i].game = deliveries[j].game
               PROVE  RevisionNumber(deliveries[i].content) <= RevisionNumber(deliveries[j].content)
      BY DEF DeliveriesAdvance
  <2>1. ASSUME NEW k \in DOMAIN deliveries
        PROVE  /\ RevisionNumber(deliveries[k].content) \in Nat
               /\ Numbered(deliveries[k], RevisionNumber(deliveries[k].content))
    <3>1. Content[deliveries[k].content].game = deliveries[k].game /\ \E n \in Nat : Numbered(deliveries[k], n)
        BY DEF StagingInv, DeliveriesSound, Consistent
    <3>2. revisions[deliveries[k].game] \in Seq(Contents)
      <4>1. deliveries[k] \in Payloads
          BY DEF StagingInv, StagingTypeOK
      <4> QED BY <4>1 DEF StagingInv, StagingTypeOK, Payloads
    <3> QED BY <3>1, <3>2 DEF RevisionNumber, Numbered
  <2> QED BY <2>1 DEF StagingInv, DeliveriesInOrder
<1> QED BY <1>1, DeliveryInductive, PTL

\* A request is told that a delivery is staged only while what its operator reviewed is current.
THEOREM AnswersCurrent == Spec => AnswersAreCurrent
<1> DEFINE IsCurrent(s) ==
        stager'[s].step = "staged" /\ stager[s].step # "staged" =>
            /\ active[Reviewed(s).game] = Reviewed(s).content /\ match[Reviewed(s).game] = Reviewed(s).match
            /\ Reviewed(s).content = Last(revisions[Reviewed(s).game])
            /\ Reviewed(s) \in ToSet(deliveries')
<1>1. BindingInv /\ StagingInv /\ [Next]_vars => [\A s \in Stagers : IsCurrent(s)]_vars
  <2> SUFFICES ASSUME BindingInv, StagingInv, Next, NEW s \in Stagers,
                      stager'[s].step = "staged", stager[s].step # "staged"
               PROVE  IsCurrent(s)
      OBVIOUS
  <2>1. ~Bind /\ ~\E c \in Contents : ingestTransaction(c)
      BY DEF Bind, confirmKhlTeamBinding, confirmKhlMatchBinding, confirmKhlPlayerBinding, confirmKhlStatTypes,
             confirmKhlTeamStatBindings, confirmKhlResultTargets, ingestTransaction
  <2>2. PICK q \in Stagers : Stage(q)
      BY <2>1 DEF Next
  <2>3. q = s /\ stager \in [Stagers -> [step : {"idle", "staging", "winner", "staged"}, payload : Payloads \cup {None}, attempt : Nat]]
      BY <2>2 DEF Stage, buildPreview, stageTransaction, stageConflict, assertReviewedPreviewCurrent, leave, Answer,
                  Refuse, StagingInv, StagingTypeOK
  <2>4. stageTransaction(s) \/ assertReviewedPreviewCurrent(s)
    <3>1. ~(\E g \in Games : buildPreview(s, g)) /\ ~leave(s)
        BY <2>3 DEF buildPreview, leave, Refuse, IdleStager
    <3>2. ~stageConflict(s)
        BY <2>3 DEF stageConflict, Refuse, IdleStager
    <3> QED BY <2>2, <2>3, <3>1, <3>2 DEF Stage
  <2>5. CASE stageTransaction(s)
    <3>1. StillActive(Reviewed(s))
        BY <2>3, <2>5 DEF stageTransaction, Refuse, IdleStager
    <3>2. Reviewed(s) \in ToSet(deliveries')
      <4>1. Reviewed(s) \in Payloads /\ deliveries \in Seq(Payloads)
          BY <2>5 DEF stageTransaction, StagingInv, StagingTypeOK, StagersSound
      <4>2. CASE Reviewed(s) \in ToSet(deliveries)
          BY <2>5, <3>1, <4>2 DEF stageTransaction
      <4>3. CASE Reviewed(s) \notin ToSet(deliveries)
        <5>1. deliveries' = Append(deliveries, Reviewed(s))
            BY <2>5, <3>1, <4>3 DEF stageTransaction
        <5>2. Len(deliveries) + 1 \in DOMAIN deliveries' /\ deliveries'[Len(deliveries) + 1] = Reviewed(s)
            BY <4>1, <5>1
        <5> QED BY <5>2 DEF ToSet
      <4> QED BY <4>2, <4>3
    <3> QED BY <3>1, <3>2 DEF StillActive, LatestIsActive
  <2>6. CASE assertReviewedPreviewCurrent(s)
    <3>1. Current(s) /\ deliveries' = deliveries
        BY <2>3, <2>6 DEF assertReviewedPreviewCurrent, Refuse, IdleStager
    <3>2. Reviewed(s) \in ToSet(deliveries)
        BY <2>6 DEF assertReviewedPreviewCurrent, StagingInv, StagersSound, ToSet
    <3>3. LatestIsActive(Reviewed(s).game)
        BY <3>1 DEF Current, Ready
    <3>4. Reviewed(s).content = active[Reviewed(s).game] /\ Reviewed(s).match = match[Reviewed(s).game]
        BY <3>1 DEF Current, Payload
    <3> QED BY <3>1, <3>2, <3>3, <3>4 DEF LatestIsActive
  <2> QED BY <2>4, <2>5, <2>6
<1> QED BY <1>1, DeliveryInductive, PTL DEF Spec, AnswersAreCurrent, Reviewed
=============================================================================
