---------------------------- MODULE KhlDeliveryMC ----------------------------
(* An instance of KhlDelivery for TLC: a game whose roster is cut and whose *)
(* time is moved, and may be moved back, and a second game of one of its    *)
(* teams.  The other team behaves like this one and is left out.           *)
EXTENDS KhlDelivery, TLC

CONSTANTS g1, g2, home, p1, first, cut, moved, broken, other, H1, H2, M1, M2

Row(g, valid, identity, teams, roster) ==
    [game |-> g, valid |-> valid, identity |-> identity, teams |-> teams, roster |-> roster]

GameContents ==
    first :> Row(g1, TRUE, "early", {home}, {p1})
    @@ cut :> Row(g1, TRUE, "early", {home}, {})
    @@ moved :> Row(g1, TRUE, "late", {home}, {p1})
    @@ broken :> Row(g1, FALSE, "late", {home}, {p1})
    @@ other :> Row(g2, TRUE, "other", {home}, {p1})

\* The first Admin match is within the tolerance of both times, the second of the later only.
Candidates ==
    M1 :> [fits |-> {"early", "late"}, teams |-> [t \in Teams |-> H1]]
    @@ M2 :> [fits |-> {"late", "other"}, teams |-> [t \in Teams |-> H2]]

\* The operators are interchangeable.
Interchangeable == Permutations(Stagers)
=============================================================================
