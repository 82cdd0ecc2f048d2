--------------------------- MODULE MCMatchCentre ---------------------------
(* Small instances of MatchCentre, FplPayloads and FplStatus. *)
EXTENDS MatchCentre, FplPayloads, FplStatus, TLC

CONSTANTS f, g, a, b

TwoFixtures == {f, g}
TwoPlayers  == {a, b}
InTheTeams  == {<<f, a>>, <<f, b>>, <<g, a>>}
Starters    == {<<f, a>>, <<g, a>>}
TwoWeeks    == 1..2

Pick(multiplier, captain, position) ==
  [multiplier |-> multiplier, captain |-> captain, position |-> position]

\* Home fields a with the armband and benches b; away fields both, b with it.
HomeSquad == (a :> Pick(2, TRUE, 1)) @@ (b :> Pick(0, FALSE, 12))
AwaySquad == (a :> Pick(1, FALSE, 1)) @@ (b :> Pick(2, TRUE, 2))

\* Bounds the run: fixture g stays in the first Gameweek, and points move in f
\* alone, b's only with the bonus.
FewEvents ==
  /\ fpl[g].week = 1 /\ points[<<g, a>>] = 0
  /\ fpl[f].stage # "over" => points[<<f, b>>] = 0

\* What the program makes of FPL's answers is what its callers rely on, over every
\* small answer.  None of it depends on a state: it is asked at the deadlines.
AnswersAreRead ==
  [][DeadlinePasses =>
       /\ ReadsAreRetried /\ ArmbandIsTheSquads /\ PointsAreAccountedFor
       /\ DrawIsWhole /\ ChipsAreKept /\ StatusAgrees]_matchVars

BoundedInit  == MatchInit /\ FewEvents
BoundedMatch == /\ BoundedInit
                /\ [][MatchNext /\ FewEvents']_matchVars
                /\ SourcesAnswer
=============================================================================
