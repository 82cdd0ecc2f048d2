---------------------------- MODULE LeaguePages ----------------------------
(***************************************************************************)
(* What the league reads while GameweekPipeline writes: the H2H table      *)
(* (services/h2h.py), the head of a match's page (services/matchup.py) and *)
(* the state of the Gameweek the site greets with (services/fpl.py).  Each *)
(* is computed from the tables on request and keeps nothing, so each is an *)
(* operator on the state.                                                  *)
(***************************************************************************)
EXTENDS GameweekPipeline, FiniteSetsExt

Played(g, f) == matches[g][f]

Fixture == {x \in Gameweeks \X (Managers \X Managers) : x[2] \in Schedule[x[1]]}

-----------------------------------------------------------------------------
(* The H2H table. *)

\* Only what is locked counts: live and provisional results may still turn.
Completed(match) == match.status \in {"final", "walkover"}

Games(m) == {x \in Fixture : m \in {x[2][1], x[2][2]} /\ Completed(Played(x[1], x[2]))}

\* A slip: games against somebody who has been removed since are left out.
WinsOverActive(m) ==
  {x \in Games(m) : Played(x[1], x[2]).winner = m /\ {x[2][1], x[2][2]} \cap forfeits = {}}

Wins(m)  == {x \in Games(m) : Played(x[1], x[2]).winner = m}
Draws(m) == {x \in Games(m) : Played(x[1], x[2]).winner = NoRow}

MatchPoints(m) == 3 * Cardinality(Wins(m)) + Cardinality(Draws(m))

\* What a match brought its managers: each his own side's score.
Ours(m, x)   == IF m = x[2][1] THEN Played(x[1], x[2]).home ELSE Played(x[1], x[2]).away
Theirs(m, x) == IF m = x[2][1] THEN Played(x[1], x[2]).away ELSE Played(x[1], x[2]).home

\* A slip: the home score, whichever side was his.
HomePoints(m) == SumFunctionOnSet([x \in Games(m) |-> Played(x[1], x[2]).home], Games(m))

PointsFor(m)     == SumFunctionOnSet([x \in Games(m) |-> Ours(m, x)], Games(m))
PointsAgainst(m) == SumFunctionOnSet([x \in Games(m) |-> Theirs(m, x)], Games(m))

\* Whoever is out of H2H has passed the first threshold too (Discipline).
Penalty(m) == IF m \in forfeits THEN -6 ELSE 0

TablePoints(m) == MatchPoints(m) + Penalty(m)

-----------------------------------------------------------------------------
(* The head of a match's page. *)

Beside(g, f) == {scores[g][m].status : m \in {n \in {f[1], f[2]} : scores[g][n] # NoRow}}

LeastSettled(states) ==
  IF states = {} THEN NoRow
  ELSE IF "live" \in states THEN "live"
  ELSE IF "provisional" \in states THEN "provisional" ELSE "final"

\* A slip: the score of the moment, whatever the match was settled with.
ScoreNow(recorded, row) == IF row = NoRow THEN recorded ELSE row.net

\* A match that has been settled keeps the score it was settled with.
ShownScore(recorded, row) ==
  IF recorded # NoRow THEN recorded ELSE IF row = NoRow THEN NoRow ELSE row.net

PageHead(g, f) ==
  [status |-> Played(g, f).status,
   state  |-> LeastSettled(Beside(g, f)),
   home   |-> ShownScore(Played(g, f).home, scores[g][f[1]]),
   away   |-> ShownScore(Played(g, f).away, scores[g][f[2]])]

-----------------------------------------------------------------------------
(* The state of the Gameweek (FplStatus), read from the tables. *)

Status == INSTANCE FplStatus

Season ==
  [g \in Gameweeks |-> [dated |-> gameweek[g].dated, due |-> g <= clock,
                        finished |-> gameweek[g].checked,
                        stage |-> IF fixtures[g] = "played" THEN "played"
                                  ELSE IF Started(fixtures[g]) THEN "live" ELSE "upcoming"]]

\* While the table has no deadline the visitor is answered from FPL (FplStatus).
Greeting ==
  IF \A g \in Gameweeks : ~gameweek[g].dated THEN [week |-> NoRow, state |-> NoRow]
  ELSE Status!FromTables(Season)

-----------------------------------------------------------------------------
(* What must hold. *)

\* Nothing is taken back in the table: whoever is removed, whatever FPL corrects,
\* a manager who is not sanctioned himself keeps his games and his points while
\* no Gameweek is reopened (RULEBOOK.md: "historical finalized H2H results are
\* preserved"; services/h2h.py counts locked results alone).
PointsStand ==
  [][(\E g \in Gameweeks : closedBy'[g] = "reopened") \/ <<matches, forfeits>>' = <<matches, forfeits>>
      \/ \A m \in Managers : /\ MatchPoints(m)' >= MatchPoints(m)
                             /\ Games(m) \subseteq Games(m)'
                             /\ m \notin forfeits' => TablePoints(m)' >= TablePoints(m)]_vars

\* The page of a match never shows a winner its two scores do not make, though
\* the scores are the match's on one side of settlement and the managers' on the
\* other, and go on being rewritten after it.
ShownResultIsExplained ==
  \A x \in Fixture :
    LET match == Played(x[1], x[2])  head == PageHead(x[1], x[2]) IN
    match.status \notin {"scheduled", "walkover"} =>
      match.winner = IF head.home > head.away THEN x[2][1]
                     ELSE IF head.away > head.home THEN x[2][2] ELSE NoRow

\* The state the page shows, read from the two scores, is the state of the
\* result, read from the match, wherever the match was played: neither says
\* final before the other.
HeadAgreesWithResult ==
  \A x \in Fixture :
    LET head == PageHead(x[1], x[2]) IN
    Eligible(x[2]) /\ head.status # "scheduled" => head.status = head.state

\* What the table counts for a manager is what the pages of his locked matches
\* show, though those pages fall back on scores that go on being rewritten.
\* A walkover counts for nothing but the result.
TableAgreesWithPages ==
  \A m \in Managers :
    LET locked    == {x \in Games(m) : Played(x[1], x[2]).status = "final"}
        shown(x)  == PageHead(x[1], x[2])
        ours      == [x \in locked |-> IF m = x[2][1] THEN shown(x).home ELSE shown(x).away]
        theirs    == [x \in locked |-> IF m = x[2][1] THEN shown(x).away ELSE shown(x).home]
    IN  /\ PointsFor(m) = SumFunctionOnSet(ours, locked)
        /\ PointsAgainst(m) = SumFunctionOnSet(theirs, locked)

\* While nobody has closed the Gameweek the synchroniser works on, the greeting
\* says of it what its scores say, though one is read from the fixtures and the
\* other was written from them.
PagesAgree ==
  Greeting.week = clock /\ closedBy[clock] = "nobody" =>
    \A m \in Managers :
      scores[clock][m] # NoRow /\ Greeting.state # "final" =>
        scores[clock][m].status = Greeting.state

\* The table, the page of every match and the greeting, asked at one moment, tell
\* one story.
ReadersAgree ==
  ShownResultIsExplained /\ HeadAgreesWithResult /\ TableAgreesWithPages /\ PagesAgree
=============================================================================
