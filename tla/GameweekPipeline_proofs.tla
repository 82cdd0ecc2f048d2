----------------------- MODULE GameweekPipeline_proofs -----------------------
(***************************************************************************)
(* The safety of GameweekPipeline, for any league, season, schedule and    *)
(* set of FPL answers.  IInv is inductive: the gate's promise about scores *)
(* needs the source every score has (a re-scored row is final only if it   *)
(* is written again), and the promise about matches needs the one about    *)
(* scores and the record of who closed the week.                           *)
(*                                                                         *)
(* ReadInv, on top of it, is what the readers of LeaguePages rely on: a    *)
(* result is explained by its scores while they stand, and scores by the   *)
(* fixtures.  The table, the pages and the greeting then agree.            *)
(***************************************************************************)
EXTENDS LeaguePages, LeagueRules_proofs

IInv ==
  /\ TypeOK
  /\ Bookkeeping
  /\ RuleClosedIsComplete
  /\ RuleClosedMatchesFinal
  /\ NothingFinalBeforeClosing
  /\ NoScoreBeforeKickOff
  /\ WalkoverAgainstForfeiter

Rows    == [Managers -> ScoreRow \cup {NoRow}]
Squads  == [Managers -> BOOLEAN \cup {NoRow}]
History == [Managers -> Points \cup {NoRow}]
States  == {"upcoming"} \cup Statuses

\* Whatever is decided about one manager.
ConductStep(m) == \/ RemoveFromH2H(m) \/ RemoveFromCompetition(m)
                  \/ \E value \in Standings : UpdateManager(m, value)

-----------------------------------------------------------------------------
(* What the operators return. *)

\* Deriving a total from a squad yields a total (domain/gameweek_scoring.py).
LEMMA DerivedType ==
  ASSUME NEW points \in Points, NEW squad \in BOOLEAN \cup {NoRow}
  PROVE  Derived(points, squad) \in Points
BY PointsAssumption DEF Derived, Points

\* A score's points come from its authority, and are points either way.
LEMMA NetType ==
  ASSUME NEW points \in Points, NEW squad \in BOOLEAN \cup {NoRow},
         NEW total \in Points \cup {NoRow}, NEW state \in States
  PROVE  Net(points, squad, total, state) \in Points
BY DerivedType DEF Net, Authority

\* Scoring yields score rows, and a row it writes carries the state it was
\* scored in (services/scoring.py).
LEMMA ScoredRows ==
  ASSUME NEW rows \in Rows, NEW points \in Points, NEW sq \in Squads,
         NEW hist \in History, NEW state \in States
  PROVE  /\ Scored(rows, points, sq, hist, state) \in Rows
         /\ \A m \in Managers :
              \/ /\ Scored(rows, points, sq, hist, state)[m] = rows[m]
                 /\ state = "upcoming" \/ (sq[m] = NoRow /\ hist[m] = NoRow)
              \/ /\ Scored(rows, points, sq, hist, state)[m] \in ScoreRow
                 /\ Scored(rows, points, sq, hist, state)[m].status = state
                 /\ sq[m] # NoRow \/ hist[m] # NoRow
<1>1. ASSUME NEW m \in Managers, state # "upcoming", OnFile(sq[m], hist[m])
      PROVE  [net |-> Net(points, sq[m], hist[m], state), status |-> state]
               \in ScoreRow
  <2>1. sq[m] \in BOOLEAN \cup {NoRow} /\ hist[m] \in Points \cup {NoRow}
    BY DEF Squads, History
  <2>2. Net(points, sq[m], hist[m], state) \in Points
    BY <2>1, NetType
  <2>. QED
    BY <1>1, <2>2 DEF ScoreRow, States
<1>. QED
  BY <1>1 DEF Scored, Rows, OnFile

\* The state of a score is "final" exactly when its Gameweek is closed, and
\* "upcoming" only while nothing has kicked off.
LEMMA StateOf ==
  ASSUME NEW finalized \in BOOLEAN, NEW stage
  PROVE  /\ ScoreState(finalized, stage) \in States
         /\ ScoreState(finalized, stage) = "final" <=> finalized
         /\ ~finalized /\ ~Started(stage)
              => ScoreState(finalized, stage) = "upcoming"
         /\ Started(stage) => ScoreState(finalized, stage) # "upcoming"
BY DEF ScoreState, States, Statuses

\* A match takes the status of its less settled side.
LEMMA MatchStatusOf ==
  ASSUME NEW s \in Statuses, NEW t \in Statuses
  PROVE  /\ MatchStatus(s, t) \in Statuses
         /\ MatchStatus(s, t) = "final" <=> s = "final" /\ t = "final"
BY DEF MatchStatus, Statuses

\* Settlement yields a match row: the one on file, a walkover, or the result
\* of two scores (services/h2h_settlement.py).
LEMMA SettledType ==
  ASSUME NEW f \in Managers \X Managers, NEW match \in MatchRow,
         NEW rows \in Rows, NEW finalized \in BOOLEAN
  PROVE  Settled(f, match, rows, finalized) \in MatchRow
<1>1. f[1] \in Managers /\ f[2] \in Managers
  OBVIOUS
<1>2. 0 \in Points
  BY PointsAssumption DEF Points
<1>3. Walkover(f[1]) \in MatchRow /\ Walkover(f[2]) \in MatchRow
  BY <1>1, <1>2 DEF Walkover, MatchRow
<1>4. ASSUME rows[f[1]] # NoRow, rows[f[2]] # NoRow
      PROVE  OnPoints(f, rows[f[1]], rows[f[2]]) \in MatchRow
  <2>1. rows[f[1]] \in ScoreRow /\ rows[f[2]] \in ScoreRow
    BY <1>1, <1>4 DEF Rows
  <2>2. /\ rows[f[1]].net \in Points /\ rows[f[1]].status \in Statuses
        /\ rows[f[2]].net \in Points /\ rows[f[2]].status \in Statuses
    BY <2>1 DEF ScoreRow
  <2>3. MatchStatus(rows[f[1]].status, rows[f[2]].status) \in Statuses
    BY <2>2, MatchStatusOf
  <2>. QED
    BY <1>1, <2>2, <2>3 DEF OnPoints, MatchRow
<1>. QED
  BY <1>3, <1>4 DEF Settled

\* Between two eligible managers who both have a score, a match that is not
\* locked gets the result of those scores.
LEMMA SettledOnPoints ==
  ASSUME NEW f \in Managers \X Managers, NEW match, NEW rows, NEW finalized,
         Eligible(f), rows[f[1]] # NoRow, rows[f[2]] # NoRow,
         ~Frozen(match, finalized)
  PROVE  Settled(f, match, rows, finalized) = OnPoints(f, rows[f[1]], rows[f[2]])
BY DEF Settled, Eligible

-----------------------------------------------------------------------------
(* One tick.  What a tick does before it scores is summed up by what the   *)
(* rest relies on: rows are refreshed and never withdrawn, and the mirror  *)
(* shows football FPL shows.                                               *)

FlagRows == [Gameweeks -> [dated : BOOLEAN, checked : BOOLEAN,
                           finalized : BOOLEAN]]

SourcesRead ==
  /\ fixtures' \in [Gameweeks -> Stages \cup {NoRow}]
  /\ stats' \in [Gameweeks -> Points]
  /\ squads' \in [Gameweeks -> Squads]
  /\ history' \in [Gameweeks -> History]
  /\ quarantined' \subseteq Gameweeks \cup {NoRow}
  /\ \A k \in Gameweeks : \A m \in Managers :
       /\ squads[k][m] # NoRow => squads'[k][m] # NoRow
       /\ history[k][m] # NoRow => history'[k][m] # NoRow
  /\ \A k \in Gameweeks :
       /\ Started(fixtures'[k]) => Started(fpl[k].stage)
       /\ Started(fixtures[k]) => Started(fixtures'[k])

\* The ways scoring and finalization may leave the rows and the flags of the
\* Gameweek a tick works on.
LEMMA TickOutcome ==
  ASSUME IInv, NEW g \in Gameweeks, NEW flags \in FlagRows,
         \A k \in Gameweeks : flags[k].finalized <=> gameweek[k].finalized,
         SourcesRead, ScoreAndSettle(g, flags)
  PROVE  /\ scores' \in [Gameweeks -> Rows]
         /\ gameweek' \in FlagRows
         /\ \A k \in Gameweeks \ {g} :
              /\ scores'[k] = scores[k] /\ closedBy'[k] = closedBy[k]
              /\ awaited'[k] = awaited[k]
              /\ gameweek'[k].finalized <=> gameweek[k].finalized
         /\ closedBy' \in [Gameweeks -> ClosedBy]
         /\ awaited' \in [Gameweeks -> SUBSET Managers]
         /\ \/ /\ gameweek'[g].finalized <=> gameweek[g].finalized
               /\ closedBy'[g] = closedBy[g] /\ awaited'[g] = awaited[g]
            \/ /\ ~gameweek[g].finalized /\ gameweek'[g].finalized
               /\ closedBy'[g] = "rule" /\ Started(fixtures'[g])
               /\ \A m \in awaited'[g] : scores'[g][m] # NoRow
         /\ \A m \in Managers :
              \/ /\ scores'[g][m] = scores[g][m]
                 /\ \/ scores[g][m] = NoRow
                    \/ ~gameweek'[g].finalized /\ ~Started(fixtures'[g])
              \/ /\ scores'[g][m] \in ScoreRow
                 /\ scores'[g][m].status = "final" <=> gameweek'[g].finalized
                 /\ gameweek[g].finalized \/ Started(fixtures'[g])
                 /\ squads'[g][m] # NoRow \/ history'[g][m] # NoRow
<1> DEFINE state == ScoreState(flags[g].finalized, fixtures'[g])
           rows == Scored(scores[g], stats'[g], squads'[g], history'[g], state)
           disputes == {m \in Managers :
                          Disputed(stats'[g], squads'[g][m], history'[g][m], state)}
           closes == GateOpen(flags[g], fixtures'[g], rows, disputes,
                              g \in quarantined')
           final == Scored(rows, stats'[g], squads'[g], history'[g], "final")
<1>1. /\ scores' = [scores EXCEPT ![g] = IF closes THEN final ELSE rows]
      /\ gameweek' = [flags EXCEPT ![g].finalized = @ \/ closes]
      /\ closedBy' = [closedBy EXCEPT ![g] = IF closes THEN "rule" ELSE @]
      /\ awaited' = [awaited EXCEPT ![g] = IF closes THEN Expected ELSE @]
  BY DEF ScoreAndSettle, Rescored
<1>2. /\ scores \in [Gameweeks -> Rows] /\ closedBy \in [Gameweeks -> ClosedBy]
      /\ awaited \in [Gameweeks -> SUBSET Managers] /\ Expected \subseteq Managers
      /\ scores[g] \in Rows /\ flags[g].finalized \in BOOLEAN
      /\ stats'[g] \in Points /\ squads'[g] \in Squads /\ history'[g] \in History
  BY DEF IInv, TypeOK, Rows, SourcesRead, FlagRows, Expected
<1>3. closes \in BOOLEAN /\ (closes => ~flags[g].finalized)
      /\ (closes => Started(fixtures'[g]))
      /\ (closes => \A m \in Expected : rows[m] # NoRow)
  BY DEF GateOpen, Started
<1>4. /\ state \in States /\ (state = "final" <=> flags[g].finalized)
      /\ ~flags[g].finalized /\ ~Started(fixtures'[g]) => state = "upcoming"
      /\ Started(fixtures'[g]) => state # "upcoming"
  BY <1>2, StateOf
<1>5. rows \in Rows /\ \A m \in Managers :
        \/ /\ rows[m] = scores[g][m]
           /\ state = "upcoming" \/ (squads'[g][m] = NoRow /\ history'[g][m] = NoRow)
        \/ /\ rows[m] \in ScoreRow /\ rows[m].status = state
           /\ squads'[g][m] # NoRow \/ history'[g][m] # NoRow
  <2> HIDE DEF state
  <2>. QED BY <1>2, <1>4, ScoredRows
<1>6. final \in Rows /\ \A m \in Managers :
        \/ /\ final[m] = rows[m]
           /\ squads'[g][m] = NoRow /\ history'[g][m] = NoRow
        \/ /\ final[m] \in ScoreRow /\ final[m].status = "final"
           /\ squads'[g][m] # NoRow \/ history'[g][m] # NoRow
  <2> HIDE DEF rows
  <2>1. "final" \in States /\ "final" # "upcoming"
    BY DEF States, Statuses
  <2>. QED BY <1>2, <1>5, <2>1, ScoredRows
<1>7. /\ NoRow \notin ScoreRow
      /\ \A m \in Managers : squads'[g][m] = NoRow /\ history'[g][m] = NoRow
                               => scores[g][m] = NoRow
  BY NoRowAssumption DEF IInv, Bookkeeping, SourcesRead
<1> HIDE DEF closes, final, rows, state
<1>8. scores' \in [Gameweeks -> Rows] /\ closedBy' \in [Gameweeks -> ClosedBy]
      /\ gameweek' \in FlagRows /\ awaited' \in [Gameweeks -> SUBSET Managers]
  <2>1. scores' \in [Gameweeks -> Rows]
    BY <1>1, <1>2, <1>5, <1>6
  <2>2. closedBy' \in [Gameweeks -> ClosedBy]
    BY <1>1, <1>2 DEF ClosedBy
  <2>3. gameweek' \in FlagRows
    BY <1>1, <1>3 DEF FlagRows
  <2>4. awaited' \in [Gameweeks -> SUBSET Managers]
    BY <1>1, <1>2
  <2>. QED BY <2>1, <2>2, <2>3, <2>4
<1>9. \A k \in Gameweeks \ {g} :
        /\ scores'[k] = scores[k] /\ closedBy'[k] = closedBy[k]
        /\ awaited'[k] = awaited[k]
        /\ gameweek'[k].finalized <=> gameweek[k].finalized
  BY <1>1, <1>2 DEF FlagRows
<1>10. /\ closes => scores'[g] = final /\ closedBy'[g] = "rule" /\ awaited'[g] = Expected
       /\ ~closes => scores'[g] = rows /\ closedBy'[g] = closedBy[g]
                     /\ awaited'[g] = awaited[g]
  BY <1>1, <1>2
<1>11. gameweek'[g].finalized <=> (gameweek[g].finalized \/ closes)
  BY <1>1, <1>2, <1>3 DEF FlagRows
<1>12. \/ /\ gameweek'[g].finalized <=> gameweek[g].finalized
          /\ closedBy'[g] = closedBy[g] /\ awaited'[g] = awaited[g]
       \/ /\ ~gameweek[g].finalized /\ gameweek'[g].finalized
          /\ closedBy'[g] = "rule" /\ Started(fixtures'[g])
          /\ \A m \in awaited'[g] : scores'[g][m] # NoRow
  <2>1. CASE closes
    <3>1. \A m \in Expected : final[m] # NoRow
      BY <2>1, <1>3, <1>6, <1>7 DEF Expected
    <3>2. \A m \in awaited'[g] : scores'[g][m] # NoRow
      BY <2>1, <3>1, <1>10
    <3>3. ~gameweek[g].finalized /\ gameweek'[g].finalized
      BY <2>1, <1>3, <1>11
    <3>. QED BY <2>1, <3>2, <3>3, <1>3, <1>10
  <2>2. CASE ~closes
    BY <2>2, <1>10, <1>11
  <2>. QED BY <2>1, <2>2
<1>13. ASSUME NEW m \in Managers
       PROVE  \/ /\ scores'[g][m] = scores[g][m]
                 /\ \/ scores[g][m] = NoRow
                    \/ ~gameweek'[g].finalized /\ ~Started(fixtures'[g])
              \/ /\ scores'[g][m] \in ScoreRow
                 /\ scores'[g][m].status = "final" <=> gameweek'[g].finalized
                 /\ gameweek[g].finalized \/ Started(fixtures'[g])
                 /\ squads'[g][m] # NoRow \/ history'[g][m] # NoRow
  <2>1. CASE closes
    <3>1. gameweek'[g].finalized /\ Started(fixtures'[g])
      BY <2>1, <1>3, <1>11
    <3>2. rows[m] = scores[g][m] \/ squads'[g][m] # NoRow \/ history'[g][m] # NoRow
      BY <1>5
    <3>3. CASE final[m] = rows[m] /\ squads'[g][m] = NoRow /\ history'[g][m] = NoRow
      BY <2>1, <3>2, <3>3, <1>7, <1>10
    <3>4. CASE final[m] \in ScoreRow /\ final[m].status = "final"
               /\ (squads'[g][m] # NoRow \/ history'[g][m] # NoRow)
      BY <2>1, <3>1, <3>4, <1>10
    <3>. QED BY <3>3, <3>4, <1>6
  <2>2. CASE ~closes
    <3>1. scores'[g] = rows /\ (gameweek'[g].finalized <=> flags[g].finalized)
      BY <2>2, <1>3, <1>10, <1>11
    <3>2. CASE /\ rows[m] = scores[g][m]
               /\ squads'[g][m] = NoRow /\ history'[g][m] = NoRow
      BY <3>1, <3>2, <1>7
    <3>3. CASE rows[m] = scores[g][m] /\ state = "upcoming"
      BY <3>1, <3>3, <1>4
    <3>4. CASE rows[m] \in ScoreRow /\ rows[m].status = state
               /\ (squads'[g][m] # NoRow \/ history'[g][m] # NoRow)
      <4>1. state # "upcoming"
        BY <3>4 DEF ScoreRow, Statuses
      <4>2. flags[g].finalized \/ Started(fixtures'[g])
        BY <4>1, <1>4
      <4>. QED BY <3>1, <3>4, <4>2, <1>4
    <3>. QED BY <3>2, <3>3, <3>4, <1>5
  <2>. QED BY <2>1, <2>2
<1>. QED BY <1>8, <1>9, <1>12, <1>13

\* What settlement leaves: every match of the Gameweek settled against the
\* rows and the flag this tick ends with, no other match touched.
LEMMA TickMatches ==
  ASSUME IInv, NEW g \in Gameweeks, NEW flags, ScoreAndSettle(g, flags),
         scores' \in [Gameweeks -> Rows], gameweek' \in FlagRows
  PROVE  /\ matches' \in [Gameweeks -> UNION {[Schedule[k] -> MatchRow] : k \in Gameweeks}]
         /\ \A k \in Gameweeks : matches'[k] \in [Schedule[k] -> MatchRow]
         /\ \A k \in Gameweeks \ {g} : matches'[k] = matches[k]
         /\ \A f \in Schedule[g] :
              matches'[g][f] = Settled(f, matches[g][f], scores'[g],
                                       gameweek'[g].finalized)
<1> DEFINE settled == [f \in Schedule[g] |->
                         Settled(f, matches[g][f], scores'[g],
                                 gameweek'[g].finalized)]
<1>1. matches' = [matches EXCEPT ![g] = settled]
  BY DEF ScoreAndSettle
<1>2. /\ matches \in [Gameweeks -> UNION {[Schedule[k] -> MatchRow] : k \in Gameweeks}]
      /\ \A k \in Gameweeks : matches[k] \in [Schedule[k] -> MatchRow]
  BY DEF IInv, TypeOK
<1>3. scores'[g] \in Rows /\ gameweek'[g].finalized \in BOOLEAN
  BY DEF FlagRows
<1>4. settled \in [Schedule[g] -> MatchRow]
  <2>1. ASSUME NEW f \in Schedule[g]
        PROVE  Settled(f, matches[g][f], scores'[g], gameweek'[g].finalized)
                 \in MatchRow
    <3>1. f \in Managers \X Managers /\ matches[g][f] \in MatchRow
      BY <1>2, ScheduleAssumption
    <3>. QED BY <3>1, <1>3, SettledType
  <2>. QED BY <2>1
<1>5. \A f \in Schedule[g] :
        settled[f] = Settled(f, matches[g][f], scores'[g], gameweek'[g].finalized)
  OBVIOUS
<1> HIDE DEF settled
<1>. QED BY <1>1, <1>2, <1>4, <1>5

\* A tick keeps the invariant.
LEMMA TickKeepsInvariant ==
  ASSUME IInv, NEW g \in Gameweeks, NEW flags \in FlagRows,
         \A k \in Gameweeks : flags[k].finalized <=> gameweek[k].finalized,
         SourcesRead, ScoreAndSettle(g, flags),
         UNCHANGED <<clock, fpl, conduct>>
  PROVE  IInv'
<1>1. /\ scores' \in [Gameweeks -> Rows] /\ gameweek' \in FlagRows
      /\ closedBy' \in [Gameweeks -> ClosedBy]
      /\ awaited' \in [Gameweeks -> SUBSET Managers]
      /\ \A k \in Gameweeks \ {g} :
           /\ scores'[k] = scores[k] /\ closedBy'[k] = closedBy[k]
           /\ awaited'[k] = awaited[k]
           /\ gameweek'[k].finalized <=> gameweek[k].finalized
  BY TickOutcome
<1>2. \/ /\ gameweek'[g].finalized <=> gameweek[g].finalized
         /\ closedBy'[g] = closedBy[g] /\ awaited'[g] = awaited[g]
      \/ /\ ~gameweek[g].finalized /\ gameweek'[g].finalized
         /\ closedBy'[g] = "rule" /\ Started(fixtures'[g])
         /\ \A m \in awaited'[g] : scores'[g][m] # NoRow
  BY TickOutcome
<1>3. \A m \in Managers :
        \/ /\ scores'[g][m] = scores[g][m]
           /\ \/ scores[g][m] = NoRow
              \/ ~gameweek'[g].finalized /\ ~Started(fixtures'[g])
        \/ /\ scores'[g][m] \in ScoreRow
           /\ scores'[g][m].status = "final" <=> gameweek'[g].finalized
           /\ gameweek[g].finalized \/ Started(fixtures'[g])
           /\ squads'[g][m] # NoRow \/ history'[g][m] # NoRow
  BY TickOutcome
<1>types. /\ matches' \in [Gameweeks -> UNION {[Schedule[k] -> MatchRow] : k \in Gameweeks}]
          /\ \A k \in Gameweeks : matches'[k] \in [Schedule[k] -> MatchRow]
  BY <1>1, TickMatches
<1>others. \A k \in Gameweeks \ {g} : matches'[k] = matches[k]
  BY <1>1, TickMatches
<1>4. \A f \in Schedule[g] :
        matches'[g][f] = Settled(f, matches[g][f], scores'[g],
                                 gameweek'[g].finalized)
  BY <1>1, TickMatches
<1>5. /\ clock' = clock /\ fpl' = fpl
      /\ forfeits' = forfeits /\ standing' = standing
      /\ \A f : Eligible(f)' <=> Eligible(f)
  BY DEF conduct, Eligible
<1>6. TypeOK'
  <2>1. /\ clock' \in Gameweeks \cup {0}
        /\ fpl' \in [Gameweeks -> [stage : Stages, checked : BOOLEAN, points : Points,
                                   fielded : SUBSET Managers,
                                   totals : [Managers -> Points]]]
        /\ forfeits' \subseteq Managers /\ standing' \in [Managers -> Standings]
    <3>1. /\ clock \in Gameweeks \cup {0}
          /\ fpl \in [Gameweeks -> [stage : Stages, checked : BOOLEAN, points : Points,
                                    fielded : SUBSET Managers,
                                    totals : [Managers -> Points]]]
          /\ forfeits \subseteq Managers /\ standing \in [Managers -> Standings]
      BY Zenon DEF IInv, TypeOK
    <3> QED BY <1>5, <3>1, Zenon
  <2>2. /\ fixtures' \in [Gameweeks -> Stages \cup {NoRow}]
        /\ stats' \in [Gameweeks -> Points]
        /\ squads' \in [Gameweeks -> [Managers -> BOOLEAN \cup {NoRow}]]
        /\ history' \in [Gameweeks -> [Managers -> Points \cup {NoRow}]]
        /\ quarantined' \subseteq Gameweeks \cup {NoRow}
    BY Zenon DEF SourcesRead, Squads, History
  <2>3. /\ gameweek' \in [Gameweeks -> [dated : BOOLEAN, checked : BOOLEAN,
                                        finalized : BOOLEAN]]
        /\ scores' \in [Gameweeks -> [Managers -> ScoreRow \cup {NoRow}]]
        /\ closedBy' \in [Gameweeks -> ClosedBy]
        /\ awaited' \in [Gameweeks -> SUBSET Managers]
    BY <1>1, Zenon DEF FlagRows, Rows
  <2> QED BY <1>types, <2>1, <2>2, <2>3, Zenon DEF TypeOK
<1>7. Bookkeeping'
  <2> SUFFICES ASSUME NEW k \in Gameweeks
               PROVE  /\ closedBy'[k] \in {"rule", "admin"} <=> gameweek'[k].finalized
                      /\ \A m \in Managers : scores'[k][m] # NoRow =>
                           squads'[k][m] # NoRow \/ history'[k][m] # NoRow
                      /\ Started(fixtures'[k]) => Started(fpl'[k].stage)
    BY DEF Bookkeeping, Started
  <2>1. closedBy'[k] \in {"rule", "admin"} <=> gameweek'[k].finalized
    BY <1>1, <1>2 DEF IInv, Bookkeeping
  <2>2. \A m \in Managers : scores'[k][m] # NoRow =>
          squads'[k][m] # NoRow \/ history'[k][m] # NoRow
    BY <1>1, <1>3 DEF IInv, Bookkeeping, SourcesRead
  <2>3. Started(fixtures'[k]) => Started(fpl'[k].stage)
    BY <1>5 DEF SourcesRead
  <2>. QED BY <2>1, <2>2, <2>3
<1>8. RuleClosedIsComplete'
  <2> SUFFICES ASSUME NEW k \in Gameweeks, closedBy'[k] = "rule", NEW m \in Managers
               PROVE  /\ m \in awaited'[k] => scores'[k][m] # NoRow
                      /\ scores'[k][m] # NoRow => scores'[k][m].status = "final"
    BY DEF RuleClosedIsComplete
  <2>1. CASE k # g
    BY <2>1, <1>1 DEF IInv, RuleClosedIsComplete
  <2>2. CASE k = g
    <3>1. gameweek'[g].finalized
      BY <2>2, <1>7 DEF Bookkeeping
    <3>2. m \in awaited'[g] => scores'[g][m] # NoRow
      BY <2>2, <1>2, <1>3, NoRowAssumption DEF IInv, RuleClosedIsComplete
    <3>. QED BY <2>2, <3>1, <3>2, <1>3
  <2>. QED BY <2>1, <2>2
<1>9. RuleClosedMatchesFinal'
  <2> SUFFICES ASSUME NEW k \in Gameweeks, closedBy'[k] = "rule",
                      NEW f \in Schedule[k], Playable(f, scores'[k])
               PROVE  matches'[k][f].status = "final"
    BY <1>5 DEF RuleClosedMatchesFinal, Playable
  <2>1. CASE k # g
    BY <2>1, <1>1, <1>others DEF IInv, RuleClosedMatchesFinal
  <2>2. CASE k = g /\ Frozen(matches[g][f], gameweek'[g].finalized)
    BY <2>2, <1>4 DEF Frozen, Settled
  <2>3. CASE k = g /\ ~Frozen(matches[g][f], gameweek'[g].finalized)
    <3>1. f \in Managers \X Managers /\ f[1] \in Managers /\ f[2] \in Managers
          /\ Eligible(f)
      BY ScheduleAssumption DEF Playable
    <3>2. /\ scores'[g][f[1]] # NoRow /\ scores'[g][f[1]].status = "final"
          /\ scores'[g][f[2]] # NoRow /\ scores'[g][f[2]].status = "final"
      BY <2>3, <3>1, <1>8 DEF RuleClosedIsComplete, Playable
    <3>3. matches'[g][f] = OnPoints(f, scores'[g][f[1]], scores'[g][f[2]])
      BY <2>3, <3>1, <3>2, <1>4, SettledOnPoints
    <3>. QED BY <2>3, <3>2, <3>3 DEF OnPoints, MatchStatus
  <2>. QED BY <2>1, <2>2, <2>3
<1>10. NothingFinalBeforeClosing'
  <2> SUFFICES ASSUME NEW k \in Gameweeks, closedBy'[k] = "nobody"
               PROVE  /\ \A m \in Managers :
                           scores'[k][m] # NoRow => scores'[k][m].status # "final"
                      /\ \A f \in Schedule[k] : matches'[k][f].status # "final"
    BY DEF NothingFinalBeforeClosing
  <2>1. CASE k # g
    BY <2>1, <1>1, <1>others DEF IInv, NothingFinalBeforeClosing
  <2>2. CASE k = g
    <3>1. ~gameweek'[g].finalized /\ closedBy[g] = "nobody"
      BY <2>2, <1>2, <1>7 DEF Bookkeeping
    <3>2. \A m \in Managers :
            scores'[g][m] # NoRow => scores'[g][m].status # "final"
      BY <3>1, <1>3 DEF IInv, NothingFinalBeforeClosing
    <3>3. ASSUME NEW f \in Schedule[g]
          PROVE  matches'[g][f].status # "final"
      <4>1. f[1] \in Managers /\ f[2] \in Managers
        BY ScheduleAssumption
      <4>2. matches[g][f].status # "final"
        BY <3>1 DEF IInv, NothingFinalBeforeClosing
      <4>3. Walkover(f[1]).status # "final" /\ Walkover(f[2]).status # "final"
        BY DEF Walkover
      <4>4. ASSUME scores'[g][f[1]] # NoRow, scores'[g][f[2]] # NoRow
            PROVE  OnPoints(f, scores'[g][f[1]], scores'[g][f[2]]).status # "final"
        <5>1. /\ scores'[g][f[1]] \in ScoreRow /\ scores'[g][f[2]] \in ScoreRow
          BY <4>1, <4>4, <1>1 DEF Rows
        <5>2. /\ scores'[g][f[1]].status \in Statuses \ {"final"}
              /\ scores'[g][f[2]].status \in Statuses \ {"final"}
          BY <4>1, <4>4, <5>1, <3>2 DEF ScoreRow
        <5>. QED BY <5>2 DEF OnPoints, MatchStatus, Statuses
      <4>. QED BY <4>2, <4>3, <4>4, <1>4 DEF Settled
    <3>. QED BY <2>2, <3>2, <3>3
  <2>. QED BY <2>1, <2>2
<1>11. NoScoreBeforeKickOff'
  <2> SUFFICES ASSUME NEW k \in Gameweeks, closedBy'[k] = "nobody",
                      ~Started(fixtures'[k]), NEW m \in Managers
               PROVE  scores'[k][m] = NoRow
    BY DEF NoScoreBeforeKickOff, Started
  <2>1. ~Started(fixtures[k]) /\ ~gameweek'[k].finalized
    BY <1>7 DEF SourcesRead, Bookkeeping
  <2>2. CASE k # g
    BY <2>1, <2>2, <1>1 DEF IInv, NoScoreBeforeKickOff
  <2>3. CASE k = g
    <3>1. closedBy[g] = "nobody" /\ ~gameweek[g].finalized
      BY <2>1, <2>3, <1>2
    <3>. QED BY <2>1, <2>3, <3>1, <1>3 DEF IInv, NoScoreBeforeKickOff
  <2>. QED BY <2>2, <2>3
<1>12. WalkoverAgainstForfeiter'
  <2> SUFFICES ASSUME NEW k \in Gameweeks, NEW f \in Schedule[k],
                      matches'[k][f].status = "walkover"
               PROVE  \/ matches'[k][f].winner = f[2] /\ f[1] \in forfeits
                      \/ matches'[k][f].winner = f[1] /\ f[2] \in forfeits
    BY <1>5 DEF WalkoverAgainstForfeiter
  <2>1. CASE k # g
    BY <2>1, <1>others DEF IInv, WalkoverAgainstForfeiter
  <2>2. CASE k = g
    <3>1. matches[g][f].status = "walkover" =>
            \/ matches[g][f].winner = f[2] /\ f[1] \in forfeits
            \/ matches[g][f].winner = f[1] /\ f[2] \in forfeits
      BY <2>2 DEF IInv, WalkoverAgainstForfeiter
    <3>2. \A h, a : OnPoints(f, h, a).status # "walkover"
      BY DEF OnPoints, MatchStatus
    <3>3. Walkover(f[1]).winner = f[1] /\ Walkover(f[2]).winner = f[2]
      BY DEF Walkover
    <3>. QED BY <2>2, <3>1, <3>2, <3>3, <1>4 DEF Settled
  <2>. QED BY <2>1, <2>2
<1>. QED BY <1>6, <1>7, <1>8, <1>9, <1>10, <1>11, <1>12 DEF IInv

-----------------------------------------------------------------------------
(* The sources a tick reads. *)

\* FPL's progress for a week only moves on, and the mirror copies it or keeps
\* what it had.
LEMMA FixtureTableTrails ==
  ASSUME IInv, NEW a, fixtures' = FixtureTable(a)
  PROVE  /\ fixtures' \in [Gameweeks -> Stages \cup {NoRow}]
         /\ \A k \in Gameweeks :
              /\ Started(fixtures'[k]) => Started(fpl[k].stage)
              /\ Started(fixtures[k]) => Started(fixtures'[k])
BY DEF IInv, TypeOK, Bookkeeping, FixtureTable

\* A live payload leaves points on file, the new ones or the old.
LEMMA ReadLiveType ==
  ASSUME IInv, NEW g \in Gameweeks, NEW stage, NEW a
  PROVE  ReadLive(g, stage, a) \in [Gameweeks -> Points]
BY DEF IInv, TypeOK, ReadLive

\* What a bootstrap mirrors keeps the flag only the league sets.
LEMMA FlagsKeepFinalized ==
  ASSUME IInv, NEW a
  PROVE  /\ Flags(a) \in FlagRows
         /\ \A k \in Gameweeks : Flags(a)[k].finalized <=> gameweek[k].finalized
<1>1. gameweek \in FlagRows /\ \A k \in Gameweeks : fpl[k].checked \in BOOLEAN
  BY DEF IInv, TypeOK, FlagRows
<1>2. ASSUME NEW k \in Gameweeks, NEW row, row = [gameweek[k] EXCEPT
               !.dated = TRUE, !.checked = fpl[k].checked]
      PROVE  /\ row \in [dated : BOOLEAN, checked : BOOLEAN, finalized : BOOLEAN]
             /\ row.finalized = gameweek[k].finalized
  BY <1>1, <1>2 DEF FlagRows
<1>. QED BY <1>1, <1>2 DEF Flags, FlagRows

\* A full tick reads its sources and withdraws no row.
LEMMA FullTickReads ==
  ASSUME IInv, NEW g \in Gameweeks, NEW a \in Answers, FullTick(g, a)
  PROVE  SourcesRead
<1>1. /\ squads \in [Gameweeks -> Squads] /\ history \in [Gameweeks -> History]
      /\ \A k \in Gameweeks : squads[k] \in Squads /\ history[k] \in History
      /\ \A k \in Gameweeks : fpl[k].totals \in [Managers -> Points]
      /\ quarantined \subseteq Gameweeks \cup {NoRow}
  BY DEF IInv, TypeOK, Squads, History
<1> DEFINE read == [m \in Managers |-> IF m \in a.squads \cap Expected
                                       THEN m \in fpl[g].fielded ELSE squads[g][m]]
<1>2. squads' = [squads EXCEPT ![g] = read]
  BY DEF FullTick, ReadSquads
<1>3. squads' \in [Gameweeks -> Squads]
      /\ \A k \in Gameweeks : \A m \in Managers :
           squads[k][m] # NoRow => squads'[k][m] # NoRow
  <2>1. ASSUME NEW m \in Managers
        PROVE  /\ read[m] \in BOOLEAN \cup {NoRow}
               /\ squads[g][m] # NoRow => read[m] # NoRow
    <3>1. CASE m \in a.squads \cap Expected
      <4>1. (m \in fpl[g].fielded) \in BOOLEAN
        OBVIOUS
      <4>2. read[m] \in BOOLEAN
        BY <3>1, <4>1, Zenon
      <4>3. NoRow \notin BOOLEAN
        BY NoRowAssumption
      <4> HIDE DEF read
      <4>. QED BY <4>2, <4>3
    <3>2. CASE m \notin a.squads \cap Expected
      BY <3>2, <1>1 DEF Squads
    <3>. QED BY <3>1, <3>2
  <2>2. read \in Squads
    BY <2>1 DEF Squads
  <2> HIDE DEF read
  <2>. QED BY <1>1, <1>2, <2>1, <2>2
<1>4. history' = [k \in Gameweeks |-> [m \in Managers |->
                    IF HistoryPlanned(g, fixtures'[g])
                         /\ m \in a.history \cap Expected /\ k <= clock
                    THEN fpl[k].totals[m] ELSE history[k][m]]]
  BY DEF FullTick, ReadHistory
<1>5. history' \in [Gameweeks -> History]
      /\ \A k \in Gameweeks : \A m \in Managers :
           history[k][m] # NoRow => history'[k][m] # NoRow
  BY <1>1, <1>4, NoRowAssumption DEF History
<1>6. quarantined' \subseteq Gameweeks \cup {NoRow}
  BY <1>1 DEF FullTick, CatalogTaint, LiveTaint, ManagersTaint
<1>7. stats' \in [Gameweeks -> Points]
  BY ReadLiveType DEF FullTick
<1>8. fixtures' = FixtureTable(a)
  BY DEF FullTick
<1>. QED BY <1>3, <1>5, <1>6, <1>7, <1>8, FixtureTableTrails DEF SourcesRead

\* A live tick reads the football alone.
LEMMA LiveTickReads ==
  ASSUME IInv, NEW g \in Gameweeks, NEW a \in Answers, LiveTick(g, a)
  PROVE  SourcesRead
<1>1. squads' = squads /\ history' = history
  BY DEF LiveTick
<1>2. /\ squads \in [Gameweeks -> Squads] /\ history \in [Gameweeks -> History]
      /\ quarantined \subseteq Gameweeks \cup {NoRow}
  BY DEF IInv, TypeOK, Squads, History
<1>3. quarantined' \subseteq Gameweeks \cup {NoRow}
      /\ stats' \in [Gameweeks -> Points]
  BY <1>2, ReadLiveType DEF LiveTick, CatalogTaint, LiveTaint
<1>4. fixtures' = FixtureTable(a)
  BY DEF LiveTick
<1>. QED BY <1>1, <1>2, <1>3, <1>4, FixtureTableTrails DEF SourcesRead

-----------------------------------------------------------------------------
(* The invariant. *)

\* The empty season satisfies the invariant.
LEMMA InitInvariant == Init => IInv
<1> SUFFICES ASSUME Init PROVE IInv
  OBVIOUS
<1>1. 0 \in Points /\ 0 \in Gameweeks \cup {0}
  BY PointsAssumption DEF Points
<1>2. TypeOK
  <2>1. \A g \in Gameweeks : [f \in Schedule[g] |->
           [status |-> "scheduled", home |-> NoRow, away |-> NoRow,
            winner |-> NoRow]] \in [Schedule[g] -> MatchRow]
    BY DEF MatchRow
  <2>2. /\ \A g \in Gameweeks : matches[g] \in [Schedule[g] -> MatchRow]
        /\ matches \in [Gameweeks -> UNION {[Schedule[g] -> MatchRow] : g \in Gameweeks}]
    BY <2>1 DEF Init
  <2>. QED BY <1>1, <2>2, ManagersAssumption DEF TypeOK, Init, Stages, Standings, ClosedBy
<1>3. Bookkeeping
  BY NoRowAssumption DEF Init, Bookkeeping, Started, Stages
<1>4. RuleClosedIsComplete /\ RuleClosedMatchesFinal
  BY DEF Init, RuleClosedIsComplete, RuleClosedMatchesFinal
<1>5. NothingFinalBeforeClosing /\ NoScoreBeforeKickOff
  BY DEF Init, NothingFinalBeforeClosing, NoScoreBeforeKickOff
<1>6. WalkoverAgainstForfeiter
  BY DEF Init, WalkoverAgainstForfeiter
<1>. QED BY <1>2, <1>3, <1>4, <1>5, <1>6 DEF IInv

\* FPL's own steps touch nothing of the league's.
LEMMA FplKeepsInvariant == IInv /\ Fpl => IInv'
<1> SUFFICES ASSUME IInv, Fpl PROVE IInv'
  OBVIOUS
<1>1. FplUnchanged
  BY DEF Fpl, DeadlinePasses, Progress, Goal, AutoSub, PublishTotals, CheckData
<1>2. UNCHANGED <<gameweek, fixtures, stats, squads, history, scores, matches,
                  quarantined, forfeits, standing, closedBy, awaited>>
  BY <1>1 DEF FplUnchanged, sources, results, conduct, record
<1> DEFINE FplType == fpl \in [Gameweeks ->
             [stage : Stages, checked : BOOLEAN, points : Points,
              fielded : SUBSET Managers, totals : [Managers -> Points]]]
<1>3. FplType /\ clock \in Gameweeks \cup {0}
  BY DEF IInv, TypeOK
<1>4. ASSUME FplType' /\ clock' \in Gameweeks \cup {0},
             \A g \in Gameweeks : Started(fpl[g].stage) => Started(fpl'[g].stage)
      PROVE  IInv'
  <2>1. TypeOK'
    BY <1>2, <1>4 DEF IInv, TypeOK
  <2>2. Bookkeeping'
    BY <1>2, <1>4 DEF IInv, Bookkeeping, Started
  <2>3. RuleClosedIsComplete' /\ RuleClosedMatchesFinal'
    BY <1>2 DEF IInv, RuleClosedIsComplete, RuleClosedMatchesFinal, Playable, Eligible
  <2>4. /\ NothingFinalBeforeClosing' /\ NoScoreBeforeKickOff'
        /\ WalkoverAgainstForfeiter'
    BY <1>2 DEF IInv, NothingFinalBeforeClosing, NoScoreBeforeKickOff, Started,
                WalkoverAgainstForfeiter
  <2>. QED BY <2>1, <2>2, <2>3, <2>4 DEF IInv
<1>5. CASE DeadlinePasses
  BY <1>3, <1>4, <1>5 DEF DeadlinePasses
<1>6. ASSUME NEW g \in Gameweeks, Progress(g) PROVE IInv'
  <2>1. PICK step \in {<<"upcoming", "playing">>, <<"playing", "partly">>,
                       <<"partly", "played">>} :
          fpl[g].stage = step[1] /\ fpl' = [fpl EXCEPT ![g].stage = step[2]]
    BY <1>6 DEF Progress
  <2>2. step[2] \in Stages /\ Started(step[2]) /\ clock' = clock
    BY <1>6 DEF Progress, Stages, Started
  <2>. QED BY <2>1, <2>2, <1>3, <1>4, ZenonT(60)
<1>7. ASSUME NEW g \in Gameweeks, Goal(g) PROVE IInv'
  <2>1. fpl[g].points + 1 \in Points /\ clock' = clock
    BY <1>3, <1>7, PointsAssumption DEF Goal, Points
  <2>. QED BY <2>1, <1>3, <1>4, <1>7 DEF Goal
<1>8. ASSUME NEW g \in Gameweeks, NEW m \in Managers, AutoSub(g, m) PROVE IInv'
  <2>1. fpl' = [fpl EXCEPT ![g].fielded = @ \cup {m}] /\ clock' = clock
    BY <1>8 DEF AutoSub
  <2>. QED BY <2>1, <1>3, <1>4
<1>9. ASSUME NEW g \in Gameweeks, PublishTotals(g) PROVE IInv'
  <2>1. \A m \in Managers : FplTotal(g, m) \in Points
    BY <1>3, PointsAssumption DEF FplTotal, Derived, Points
  <2>2. fpl' = [fpl EXCEPT ![g].totals = [m \in Managers |-> FplTotal(g, m)]]
        /\ clock' = clock
    BY <1>9 DEF PublishTotals
  <2>. QED BY <2>1, <2>2, <1>3, <1>4
<1>10. ASSUME NEW g \in Gameweeks, CheckData(g) PROVE IInv'
  <2>1. fpl' = [fpl EXCEPT ![g].checked = TRUE] /\ clock' = clock
    BY <1>10 DEF CheckData
  <2>. QED BY <2>1, <1>3, <1>4
<1>. QED BY <1>5, <1>6, <1>7, <1>8, <1>9, <1>10 DEF Fpl

\* Neither does a decision about a manager, whoever takes it: the gate has noted whom
\* it waited for, and the ineligible only leave the set settlement owes a result.
LEMMA ConductKeepsInvariant ==
  ASSUME IInv, NEW m \in Managers, ConductStep(m)
  PROVE  IInv'
<1>1. UNCHANGED <<clock, fpl, gameweek, fixtures, stats, squads, history, scores,
                  matches, quarantined, closedBy, awaited>>
  BY DEF ConductStep, RemoveFromH2H, RemoveFromCompetition, UpdateManager, sources, results, record
<1>2. /\ forfeits \subseteq forfeits' /\ forfeits' \subseteq Managers
      /\ standing' \in [Managers -> Standings]
  BY DEF ConductStep, RemoveFromH2H, RemoveFromCompetition, UpdateManager, Standings, IInv, TypeOK
<1>3. TypeOK'
  BY <1>1, <1>2 DEF IInv, TypeOK
<1>4. Bookkeeping'
  BY <1>1 DEF IInv, Bookkeeping, Started
<1>5. RuleClosedIsComplete' /\ RuleClosedMatchesFinal'
  BY <1>1, <1>2 DEF IInv, RuleClosedIsComplete, RuleClosedMatchesFinal, Playable, Eligible
<1>6. NothingFinalBeforeClosing' /\ NoScoreBeforeKickOff'
  BY <1>1 DEF IInv, NothingFinalBeforeClosing, NoScoreBeforeKickOff, Started
<1>7. WalkoverAgainstForfeiter'
  BY <1>1, <1>2 DEF IInv, WalkoverAgainstForfeiter
<1>. QED BY <1>3, <1>4, <1>5, <1>6, <1>7 DEF IInv

\* An administrator who closes or reopens a week takes over from the gate.
LEMMA SetFinalizedKeepsInvariant ==
  ASSUME IInv, NEW g \in Gameweeks, NEW value \in BOOLEAN, SetFinalized(g, value)
  PROVE  IInv'
<1>1. /\ UNCHANGED <<clock, fpl, fixtures, stats, squads, history, scores,
                     matches, quarantined, forfeits, standing, awaited>>
      /\ gameweek' = [gameweek EXCEPT ![g].finalized = value]
      /\ closedBy' = [closedBy EXCEPT ![g] = IF value THEN "admin" ELSE "reopened"]
  BY DEF SetFinalized, sources, results, conduct
<1>2. TypeOK'
  <2>1. (IF value THEN "admin" ELSE "reopened") \in ClosedBy
    BY DEF ClosedBy
  <2>2. closedBy' \in [Gameweeks -> ClosedBy]
    BY <1>1, <2>1 DEF IInv, TypeOK
  <2>3. gameweek' \in FlagRows
    BY <1>1, ZenonT(60) DEF IInv, TypeOK, FlagRows
  <2>. QED BY <1>1, <2>2, <2>3 DEF IInv, TypeOK, FlagRows
<1>3. Bookkeeping'
  BY <1>1 DEF IInv, TypeOK, Bookkeeping, Started
<1>4. /\ closedBy'[g] \in {"admin", "reopened"}
      /\ \A k \in Gameweeks \ {g} : closedBy'[k] = closedBy[k]
  BY <1>1 DEF IInv, TypeOK
<1>5. RuleClosedIsComplete' /\ RuleClosedMatchesFinal'
  BY <1>1, <1>4 DEF IInv, RuleClosedIsComplete, RuleClosedMatchesFinal, Playable, Eligible
<1>6. NothingFinalBeforeClosing' /\ NoScoreBeforeKickOff'
  BY <1>1, <1>4 DEF IInv, NothingFinalBeforeClosing, NoScoreBeforeKickOff, Started
<1>7. WalkoverAgainstForfeiter'
  BY <1>1 DEF IInv, WalkoverAgainstForfeiter
<1>. QED BY <1>2, <1>3, <1>5, <1>6, <1>7 DEF IInv

\* A tick that only refreshes the catalog moves the mirror and the mirrored
\* flags, never the league's own.
LEMMA CatalogKeepsInvariant ==
  ASSUME IInv, NEW a \in Answers, CatalogTick(a) \/ QuietLiveTick(a)
  PROVE  IInv'
<1>1. /\ UNCHANGED <<clock, fpl, stats, squads, history, scores, matches,
                     forfeits, standing, closedBy, awaited>>
      /\ fixtures' = FixtureTable(a)
      /\ gameweek' = gameweek \/ gameweek' = Flags(a)
      /\ quarantined' \subseteq quarantined \cup {NoRow}
  BY DEF CatalogTick, QuietLiveTick, CatalogTaint, results, conduct, record
<1>2. /\ gameweek' \in FlagRows
      /\ \A k \in Gameweeks : gameweek'[k].finalized <=> gameweek[k].finalized
  BY <1>1, FlagsKeepFinalized, SMTT(30) DEF IInv, TypeOK, FlagRows
<1>3. /\ fixtures' \in [Gameweeks -> Stages \cup {NoRow}]
      /\ \A k \in Gameweeks :
           /\ Started(fixtures'[k]) => Started(fpl[k].stage)
           /\ Started(fixtures[k]) => Started(fixtures'[k])
  BY <1>1, FixtureTableTrails
<1>4. TypeOK'
  BY <1>1, <1>2, <1>3 DEF IInv, TypeOK, FlagRows
<1>5. Bookkeeping'
  BY <1>1, <1>2, <1>3 DEF IInv, Bookkeeping, Started
<1>6. RuleClosedIsComplete' /\ RuleClosedMatchesFinal'
  BY <1>1 DEF IInv, RuleClosedIsComplete, RuleClosedMatchesFinal, Playable, Eligible
<1>7. NothingFinalBeforeClosing' /\ NoScoreBeforeKickOff'
  BY <1>1, <1>3 DEF IInv, NothingFinalBeforeClosing, NoScoreBeforeKickOff, Started
<1>8. WalkoverAgainstForfeiter'
  BY <1>1 DEF IInv, WalkoverAgainstForfeiter
<1>. QED BY <1>4, <1>5, <1>6, <1>7, <1>8 DEF IInv

\* Every step of the season keeps the invariant.
LEMMA StepInvariant == IInv /\ [Next]_vars => IInv'
<1> SUFFICES ASSUME IInv, [Next]_vars PROVE IInv'
  OBVIOUS
<1>1. CASE Fpl
  BY <1>1, FplKeepsInvariant
<1>2. ASSUME NEW g \in Gameweeks, NEW a \in Answers, FullTick(g, a) PROVE IInv'
  <2>1. ScoreAndSettle(g, Flags(a)) /\ UNCHANGED <<clock, fpl, conduct>>
    BY <1>2 DEF FullTick
  <2>. QED BY <2>1, <1>2, FullTickReads, FlagsKeepFinalized, TickKeepsInvariant
<1>3. ASSUME NEW g \in Gameweeks, NEW a \in Answers, LiveTick(g, a) PROVE IInv'
  <2>1. ScoreAndSettle(g, gameweek) /\ UNCHANGED <<clock, fpl, conduct>>
    BY <1>3 DEF LiveTick
  <2>2. gameweek \in FlagRows
    BY DEF IInv, TypeOK, FlagRows
  <2>. QED BY <2>1, <2>2, <1>3, LiveTickReads, TickKeepsInvariant
<1>4. ASSUME NEW a \in Answers, CatalogTick(a) \/ QuietLiveTick(a) PROVE IInv'
  BY <1>4, CatalogKeepsInvariant
<1>5. CASE Admin
  BY <1>5, SetFinalizedKeepsInvariant, ConductKeepsInvariant DEF Admin, ConductStep
<1>6. CASE UNCHANGED vars
  <2>1. UNCHANGED <<clock, fpl, gameweek, fixtures, stats, squads, history, scores,
                    matches, quarantined, forfeits, standing, closedBy, awaited>>
    BY <1>6 DEF vars, sources, results, conduct, record
  <2>2. TypeOK' /\ Bookkeeping'
    BY <2>1 DEF IInv, TypeOK, Bookkeeping, Started
  <2>3. RuleClosedIsComplete' /\ RuleClosedMatchesFinal'
    BY <2>1 DEF IInv, RuleClosedIsComplete, RuleClosedMatchesFinal, Playable, Eligible
  <2>4. /\ NothingFinalBeforeClosing' /\ NoScoreBeforeKickOff'
        /\ WalkoverAgainstForfeiter'
    BY <2>1 DEF IInv, NothingFinalBeforeClosing, NoScoreBeforeKickOff, Started,
                WalkoverAgainstForfeiter
  <2>. QED BY <2>2, <2>3, <2>4 DEF IInv
<1>. QED BY <1>1, <1>2, <1>3, <1>4, <1>5, <1>6 DEF Next, Tick

-----------------------------------------------------------------------------
(* The results. *)

\* Every reachable state satisfies the inductive invariant, TypeOK included.
THEOREM Invariant == Spec => []IInv
BY InitInvariant, StepInvariant, PTL DEF Spec

\* Every variable keeps its type, for any league and any FPL.
THEOREM TypeCorrect == Spec => []TypeOK
<1>1. IInv => TypeOK
  BY DEF IInv
<1>. QED BY <1>1, Invariant, PTL

\* A Gameweek the gate closed has a score for everyone it was waiting for, a final one
\* for whoever has one, and a final result for every pair of eligible managers who
\* have, in the same tick (services/finalization.py, services/sync_orchestrator.py).
THEOREM ClosedIsSettled == Spec => []ClosedByRuleIsSettled
<1>1. IInv => ClosedByRuleIsSettled
  BY DEF IInv, ClosedByRuleIsSettled
<1>. QED BY <1>1, Invariant, PTL

\* Nothing reads as final, and nothing is scored before a kick-off, while
\* nobody has closed the Gameweek (services/scoring.py).
THEOREM OpenStaysProvisional == Spec => []NothingEarly
<1>1. IInv => NothingEarly
  BY DEF IInv, NothingEarly
<1>. QED BY <1>1, Invariant, PTL

\* A walkover only goes against a manager who was removed
\* (services/h2h_settlement.py).
THEOREM WalkoversAreDeserved == Spec => []WalkoverAgainstForfeiter
<1>1. IInv => WalkoverAgainstForfeiter
  BY DEF IInv
<1>. QED BY <1>1, Invariant, PTL

\* The ways a step may touch the scores and the matches or close a Gameweek by
\* rule: not at all, or by the scoring and settlement of one Gameweek.
LEMMA MatchesChangeBySettlement ==
  ASSUME IInv, [Next]_vars
  PROVE  \/ /\ matches' = matches /\ scores' = scores /\ forfeits \subseteq forfeits'
            /\ \A g \in Gameweeks : closedBy'[g] = "rule" => closedBy[g] = "rule"
         \/ \E g \in Gameweeks, flags \in FlagRows :
              /\ \A k \in Gameweeks : flags[k].finalized <=> gameweek[k].finalized
              /\ SourcesRead /\ ScoreAndSettle(g, flags)
              /\ UNCHANGED <<clock, fpl, conduct>>
<1> DEFINE Quiet == /\ matches' = matches /\ scores' = scores /\ forfeits \subseteq forfeits'
                    /\ \A g \in Gameweeks : closedBy'[g] = "rule" => closedBy[g] = "rule"
<1>1. CASE Fpl
  <2>1. FplUnchanged
    BY <1>1 DEF Fpl, DeadlinePasses, Progress, Goal, AutoSub, PublishTotals, CheckData
  <2>. QED BY <2>1 DEF FplUnchanged, results, conduct, record
<1>2. ASSUME NEW g \in Gameweeks, NEW a \in Answers, FullTick(g, a)
      PROVE  \E k \in Gameweeks, flags \in FlagRows :
               /\ \A l \in Gameweeks : flags[l].finalized <=> gameweek[l].finalized
               /\ SourcesRead /\ ScoreAndSettle(k, flags)
               /\ UNCHANGED <<clock, fpl, conduct>>
  <2>1. ScoreAndSettle(g, Flags(a)) /\ UNCHANGED <<clock, fpl, conduct>>
    BY <1>2 DEF FullTick
  <2>. QED BY <2>1, <1>2, FullTickReads, FlagsKeepFinalized
<1>3. ASSUME NEW g \in Gameweeks, NEW a \in Answers, LiveTick(g, a)
      PROVE  \E k \in Gameweeks, flags \in FlagRows :
               /\ \A l \in Gameweeks : flags[l].finalized <=> gameweek[l].finalized
               /\ SourcesRead /\ ScoreAndSettle(k, flags)
               /\ UNCHANGED <<clock, fpl, conduct>>
  <2>1. ScoreAndSettle(g, gameweek) /\ UNCHANGED <<clock, fpl, conduct>>
    BY <1>3 DEF LiveTick
  <2>2. gameweek \in FlagRows
    BY DEF IInv, TypeOK, FlagRows
  <2>. QED BY <2>1, <2>2, <1>3, LiveTickReads
<1>4. ASSUME NEW a \in Answers, CatalogTick(a) \/ QuietLiveTick(a)
      PROVE  Quiet
  BY <1>4 DEF CatalogTick, QuietLiveTick, results, conduct, record
<1>5. CASE Admin
  <2>1. ASSUME NEW g \in Gameweeks, NEW value \in BOOLEAN, SetFinalized(g, value)
        PROVE  Quiet
    BY <2>1 DEF SetFinalized, results, conduct, IInv, TypeOK
  <2>2. ASSUME NEW m \in Managers, ConductStep(m)
        PROVE  Quiet
    BY <2>2 DEF ConductStep, RemoveFromH2H, RemoveFromCompetition, UpdateManager, results, record
  <2>. QED BY <1>5, <2>1, <2>2 DEF Admin, ConductStep
<1>6. CASE UNCHANGED vars
  BY <1>6 DEF vars, results, conduct, record
<1>. QED BY <1>1, <1>2, <1>3, <1>4, <1>5, <1>6 DEF Next, Tick

\* A final match of a closed Gameweek keeps its result while it stays closed,
\* whatever FPL corrects and whoever is removed.
THEOREM LockedResultsStand == Spec => FinalResultFrozen
<1>1. ASSUME IInv, [Next]_vars, NEW g \in Gameweeks, NEW f \in Schedule[g],
             matches[g][f].status = "final",
             gameweek[g].finalized, gameweek'[g].finalized
      PROVE  matches'[g][f] = matches[g][f]
  <2>1. CASE matches' = matches
    BY <2>1
  <2>2. ASSUME NEW k \in Gameweeks, NEW flags \in FlagRows,
               \A l \in Gameweeks : flags[l].finalized <=> gameweek[l].finalized,
               SourcesRead, ScoreAndSettle(k, flags)
        PROVE  matches'[g][f] = matches[g][f]
    <3>1. scores' \in [Gameweeks -> Rows] /\ gameweek' \in FlagRows
      BY <1>1, <2>2, TickOutcome
    <3>2. CASE k # g
      BY <1>1, <2>2, <3>1, <3>2, TickMatches
    <3>3. CASE k = g
      <4>1. matches'[g][f] = Settled(f, matches[g][f], scores'[g],
                                     gameweek'[g].finalized)
        BY <1>1, <2>2, <3>1, <3>3, TickMatches
      <4>. QED BY <4>1, <1>1 DEF Settled, Frozen
    <3>. QED BY <3>2, <3>3
  <2>. QED BY <1>1, <2>1, <2>2, MatchesChangeBySettlement
<1>2. IInv /\ [Next]_vars =>
        [\A g \in Gameweeks : \A f \in Schedule[g] :
           matches[g][f].status = "final"
             /\ gameweek[g].finalized /\ gameweek'[g].finalized
           => matches'[g][f] = matches[g][f]]_vars
  BY <1>1
<1>. QED BY <1>2, Invariant, PTL DEF Spec, FinalResultFrozen

\* The tick that first closes a Gameweek settles every match between eligible
\* managers who have scores by the final ones it has just written.
THEOREM ClosingTickSettles == Spec => FirstClosingSettles
<1>1. ASSUME IInv, [Next]_vars, NEW g \in Gameweeks, ClosesByRule(g),
             closedBy[g] = "nobody", NEW f \in Schedule[g], Playable(f, scores'[g])
      PROVE  Agrees(f, matches'[g][f], scores'[g])
  <2>1. closedBy'[g] = "rule" /\ closedBy'[g] # closedBy[g]
    BY <1>1 DEF ClosesByRule
  <2>2. f \in Managers \X Managers /\ Eligible(f)
        /\ scores'[g][f[1]] # NoRow /\ scores'[g][f[2]] # NoRow
    BY <1>1, ScheduleAssumption DEF Playable
  <2>3. matches[g][f].status # "final"
    BY <1>1 DEF IInv, NothingFinalBeforeClosing
  <2>4. ASSUME NEW k \in Gameweeks, NEW flags \in FlagRows,
               \A l \in Gameweeks : flags[l].finalized <=> gameweek[l].finalized,
               SourcesRead, ScoreAndSettle(k, flags)
        PROVE  Agrees(f, matches'[g][f], scores'[g])
    <3>1. /\ scores' \in [Gameweeks -> Rows] /\ gameweek' \in FlagRows
          /\ \A l \in Gameweeks \ {k} : closedBy'[l] = closedBy[l]
      BY <1>1, <2>4, TickOutcome
    <3>2. k = g
      BY <2>1, <3>1
    <3>3. matches'[g][f] = Settled(f, matches[g][f], scores'[g],
                                   gameweek'[g].finalized)
      BY <1>1, <2>4, <3>1, <3>2, TickMatches
    <3>4. matches'[g][f] = OnPoints(f, scores'[g][f[1]], scores'[g][f[2]])
      BY <2>2, <2>3, <3>3, SettledOnPoints DEF Frozen
    <3>. QED BY <3>4 DEF OnPoints, Agrees
  <2>. QED BY <2>1, <2>4, <1>1, MatchesChangeBySettlement
<1>2. IInv /\ [Next]_vars =>
        [\A g \in Gameweeks : ClosesByRule(g) /\ closedBy[g] = "nobody" =>
           \A f \in Schedule[g] : Playable(f, scores'[g]) =>
             Agrees(f, matches'[g][f], scores'[g])]_vars
  BY <1>1
<1>. QED BY <1>2, Invariant, PTL DEF Spec, FirstClosingSettles

-----------------------------------------------------------------------------
(* What the league reads (LeaguePages): what ties a result to its scores,    *)
(* and the scores of the Gameweek being worked on to its football.           *)

\* A result on points is explained by the two scores on file with it; a walkover
\* has none.
ResultsAreExplained ==
  \A g \in Gameweeks : \A f \in Schedule[g] :
    /\ matches[g][f].status \in Statuses =>
         /\ matches[g][f].home \in Points /\ matches[g][f].away \in Points
         /\ matches[g][f].winner =
              IF matches[g][f].home > matches[g][f].away THEN f[1]
              ELSE IF matches[g][f].away > matches[g][f].home THEN f[2] ELSE NoRow
    /\ matches[g][f].status = "walkover" =>
         matches[g][f].home = 0 /\ matches[g][f].away = 0

\* A result between two eligible managers is as settled as their scores are now.
ResultsFollowScores ==
  \A g \in Gameweeks : \A f \in Schedule[g] :
    Eligible(f) /\ matches[g][f].status # "scheduled" =>
      /\ scores[g][f[1]] # NoRow /\ scores[g][f[2]] # NoRow
      /\ matches[g][f].status
           = MatchStatus(scores[g][f[1]].status, scores[g][f[2]].status)

\* Nothing kicks off before its deadline.
FootballWaits == \A g \in Gameweeks : g > clock => fpl[g].stage = "upcoming"

\* The scores of the current Gameweek are those of the football on file.
ScoresFollowFixtures ==
  \A g \in Gameweeks : g = clock /\ closedBy[g] = "nobody" =>
    \A m \in Managers : scores[g][m] # NoRow =>
      gameweek[g].dated /\ scores[g][m].status = ScoreState(FALSE, fixtures[g])

ReadInv ==
  ResultsAreExplained /\ ResultsFollowScores /\ FootballWaits /\ ScoresFollowFixtures

\* What settlement may make of a match.
LEMMA SettledOutcomes ==
  ASSUME NEW f, NEW match, NEW rows, NEW finalized
  PROVE  \/ Settled(f, match, rows, finalized) = match
         \/ \E winner \in {f[1], f[2]} : /\ Settled(f, match, rows, finalized) = Walkover(winner)
                                         /\ {f[1], f[2]} \cap forfeits # {}
         \/ /\ rows[f[1]] # NoRow /\ rows[f[2]] # NoRow /\ ~Frozen(match, finalized)
            /\ Settled(f, match, rows, finalized) = OnPoints(f, rows[f[1]], rows[f[2]])
BY DEF Settled

\* Whatever is settled is explained by what it was settled with.
LEMMA ExplainedStep ==
  ASSUME IInv, ResultsAreExplained, [Next]_vars
  PROVE  ResultsAreExplained'
<1>1. CASE matches' = matches
  BY <1>1 DEF ResultsAreExplained
<1>2. ASSUME NEW g \in Gameweeks, NEW flags \in FlagRows,
             \A k \in Gameweeks : flags[k].finalized <=> gameweek[k].finalized,
             SourcesRead, ScoreAndSettle(g, flags)
      PROVE  ResultsAreExplained'
  <2>1. scores' \in [Gameweeks -> Rows] /\ gameweek' \in FlagRows
    BY <1>2, TickOutcome
  <2>2. /\ \A k \in Gameweeks \ {g} : matches'[k] = matches[k]
        /\ \A f \in Schedule[g] :
             matches'[g][f] = Settled(f, matches[g][f], scores'[g], gameweek'[g].finalized)
    BY <1>2, <2>1, TickMatches
  <2>3. ASSUME NEW f \in Schedule[g]
        PROVE  LET match == matches'[g][f] IN
               /\ match.status \in Statuses =>
                    /\ match.home \in Points /\ match.away \in Points
                    /\ match.winner = IF match.home > match.away THEN f[1]
                                      ELSE IF match.away > match.home THEN f[2] ELSE NoRow
               /\ match.status = "walkover" => match.home = 0 /\ match.away = 0
    <3>1. f[1] \in Managers /\ f[2] \in Managers
      BY ScheduleAssumption
    <3>2. CASE matches'[g][f] = matches[g][f]
      BY <3>2 DEF ResultsAreExplained
    <3>3. ASSUME NEW winner \in {f[1], f[2]}, matches'[g][f] = Walkover(winner)
          PROVE  /\ matches'[g][f].status = "walkover"
                 /\ matches'[g][f].home = 0 /\ matches'[g][f].away = 0
      BY <3>3 DEF Walkover
    <3>4. CASE /\ scores'[g][f[1]] # NoRow /\ scores'[g][f[2]] # NoRow
               /\ matches'[g][f] = OnPoints(f, scores'[g][f[1]], scores'[g][f[2]])
      <4>1. scores'[g][f[1]] \in ScoreRow /\ scores'[g][f[2]] \in ScoreRow
        BY <2>1, <3>1, <3>4 DEF Rows
      <4>2. /\ scores'[g][f[1]].net \in Points /\ scores'[g][f[1]].status \in Statuses
            /\ scores'[g][f[2]].net \in Points /\ scores'[g][f[2]].status \in Statuses
        BY <4>1 DEF ScoreRow
      <4>3. MatchStatus(scores'[g][f[1]].status, scores'[g][f[2]].status) \in Statuses
        BY <4>2, MatchStatusOf
      <4> QED BY <3>4, <4>2, <4>3 DEF OnPoints, Statuses
    <3> QED BY <2>2, <3>2, <3>3, <3>4, SettledOutcomes DEF Statuses
  <2> QED BY <2>2, <2>3 DEF ResultsAreExplained
<1> QED BY <1>1, <1>2, MatchesChangeBySettlement

\* Settlement re-reads the scores it settles by; a locked result stays level with
\* scores that are written again, since those of a closed Gameweek are final.
LEMMA FollowScoresStep ==
  ASSUME IInv, ResultsFollowScores, [Next]_vars
  PROVE  ResultsFollowScores'
<1>1. CASE matches' = matches /\ scores' = scores /\ forfeits \subseteq forfeits'
  BY <1>1 DEF ResultsFollowScores, Eligible
<1>2. ASSUME NEW g \in Gameweeks, NEW flags \in FlagRows,
             \A k \in Gameweeks : flags[k].finalized <=> gameweek[k].finalized,
             SourcesRead, ScoreAndSettle(g, flags), UNCHANGED <<clock, fpl, conduct>>
      PROVE  ResultsFollowScores'
  <2>1. /\ scores' \in [Gameweeks -> Rows] /\ gameweek' \in FlagRows
        /\ \A k \in Gameweeks \ {g} : scores'[k] = scores[k]
        /\ \A m \in Managers :
             \/ /\ scores'[g][m] = scores[g][m]
                /\ scores[g][m] = NoRow \/ ~gameweek'[g].finalized
             \/ /\ scores'[g][m] \in ScoreRow
                /\ scores'[g][m].status = "final" <=> gameweek'[g].finalized
    BY <1>2, TickOutcome
  <2>2. /\ \A k \in Gameweeks \ {g} : matches'[k] = matches[k]
        /\ \A f \in Schedule[g] :
             matches'[g][f] = Settled(f, matches[g][f], scores'[g], gameweek'[g].finalized)
    BY <1>2, <2>1, TickMatches
  <2>3. forfeits' = forfeits
    BY <1>2 DEF conduct
  <2>4. ASSUME NEW f \in Schedule[g], Eligible(f), matches'[g][f].status # "scheduled"
        PROVE  /\ scores'[g][f[1]] # NoRow /\ scores'[g][f[2]] # NoRow
               /\ matches'[g][f].status
                    = MatchStatus(scores'[g][f[1]].status, scores'[g][f[2]].status)
    <3>1. f[1] \in Managers /\ f[2] \in Managers /\ NoRow \notin ScoreRow
      BY ScheduleAssumption, NoRowAssumption
    <3>2. CASE /\ scores'[g][f[1]] # NoRow /\ scores'[g][f[2]] # NoRow
               /\ matches'[g][f] = OnPoints(f, scores'[g][f[1]], scores'[g][f[2]])
      BY <3>2 DEF OnPoints
    <3>3. CASE matches'[g][f] = matches[g][f] /\ ~(/\ scores'[g][f[1]] # NoRow /\ scores'[g][f[2]] # NoRow
               /\ matches'[g][f] = OnPoints(f, scores'[g][f[1]], scores'[g][f[2]]))
      <4>1. /\ scores[g][f[1]] # NoRow /\ scores[g][f[2]] # NoRow
            /\ matches[g][f].status
                 = MatchStatus(scores[g][f[1]].status, scores[g][f[2]].status)
        BY <2>4, <3>3 DEF ResultsFollowScores
      <4>2. scores'[g][f[1]] # NoRow /\ scores'[g][f[2]] # NoRow
        BY <2>1, <3>1, <4>1
      <4>3. Frozen(matches[g][f], gameweek'[g].finalized)
        BY <2>2, <2>4, <3>3, <4>2 DEF Settled, Eligible
      <4>4. scores'[g][f[1]].status = "final" /\ scores'[g][f[2]].status = "final"
        BY <2>1, <3>1, <4>1, <4>3 DEF Frozen
      <4> QED BY <3>3, <4>2, <4>3, <4>4 DEF Frozen, MatchStatus
    <3> QED BY <2>2, <2>4, <3>2, <3>3, SettledOutcomes DEF Eligible
  <2> QED BY <2>1, <2>2, <2>3, <2>4 DEF ResultsFollowScores, Eligible
<1> QED BY <1>1, <1>2, MatchesChangeBySettlement

\* Football moves only after its deadline, and deadlines pass in turn.
LEMMA FootballWaitsStep ==
  ASSUME IInv, FootballWaits, [Next]_vars
  PROVE  FootballWaits'
<1>1. clock \in Nat /\ Gameweeks \subseteq Nat
  BY GameweeksAssumption, SMTT(30) DEF IInv, TypeOK, Gameweeks
<1>2. CASE clock' = clock /\ \A g \in Gameweeks : g > clock => fpl'[g].stage = fpl[g].stage
  BY <1>2 DEF FootballWaits
<1>3. CASE DeadlinePasses
  BY <1>1, <1>3 DEF DeadlinePasses, FootballWaits
<1>4. ASSUME NEW k \in Gameweeks, Progress(k) PROVE FootballWaits'
  <2>1. \A g \in Gameweeks : g > clock => fpl'[g] = fpl[g]
    BY <1>1, <1>4 DEF Progress
  <2> QED BY <1>4, <2>1 DEF Progress, FootballWaits
<1>5. ASSUME NEW k \in Gameweeks, Goal(k) \/ PublishTotals(k) \/ CheckData(k)
      PROVE  clock' = clock /\ \A g \in Gameweeks : fpl'[g].stage = fpl[g].stage
  <2>1. DOMAIN fpl = Gameweeks /\ \A g \in Gameweeks :
          fpl[g] \in [stage : Stages, checked : BOOLEAN, points : Points,
                     fielded : SUBSET Managers, totals : [Managers -> Points]]
    BY DEF IInv, TypeOK
  <2>2. CASE Goal(k)
    BY <2>1, <2>2 DEF Goal
  <2>3. CASE PublishTotals(k)
    BY <2>1, <2>3 DEF PublishTotals
  <2>4. CASE CheckData(k)
    BY <2>1, <2>4 DEF CheckData
  <2> QED BY <1>5, <2>2, <2>3, <2>4
<1>6. ASSUME NEW k \in Gameweeks, NEW m \in Managers, AutoSub(k, m)
      PROVE  clock' = clock /\ \A g \in Gameweeks : fpl'[g].stage = fpl[g].stage
  BY <1>6 DEF AutoSub, IInv, TypeOK
<1>7. CASE Tick
  <2>1. clock' = clock /\ fpl' = fpl
    BY <1>7 DEF Tick, FullTick, LiveTick, CatalogTick, QuietLiveTick
  <2> QED BY <1>2, <2>1
<1>8. CASE Admin \/ UNCHANGED vars
  <2>1. clock' = clock /\ fpl' = fpl
    BY <1>8 DEF Admin, SetFinalized, RemoveFromH2H, RemoveFromCompetition, UpdateManager, vars
  <2> QED BY <1>2, <2>1
<1> QED BY <1>2, <1>3, <1>4, <1>5, <1>6, <1>7, <1>8 DEF Next, Fpl

\* While nobody has closed a Gameweek, a tick leaves its scores in the state of the
\* fixtures it has just read.
LEMMA TickScoresByFixtures ==
  ASSUME IInv, NEW g \in Gameweeks, NEW flags \in FlagRows,
         \A k \in Gameweeks : flags[k].finalized <=> gameweek[k].finalized,
         SourcesRead, ScoreAndSettle(g, flags), closedBy'[g] = "nobody",
         NEW m \in Managers, scores'[g][m] # NoRow
  PROVE  scores'[g][m].status = ScoreState(FALSE, fixtures'[g])
<1> DEFINE state == ScoreState(flags[g].finalized, fixtures'[g])
           rows == Scored(scores[g], stats'[g], squads'[g], history'[g], state)
           disputes == {n \in Managers :
                          Disputed(stats'[g], squads'[g][n], history'[g][n], state)}
           closes == GateOpen(flags[g], fixtures'[g], rows, disputes, g \in quarantined')
<1>1. /\ scores' = [scores EXCEPT ![g] = Rescored(closes, rows, stats'[g], squads'[g], history'[g])]
      /\ closedBy' = [closedBy EXCEPT ![g] = IF closes THEN "rule" ELSE @]
  BY DEF ScoreAndSettle
<1>2. /\ scores \in [Gameweeks -> Rows] /\ closedBy \in [Gameweeks -> ClosedBy]
      /\ scores[g] \in Rows /\ flags[g].finalized \in BOOLEAN
      /\ stats'[g] \in Points /\ squads'[g] \in Squads /\ history'[g] \in History
  BY DEF IInv, TypeOK, Rows, SourcesRead, FlagRows
<1>3. ~closes
  <2> HIDE DEF closes
  <2> QED BY <1>1, <1>2
<1>4. scores'[g] = rows /\ closedBy[g] = "nobody"
  <2> HIDE DEF closes, rows
  <2> QED BY <1>1, <1>2, <1>3 DEF Rescored
<1>5. flags[g].finalized = FALSE
  BY <1>2, <1>4 DEF IInv, Bookkeeping
<1>6. state = ScoreState(FALSE, fixtures'[g]) /\ state \in States
      /\ (~Started(fixtures'[g]) => state = "upcoming")
      /\ (Started(fixtures'[g]) => state # "upcoming")
  BY <1>5, StateOf
<1>7. rows \in Rows /\ \A n \in Managers :
        \/ /\ rows[n] = scores[g][n]
           /\ state = "upcoming" \/ (squads'[g][n] = NoRow /\ history'[g][n] = NoRow)
        \/ /\ rows[n] \in ScoreRow /\ rows[n].status = state
           /\ squads'[g][n] # NoRow \/ history'[g][n] # NoRow
  <2>1. state \in States
    BY <1>6
  <2> HIDE DEF state
  <2> QED BY <1>2, <2>1, ScoredRows
<1>8. scores[g][m] # NoRow => /\ Started(fixtures'[g])
                              /\ squads'[g][m] # NoRow \/ history'[g][m] # NoRow
  BY <1>4 DEF IInv, Bookkeeping, NoScoreBeforeKickOff, SourcesRead
<1> HIDE DEF rows, state
<1> QED BY <1>4, <1>6, <1>7, <1>8

\* A tick works on the current Gameweek once anything in it has been scored.
LEMMA TickFollowsFixtures ==
  ASSUME IInv, ScoresFollowFixtures, NEW k \in Gameweeks, NEW flags \in FlagRows,
         \A l \in Gameweeks : flags[l].finalized <=> gameweek[l].finalized,
         \A l \in Gameweeks : gameweek[l].dated => flags[l].dated,
         SourcesRead, ScoreAndSettle(k, flags), IsCurrent(k, flags),
         UNCHANGED <<clock, fpl, conduct>>
  PROVE  ScoresFollowFixtures'
<1> SUFFICES ASSUME NEW g \in Gameweeks, g = clock, closedBy'[g] = "nobody",
                    NEW m \in Managers, scores'[g][m] # NoRow
             PROVE  gameweek'[g].dated /\ scores'[g][m].status = ScoreState(FALSE, fixtures'[g])
  BY DEF ScoresFollowFixtures
<1>1. /\ \A l \in Gameweeks \ {k} : scores'[l] = scores[l] /\ closedBy'[l] = closedBy[l]
      /\ gameweek' \in FlagRows
  BY TickOutcome
<1>2. \A l \in Gameweeks : gameweek'[l].dated = flags[l].dated
  <2>1. \E closes : gameweek' = [flags EXCEPT ![k].finalized = @ \/ closes]
    BY DEF ScoreAndSettle
  <2> QED BY <2>1 DEF FlagRows
<1>3. CASE k = g
  BY <1>2, <1>3, TickScoresByFixtures DEF IsCurrent
<1>4. CASE k # g
  <2>1. gameweek[g].dated
    BY <1>1, <1>4 DEF ScoresFollowFixtures
  <2>2. g <= k /\ k <= g
    BY <2>1 DEF IsCurrent, Gameweeks
  <2> QED BY <1>4, <2>2, GameweeksAssumption DEF Gameweeks
<1> QED BY <1>3, <1>4

\* Every step leaves the scores of the current Gameweek in the state of its fixtures.
LEMMA FollowFixturesStep ==
  ASSUME IInv, FootballWaits, ScoresFollowFixtures, [Next]_vars
  PROVE  ScoresFollowFixtures'
<1>1. clock \in Nat /\ Gameweeks \subseteq Nat
  BY GameweeksAssumption, SMTT(30) DEF IInv, TypeOK, Gameweeks
<1>2. CASE clock' = clock /\ UNCHANGED <<gameweek, fixtures, scores, closedBy>>
  BY <1>2 DEF ScoresFollowFixtures
<1>3. CASE DeadlinePasses
  <2>1. UNCHANGED <<gameweek, fixtures, scores, closedBy>> /\ clock' = clock + 1
    BY <1>3 DEF DeadlinePasses, FplUnchanged, sources, results, record
  <2>2. ASSUME NEW g \in Gameweeks, g = clock + 1, closedBy[g] = "nobody", NEW m \in Managers
        PROVE  scores[g][m] = NoRow
    <3>1. fpl[g].stage = "upcoming"
      BY <1>1, <2>2 DEF FootballWaits
    <3>2. ~Started(fixtures[g])
      BY <3>1 DEF IInv, Bookkeeping, Started
    <3> QED BY <2>2, <3>2 DEF IInv, NoScoreBeforeKickOff
  <2> QED BY <2>1, <2>2 DEF ScoresFollowFixtures
<1>4. CASE Fpl /\ ~DeadlinePasses
  <2>1. clock' = clock /\ FplUnchanged
    BY <1>4 DEF Fpl, Progress, Goal, AutoSub, PublishTotals, CheckData
  <2> QED BY <1>2, <2>1 DEF FplUnchanged, sources, results, record
<1>5. ASSUME NEW g \in Gameweeks, NEW a \in Answers, FullTick(g, a)
      PROVE  ScoresFollowFixtures'
  <2>1. /\ ScoreAndSettle(g, Flags(a)) /\ UNCHANGED <<clock, fpl, conduct>>
        /\ IsCurrent(g, Flags(a))
    BY <1>5 DEF FullTick
  <2>2. \A l \in Gameweeks : gameweek[l].dated => Flags(a)[l].dated
    BY DEF Flags, IInv, TypeOK
  <2> QED BY <2>1, <2>2, <1>5, FullTickReads, FlagsKeepFinalized, TickFollowsFixtures
<1>6. ASSUME NEW g \in Gameweeks, NEW a \in Answers, LiveTick(g, a)
      PROVE  ScoresFollowFixtures'
  <2>1. /\ ScoreAndSettle(g, gameweek) /\ UNCHANGED <<clock, fpl, conduct>>
        /\ IsCurrent(g, gameweek)
    BY <1>6 DEF LiveTick
  <2>2. gameweek \in FlagRows
    BY DEF IInv, TypeOK, FlagRows
  <2> QED BY <2>1, <2>2, <1>6, LiveTickReads, TickFollowsFixtures
<1>7. ASSUME NEW a \in Answers, CatalogTick(a) PROVE ScoresFollowFixtures'
  <2>1. \A g \in Gameweeks : g = clock => ~Flags(a)[g].dated
    BY <1>1, <1>7 DEF CatalogTick, NothingDue
  <2>2. \A g \in Gameweeks : gameweek[g].dated => Flags(a)[g].dated
    BY DEF Flags, IInv, TypeOK
  <2>3. clock' = clock /\ UNCHANGED <<scores, closedBy>>
    BY <1>7 DEF CatalogTick, results, record
  <2> QED BY <2>1, <2>2, <2>3 DEF ScoresFollowFixtures
<1>8. ASSUME NEW a \in Answers, QuietLiveTick(a) PROVE ScoresFollowFixtures'
  <2>1. clock' = clock /\ UNCHANGED <<gameweek, scores, closedBy>> /\ fixtures' = FixtureTable(a)
    BY <1>8 DEF QuietLiveTick, results, record
  <2>2. ASSUME NEW g \in Gameweeks, g = clock, closedBy[g] = "nobody", NEW m \in Managers,
               scores[g][m] # NoRow
        PROVE  FALSE
    <3>1. gameweek[g].dated
      BY <2>2 DEF ScoresFollowFixtures
    <3>2. IsCurrent(g, gameweek)
      BY <1>1, <2>2, <3>1 DEF IsCurrent
    <3>3. Started(fixtures[g])
      BY <2>2 DEF IInv, NoScoreBeforeKickOff
    <3>4. Started(fixtures'[g])
      BY <2>1, <3>3, FixtureTableTrails
    <3> QED BY <1>8, <2>1, <3>2, <3>4 DEF QuietLiveTick
  <2> QED BY <2>1, <2>2 DEF ScoresFollowFixtures
<1>9. ASSUME NEW g \in Gameweeks, NEW value \in BOOLEAN, SetFinalized(g, value)
      PROVE  ScoresFollowFixtures'
  <2>1. /\ clock' = clock /\ UNCHANGED <<fixtures, scores>>
        /\ gameweek' = [gameweek EXCEPT ![g].finalized = value]
        /\ closedBy' = [closedBy EXCEPT ![g] = IF value THEN "admin" ELSE "reopened"]
    BY <1>9 DEF SetFinalized, sources, results
  <2>2. \A k \in Gameweeks : /\ gameweek'[k].dated = gameweek[k].dated
                             /\ closedBy'[k] = "nobody" => closedBy[k] = "nobody"
    BY <2>1 DEF IInv, TypeOK
  <2> QED BY <2>1, <2>2 DEF ScoresFollowFixtures
<1>10. ASSUME NEW m \in Managers, ConductStep(m)
       PROVE  ScoresFollowFixtures'
  BY <1>2, <1>10 DEF ConductStep, RemoveFromH2H, RemoveFromCompetition, UpdateManager, sources,
                     results, record
<1>11. CASE UNCHANGED vars
  BY <1>2, <1>11 DEF vars, sources, results, record
<1> QED BY <1>3, <1>4, <1>5, <1>6, <1>7, <1>8, <1>9, <1>10, <1>11
        DEF Next, Tick, Admin, ConductStep

\* What the readers rest on holds of every state.
LEMMA ReadInvariant == Spec => []ReadInv
<1>1. Init => ReadInv
  <2> SUFFICES ASSUME Init PROVE ReadInv
    OBVIOUS
  <2>1. \A g \in Gameweeks : \A f \in Schedule[g] : matches[g][f].status = "scheduled"
    BY DEF Init
  <2>2. \A g \in Gameweeks : \A m \in Managers : scores[g][m] = NoRow
    BY DEF Init
  <2>3. FootballWaits
    BY DEF Init, FootballWaits
  <2> QED BY <2>1, <2>2, <2>3 DEF ReadInv, ResultsAreExplained, ResultsFollowScores,
                                  ScoresFollowFixtures, Statuses
<1>2. IInv /\ ReadInv /\ [Next]_vars => ReadInv'
  BY ExplainedStep, FollowScoresStep, FootballWaitsStep, FollowFixturesStep DEF ReadInv
<1> QED BY <1>1, <1>2, Invariant, PTL DEF Spec

\* There are finitely many fixtures in a season.
LEMMA SeasonIsFinite ==
  ASSUME NEW S, S \subseteq Fixture
  PROVE  IsFiniteSet(S) /\ Cardinality(S) \in Nat
<1>1. IsFiniteSet(Gameweeks)
  BY FS_Interval, GameweeksAssumption DEF Gameweeks
<1>2. IsFiniteSet(Managers \X Managers)
  BY FS_Product, ManagersAssumption
<1>3. IsFiniteSet(Gameweeks \X (Managers \X Managers))
  BY <1>1, <1>2, FS_Product
<1>4. S \subseteq Gameweeks \X (Managers \X Managers)
  BY DEF Fixture
<1>5. IsFiniteSet(S)
  BY <1>3, <1>4, FS_Subset
<1> QED BY <1>5, FS_CardinalityType

\* A result that counts stays one, with its winner, while nothing is reopened: a
\* final one is locked with its Gameweek, and a walkover is settled again the same.
LEMMA ResultsKept ==
  ASSUME IInv, [Next]_vars, \A g \in Gameweeks : closedBy'[g] # "reopened",
         NEW g \in Gameweeks, NEW f \in Schedule[g], Completed(matches[g][f])
  PROVE  Completed(matches'[g][f]) /\ matches'[g][f].winner = matches[g][f].winner
<1>1. CASE matches' = matches
  BY <1>1
<1>2. ASSUME NEW k \in Gameweeks, NEW flags \in FlagRows,
             \A l \in Gameweeks : flags[l].finalized <=> gameweek[l].finalized,
             SourcesRead, ScoreAndSettle(k, flags), UNCHANGED <<clock, fpl, conduct>>
      PROVE  Completed(matches'[g][f]) /\ matches'[g][f].winner = matches[g][f].winner
  <2>1. /\ scores' \in [Gameweeks -> Rows] /\ gameweek' \in FlagRows
        /\ closedBy' \in [Gameweeks -> ClosedBy]
        /\ closedBy'[k] = closedBy[k] \/ closedBy'[k] = "rule"
    BY <1>2, TickOutcome
  <2>2. CASE k # g
    BY <1>2, <2>1, <2>2, TickMatches
  <2>3. CASE k = g /\ matches[g][f].status = "final"
    <3>1. closedBy[g] # "nobody"
      BY <2>3 DEF IInv, NothingFinalBeforeClosing
    <3>2. closedBy'[g] \in {"rule", "admin"}
      BY <2>1, <2>3, <3>1 DEF ClosedBy
    <3>3. gameweek'[g].finalized
      BY <3>2, StepInvariant DEF IInv, Bookkeeping
    <3>4. matches'[g][f] = Settled(f, matches[g][f], scores'[g], gameweek'[g].finalized)
      BY <1>2, <2>1, <2>3, TickMatches
    <3> QED BY <2>3, <3>3, <3>4 DEF Settled, Frozen
  <2>4. CASE k = g /\ matches[g][f].status = "walkover"
    <3>1. \/ matches[g][f].winner = f[2] /\ f[1] \in forfeits
          \/ matches[g][f].winner = f[1] /\ f[2] \in forfeits
      BY <2>4 DEF IInv, WalkoverAgainstForfeiter
    <3>2. matches'[g][f] = Settled(f, matches[g][f], scores'[g], gameweek'[g].finalized)
      BY <1>2, <2>1, <2>4, TickMatches
    <3>3. ~Frozen(matches[g][f], gameweek'[g].finalized)
      BY <2>4 DEF Frozen
    <3>4. \/ matches'[g][f] = matches[g][f]
          \/ matches'[g][f] = Walkover(matches[g][f].winner)
      BY <3>1, <3>2, <3>3 DEF Settled
    <3> QED BY <2>4, <3>4 DEF Walkover, Completed
  <2> QED BY <2>2, <2>3, <2>4 DEF Completed
<1> QED BY <1>1, <1>2, MatchesChangeBySettlement

\* Nothing is taken back in the H2H table while no Gameweek is reopened: whoever is
\* removed and whatever FPL corrects, everybody keeps his games and match points,
\* and who is not sanctioned himself keeps his table points (services/h2h.py).
THEOREM TablePointsStand == Spec => PointsStand
<1>1. ASSUME IInv, [Next]_vars, \A g \in Gameweeks : closedBy'[g] # "reopened",
             NEW m \in Managers
      PROVE  /\ MatchPoints(m)' >= MatchPoints(m)
             /\ Games(m) \subseteq Games(m)'
             /\ m \notin forfeits' => TablePoints(m)' >= TablePoints(m)
  <2>1. \A x \in Fixture : x[1] \in Gameweeks /\ x[2] \in Schedule[x[1]]
    BY DEF Fixture
  <2>2. \A x \in Games(m) : /\ x \in Fixture /\ Completed(Played(x[1], x[2])')
                            /\ Played(x[1], x[2])'.winner = Played(x[1], x[2]).winner
    BY <1>1, <2>1, ResultsKept DEF Games, Played
  <2>3. Games(m) \subseteq Games(m)'
    BY <2>2 DEF Games
  <2>4. Wins(m) \subseteq Wins(m)' /\ Draws(m) \subseteq Draws(m)'
    BY <2>2, <2>3 DEF Wins, Draws
  <2>5. /\ Wins(m) \subseteq Fixture /\ Wins(m)' \subseteq Fixture
        /\ Draws(m) \subseteq Fixture /\ Draws(m)' \subseteq Fixture
    BY DEF Wins, Draws, Games
  <2>6. /\ Cardinality(Wins(m)) \in Nat /\ Cardinality(Wins(m)') \in Nat
        /\ Cardinality(Draws(m)) \in Nat /\ Cardinality(Draws(m)') \in Nat
        /\ Cardinality(Wins(m)) <= Cardinality(Wins(m)')
        /\ Cardinality(Draws(m)) <= Cardinality(Draws(m)')
    BY <2>4, <2>5, SeasonIsFinite, FS_Subset
  <2>7. MatchPoints(m)' >= MatchPoints(m) /\ MatchPoints(m) \in Nat /\ MatchPoints(m)' \in Nat
    BY <2>6 DEF MatchPoints
  <2>8. forfeits \subseteq forfeits'
    BY <1>1, MatchesChangeBySettlement DEF conduct
  <2>9. m \notin forfeits' => Penalty(m) = 0 /\ Penalty(m)' = 0
    BY <2>8 DEF Penalty
  <2> QED BY <2>3, <2>7, <2>9 DEF TablePoints
<1>2. IInv /\ [Next]_vars =>
        [(\E g \in Gameweeks : closedBy'[g] = "reopened") \/ <<matches, forfeits>>' = <<matches, forfeits>>
          \/ \A m \in Managers : /\ MatchPoints(m)' >= MatchPoints(m)
                                 /\ Games(m) \subseteq Games(m)'
                                 /\ m \notin forfeits' => TablePoints(m)' >= TablePoints(m)]_vars
  BY <1>1
<1> QED BY <1>2, Invariant, PTL DEF Spec, PointsStand

\* A match of the season has a row of its type.
LEMMA RowsOfFixtures ==
  ASSUME IInv, NEW x \in Fixture
  PROVE  /\ x[1] \in Gameweeks /\ x[2] \in Schedule[x[1]]
         /\ x[2][1] \in Managers /\ x[2][2] \in Managers /\ x[2][1] # x[2][2]
         /\ Played(x[1], x[2]) \in MatchRow
BY ScheduleAssumption DEF Fixture, Played, IInv, TypeOK

\* The head of a settled match shows the scores it was settled with.
LEMMA HeadShowsTheRecord ==
  ASSUME IInv, ResultsAreExplained, NEW x \in Fixture,
         Played(x[1], x[2]).status \in Statuses
  PROVE  /\ PageHead(x[1], x[2]).home = Played(x[1], x[2]).home
         /\ PageHead(x[1], x[2]).away = Played(x[1], x[2]).away
         /\ Played(x[1], x[2]).home \in Points /\ Played(x[1], x[2]).away \in Points
<1>1. Played(x[1], x[2]).home \in Points /\ Played(x[1], x[2]).away \in Points
  BY RowsOfFixtures DEF ResultsAreExplained, Played
<1> QED BY <1>1, NoRowAssumption DEF PageHead, ShownScore

\* A page shows no winner its two scores do not make.
LEMMA WinnersAreExplained ==
  ASSUME IInv, ResultsAreExplained
  PROVE  ShownResultIsExplained
<1> SUFFICES ASSUME NEW x \in Fixture,
                    Played(x[1], x[2]).status \notin {"scheduled", "walkover"}
             PROVE  LET head == PageHead(x[1], x[2]) IN
                    Played(x[1], x[2]).winner
                      = IF head.home > head.away THEN x[2][1]
                        ELSE IF head.away > head.home THEN x[2][2] ELSE NoRow
  BY DEF ShownResultIsExplained
<1>1. Played(x[1], x[2]).status \in Statuses
  BY RowsOfFixtures DEF MatchRow
<1>2. x[1] \in Gameweeks /\ x[2] \in Schedule[x[1]]
  BY RowsOfFixtures
<1> QED BY <1>1, <1>2, HeadShowsTheRecord DEF ResultsAreExplained, Played

\* The state a page reads off the scores is the state of the result.
LEMMA HeadsAgree ==
  ASSUME IInv, ResultsFollowScores
  PROVE  HeadAgreesWithResult
<1> SUFFICES ASSUME NEW x \in Fixture, Eligible(x[2]), Played(x[1], x[2]).status # "scheduled"
             PROVE  Played(x[1], x[2]).status = LeastSettled(Beside(x[1], x[2]))
  BY DEF HeadAgreesWithResult, PageHead
<1> DEFINE row(m) == scores[x[1]][m]
<1>1. /\ x[1] \in Gameweeks /\ x[2] \in Schedule[x[1]]
      /\ x[2][1] \in Managers /\ x[2][2] \in Managers
  BY RowsOfFixtures
<1>2. /\ row(x[2][1]) # NoRow /\ row(x[2][2]) # NoRow
      /\ Played(x[1], x[2]).status = MatchStatus(row(x[2][1]).status, row(x[2][2]).status)
  BY <1>1 DEF ResultsFollowScores, Played
<1>3. Beside(x[1], x[2]) = {row(x[2][1]).status, row(x[2][2]).status}
  BY <1>2 DEF Beside
<1> HIDE DEF row
<1>4. LeastSettled({row(x[2][1]).status, row(x[2][2]).status})
        = MatchStatus(row(x[2][1]).status, row(x[2][2]).status)
  <2>1. ASSUME NEW a, NEW b PROVE LeastSettled({a, b}) = MatchStatus(a, b)
    BY DEF LeastSettled, MatchStatus
  <2> QED BY <2>1
<1> QED BY <1>2, <1>3, <1>4

\* Off a walkover, which counts no points, the table adds up what the pages show.
LEMMA TablesAgree ==
  ASSUME IInv, ResultsAreExplained
  PROVE  TableAgreesWithPages
<1> SUFFICES ASSUME NEW m \in Managers
             PROVE  LET locked    == {x \in Games(m) : Played(x[1], x[2]).status = "final"}
                        shown(x)  == PageHead(x[1], x[2])
                        ours      == [x \in locked |-> IF m = x[2][1] THEN shown(x).home ELSE shown(x).away]
                        theirs    == [x \in locked |-> IF m = x[2][1] THEN shown(x).away ELSE shown(x).home]
                    IN  /\ PointsFor(m) = SumFunctionOnSet(ours, locked)
                        /\ PointsAgainst(m) = SumFunctionOnSet(theirs, locked)
  BY DEF TableAgreesWithPages
<1> DEFINE games     == Games(m)
           locked    == {x \in games : Played(x[1], x[2]).status = "final"}
           ours      == [x \in locked |-> IF m = x[2][1] THEN PageHead(x[1], x[2]).home
                                          ELSE PageHead(x[1], x[2]).away]
           theirs    == [x \in locked |-> IF m = x[2][1] THEN PageHead(x[1], x[2]).away
                                          ELSE PageHead(x[1], x[2]).home]
           pointsFor     == [x \in games |-> Ours(m, x)]
           pointsAgainst == [x \in games |-> Theirs(m, x)]
<1>1. /\ games \subseteq Fixture /\ locked \in SUBSET games
      /\ \A x \in games : Played(x[1], x[2]).status \in {"final", "walkover"}
  BY DEF Games, Completed
<1>2. IsFiniteSet(games)
  BY <1>1, SeasonIsFinite
<1>3. Points \subseteq Int /\ 0 \in Points
  BY PointsAssumption DEF Points
<1>4. ASSUME NEW x \in games
      PROVE  /\ pointsFor[x] \in Int /\ pointsAgainst[x] \in Int
             /\ x \in locked => ours[x] = pointsFor[x] /\ theirs[x] = pointsAgainst[x]
             /\ x \notin locked => pointsFor[x] = 0 /\ pointsAgainst[x] = 0
  <2>1. x \in Fixture /\ x[1] \in Gameweeks /\ x[2] \in Schedule[x[1]]
    BY <1>1, RowsOfFixtures
  <2>2. CASE x \in locked
    <3>1. Played(x[1], x[2]).status \in Statuses
      BY <2>2 DEF Statuses
    <3>2. /\ PageHead(x[1], x[2]).home = Played(x[1], x[2]).home
          /\ PageHead(x[1], x[2]).away = Played(x[1], x[2]).away
          /\ Played(x[1], x[2]).home \in Int /\ Played(x[1], x[2]).away \in Int
      BY <1>3, <2>1, <3>1, HeadShowsTheRecord
    <3> QED BY <2>2, <3>2 DEF Ours, Theirs
  <2>3. CASE x \notin locked
    <3>1. Played(x[1], x[2]).status = "walkover"
      BY <1>1, <2>3
    <3>2. Played(x[1], x[2]).home = 0 /\ Played(x[1], x[2]).away = 0
      BY <2>1, <3>1 DEF ResultsAreExplained, Played
    <3> QED BY <2>3, <3>2 DEF Ours, Theirs
  <2> QED BY <2>2, <2>3
<1>5. PointsFor(m) = SumFunctionOnSet(pointsFor, games)
      /\ PointsAgainst(m) = SumFunctionOnSet(pointsAgainst, games)
  BY DEF PointsFor, PointsAgainst
<1>6. SumFunctionOnSet(pointsFor, games) = SumFunctionOnSet(ours, locked)
  <2> HIDE DEF games, locked, ours, theirs, pointsFor, pointsAgainst
  <2> QED BY <1>1, <1>2, <1>4, SumOfTheSame
<1>7. SumFunctionOnSet(pointsAgainst, games) = SumFunctionOnSet(theirs, locked)
  <2> HIDE DEF games, locked, ours, theirs, pointsFor, pointsAgainst
  <2> QED BY <1>1, <1>2, <1>4, SumOfTheSame
<1> QED BY <1>5, <1>6, <1>7

\* The Gameweek on display is a Gameweek.
LEMMA DisplayedIsAGameweek == Status!OnDisplay(Season) \in Gameweeks
<1>1. Gameweeks \subseteq Nat /\ Gameweeks \subseteq 0..LastGameweek /\ LastGameweek \in Nat
      /\ Gameweeks # {}
  BY GameweeksAssumption DEF Gameweeks
<1>2. DOMAIN Season = Gameweeks
  BY DEF Season
<1>3. ASSUME NEW weeks, weeks \subseteq Gameweeks, weeks # {}
      PROVE  Status!Latest(weeks) \in weeks /\ Status!Earliest(weeks) \in weeks
  <2>1. \E g \in weeks : \A h \in weeks : h <= g
    BY <1>1, <1>3, GreatestNumber
  <2>2. \E g \in weeks : \A h \in weeks : g <= h
    BY <1>1, <1>3, LeastNumber
  <2> QED BY <2>1, <2>2 DEF Status!Latest, Status!Earliest
<1>4. Status!Underway(Season) \subseteq Gameweeks /\ Status!ToCome(Season) \subseteq Gameweeks
  BY <1>2 DEF Status!Underway, Status!ToCome, Status!Dated
<1> QED BY <1>1, <1>2, <1>3, <1>4 DEF Status!OnDisplay

\* The greeting says of the current Gameweek what its scores say.
LEMMA GreetingsAgree ==
  ASSUME IInv, ScoresFollowFixtures
  PROVE  PagesAgree
<1> SUFFICES ASSUME Greeting.week = clock, closedBy[clock] = "nobody",
                    NEW m \in Managers, scores[clock][m] # NoRow, Greeting.state # "final"
             PROVE  scores[clock][m].status = Greeting.state
  BY DEF PagesAgree
<1>1. clock \in Gameweeks \cup {0} /\ NoRow # 0
  BY NoRowAssumption, PointsAssumption DEF IInv, TypeOK, Points
<1>2. ASSUME clock \in Gameweeks
      PROVE  /\ gameweek[clock].dated /\ Started(fixtures[clock])
             /\ scores[clock][m].status = ScoreState(FALSE, fixtures[clock])
  BY <1>2 DEF ScoresFollowFixtures, IInv, NoScoreBeforeKickOff
<1>3. CASE \A g \in Gameweeks : ~gameweek[g].dated
  <2>1. Greeting.week = NoRow
    BY <1>3 DEF Greeting
  <2> QED BY <1>1, <1>2, <1>3, <2>1
<1>4. CASE \E g \in Gameweeks : gameweek[g].dated
  <2> DEFINE nothing == \A h \in DOMAIN Season : ~Season[h].finished
  <2>1. Greeting = Status!FromTables(Season)
    BY <1>4 DEF Greeting
  <2>2. /\ Status!OnDisplay(Season) = clock
        /\ Greeting.state = Status!StateOf(clock, Season[clock].finished, Season[clock].stage, nothing)
    BY <2>1 DEF Status!FromTables
  <2>3. clock \in Gameweeks
    BY <2>2, DisplayedIsAGameweek
  <2>4. Season[clock].stage = IF fixtures[clock] = "played" THEN "played" ELSE "live"
    BY <1>2, <2>3 DEF Season
  <2> HIDE DEF nothing
  <2>5. Greeting.state = IF fixtures[clock] = "played" THEN "provisional" ELSE "live"
    BY <2>2, <2>4 DEF Status!StateOf
  <2> QED BY <1>2, <2>3, <2>5 DEF ScoreState
<1> QED BY <1>3, <1>4

\* The H2H table, the page of every match and the greeting, asked at one moment, tell
\* one story, for any league and season (services/h2h.py, matchup.py, fpl.py).
THEOREM ReadersTellOneStory == Spec => []ReadersAgree
<1>1. IInv /\ ReadInv => ReadersAgree
  BY WinnersAreExplained, HeadsAgree, TablesAgree, GreetingsAgree DEF ReadInv, ReadersAgree
<1> QED BY <1>1, Invariant, ReadInvariant, PTL
=============================================================================
