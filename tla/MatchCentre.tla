---------------------------- MODULE MatchCentre ----------------------------
(***************************************************************************)
(* What the page of an H2H match shows of two squads while the Gameweek is *)
(* played (services/matchup.py and domain/matchup.py), computed from the   *)
(* tables MatchFeed fills.                                                 *)
(***************************************************************************)
EXTENDS MatchFeed, Integers, FiniteSetsExt

CONSTANTS Home, Away \* a squad each: its players' published picks

ASSUME SquadAssumption ==
  \A squad \in {Home, Away} :
    /\ DOMAIN squad \subseteq Players
    /\ \A p \in DOMAIN squad :
         squad[p] \in [multiplier : 0..3, captain : BOOLEAN, position : 1..15]

-----------------------------------------------------------------------------
(* Where each player has got to. *)

InWeek(week) == {f \in Fixtures : fixtures[f] # NoRow /\ fixtures[f].week = week}

Rows(week, p) == {s \in stats : s.week = week /\ s.player = p}

PointsOf(week, p) == SumFunction([s \in Rows(week, p) |-> s.points])

\* His fixtures, by his rows: all of them, those started and those played out.
Progress(week, p) ==
  LET At(stages) == {s \in Rows(week, p) :
                       s.fixture \in InWeek(week) /\ fixtures[s.fixture].stage \in stages}
  IN [total    |-> Cardinality(Rows(week, p)),
      started  |-> Cardinality(At({"playing", "over"})),
      finished |-> Cardinality(At({"over"}))]

\* A slip: a match is behind us once it has kicked off.
NotStarted(progress) == Max({0, progress.total - progress.started})

Unresolved(progress) == Max({0, progress.total - progress.finished})

State(progress) ==
  IF progress.total = 0 \/ progress.started = 0 THEN "upcoming"
  ELSE IF progress.finished >= progress.total THEN "finished" ELSE "playing"

\* A slip: the fixture list's own minutes.
ListedClock(week, f) == fixtures[f].clock

\* How far into a match we are: the fixture list or the players' minutes,
\* whichever is further along.
ShownClock(week, f) ==
  Max({fixtures[f].clock} \cup {s.minutes : s \in {r \in stats : r.week = week /\ r.fixture = f}})

\* The matches his club has this Gameweek, by the catalogue.
PlayerFixtures(week, p) ==
  {[fixture |-> f, minutes |-> ShownClock(week, f), started |-> fixtures[f].stage # "upcoming",
    playedOut |-> fixtures[f].stage = "over"] : f \in {g \in InWeek(week) : <<g, p>> \in Appears}}

-----------------------------------------------------------------------------
(* The two squads side by side. *)

\* Who wears the armband: a raised multiplier, then the captain, then the order
\* of the squad.
EffectiveCaptain(squad) ==
  {p \in DOMAIN squad :
     /\ squad[p].multiplier > 1
     /\ \A q \in DOMAIN squad \ {p} :
          \/ squad[p].multiplier > squad[q].multiplier
          \/ /\ squad[p].multiplier = squad[q].multiplier
             /\ \/ squad[p].captain /\ ~squad[q].captain
                \/ /\ squad[p].captain <=> squad[q].captain
                   /\ squad[p].position < squad[q].position}

Multiplier(squad, p) == IF p \in DOMAIN squad THEN Max({0, squad[p].multiplier}) ELSE 0

Fielded(squad) == {p \in DOMAIN squad : squad[p].multiplier > 0}

\* A slip: a player counts only if both sides have not benched him.
OnlyBothFielded == Fielded(Home) \cap Fielded(Away)

\* A player both sides bench, or neither has, is left out.
Compared == Fielded(Home) \cup Fielded(Away)

Line(week, p) ==
  [player     |-> p,
   net        |-> Multiplier(Home, p) - Multiplier(Away, p),
   swing      |-> PointsOf(week, p) * (Multiplier(Home, p) - Multiplier(Away, p)),
   unresolved |-> Unresolved(Progress(week, p)),
   state      |-> State(Progress(week, p)),
   armband    |-> {side \in {"home", "away"} :
                     p \in EffectiveCaptain(IF side = "home" THEN Home ELSE Away)}]

Lines(week) == {Line(week, p) : p \in Compared}

Entry(squad, week, p) ==
  [player     |-> p,
   points     |-> PointsOf(week, p),
   multiplier |-> squad[p].multiplier,
   state      |-> State(Progress(week, p)),
   unresolved |-> Unresolved(Progress(week, p)),
   fixtures   |-> PlayerFixtures(week, p)]

Squad(squad, week) == {Entry(squad, week, p) : p \in DOMAIN squad}

Contribution(squad, week) ==
  SumFunction([e \in Squad(squad, week) |-> e.points * e.multiplier])

\* What a side still has to play for: players, multipliers and matches.
Remaining(squad, week) ==
  LET left == {p \in Fielded(squad) : Unresolved(Progress(week, p)) > 0}
  IN [players   |-> Cardinality(left),
      effective |-> SumFunction([p \in left |-> squad[p].multiplier]),
      fixtures  |-> SumFunction([p \in left |-> Unresolved(Progress(week, p))])]

-----------------------------------------------------------------------------
(* What must hold. *)

\* The differentials explain the margin, and nothing else does: their swings
\* add up to the difference between what the two lists of players add up to
\* (domain/matchup.py: "the quantity that carries all of it").
MarginIsTheSwings ==
  \A week \in Weeks :
    SumFunction([l \in {n \in Lines(week) : n.net # 0} |-> l.swing])
      = Contribution(Home, week) - Contribution(Away, week)

\* What the catalogue says is still to be played, and whether FPL has listed a
\* player for all his matches.
Open(week, p)   == {f \in PlayerFixtures(week, p) : ~f.playedOut}
Listed(week, p) ==
  {f.fixture : f \in PlayerFixtures(week, p)} \subseteq {s.fixture : s \in Rows(week, p)}

\* Once FPL has listed the players, what the page counts as left to play is what
\* it lists as not played out (RULEBOOK.md: "players_remaining counts distinct
\* players with at least one unresolved fixture"), and nobody whose matches have
\* ended is shown as playing - though the counts rest on the players' rows, the
\* lists on the catalogue, and fixtures move.
CountsAgree ==
  \A week \in Weeks :
    /\ \A entry \in Squad(Home, week) \cup Squad(Away, week) :
         Listed(week, entry.player) =>
           /\ entry.unresolved = Cardinality(Open(week, entry.player))
           /\ entry.state = "playing" => Open(week, entry.player) # {}
           /\ entry.state = "finished" => Open(week, entry.player) = {}
    /\ \A side \in 1..2 :
         LET squad == <<Home, Away>>[side]
             due   == {p \in Fielded(squad) : Open(week, p) # {}}
         IN (\A p \in Fielded(squad) : Listed(week, p)) =>
              Remaining(squad, week) =
                [players   |-> Cardinality(due),
                 effective |-> SumFunction([p \in due |-> squad[p].multiplier]),
                 fixtures  |-> SumFunction([p \in due |-> Cardinality(Open(week, p))])]

\* The sums of the page: its margin and what it says is left to play.
PageAddsUp == MarginIsTheSwings /\ CountsAgree

\* However far the fixture list is behind, a tick that has read the live feed
\* shows the minute it is, and no tick turns a match's clock back.
ClockTellsTheTime ==
  [][\A f \in Fixtures :
       fixtures[f] # NoRow /\ fixtures'[f].week = fixtures[f].week /\ fixtures[f].week # NoWeek =>
         /\ ShownClock(fixtures[f].week, f)' >= ShownClock(fixtures[f].week, f)
         /\ /\ \E listed \in BOOLEAN : Tick(listed, TRUE)
            /\ fixtures'[f].week = current /\ fpl[f].week = current
            /\ LiveDue(fixtures')
            => ShownClock(current, f)' = fpl[f].clock]_matchVars
=============================================================================
