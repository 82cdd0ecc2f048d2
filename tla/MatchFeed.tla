----------------------------- MODULE MatchFeed -----------------------------
(***************************************************************************)
(* How a season's fixtures and its players' figures reach the database     *)
(* (services/ingestion.py, _sync_fixtures and _sync_live; the plan of a    *)
(* tick, services/sync_orchestrator.py).  FPL serves its fixture list from *)
(* a cache that may be minutes behind, and the live feed of a Gameweek     *)
(* fresh; a fixture may be moved to another Gameweek, or to none, before   *)
(* it is played or when it is abandoned.  Players' rows are kept per       *)
(* Gameweek, fixture and player.  Both scopes of a tick read these two     *)
(* sources alike; one tick is one action (see ManagerFeed for the lock).   *)
(***************************************************************************)
EXTENDS Naturals, FiniteSets

CONSTANTS
  Fixtures, Players,
  Appears,    \* who is in the teams of which fixture
  OnFromStart,\* of those, the players on the pitch from kick-off
  Weeks,      \* numbers of the season's Gameweeks
  NoWeek,     \* the Gameweek of a fixture that has no date: none (0 stands for it)
  MaxClock,   \* bounds the minutes of a match
  MaxPoints,  \* bounds a player's points in a match
  NoRow

Stages    == {"upcoming", "playing", "over"}
Schedule  == [week : Weeks \cup {NoWeek}, stage : Stages, clock : 0..MaxClock]

ASSUME MatchFeedAssumption ==
  /\ IsFiniteSet(Fixtures) /\ IsFiniteSet(Players)
  /\ Appears \subseteq Fixtures \X Players
  /\ OnFromStart \subseteq Appears
  /\ \A f \in Fixtures : \E p \in Players : <<f, p>> \in OnFromStart
  /\ Weeks \subseteq Nat \ {0} /\ NoWeek = 0
  /\ MaxClock \in Nat /\ MaxPoints \in Nat
  /\ NoRow \notin Schedule

VARIABLES
  fpl,      \* each fixture as it is at FPL (external)
  earliest, \* the first Gameweek each fixture may still be played in (external)
  points,   \* each player's points in each fixture at FPL (external)
  cached,   \* the fixture list as FPL's cache serves it (external)
  current,  \* the Gameweek of the latest deadline
  fixtures, \* fpl_fixtures
  stats     \* fpl_player_fixture_stats

matchVars == <<fpl, earliest, points, cached, current, fixtures, stats>>

Unplayed(week) == [week |-> week, stage |-> "upcoming", clock |-> 0]
StatRows  == [week : Weeks, fixture : Fixtures, player : Players,
              minutes : 0..MaxClock, points : 0..MaxPoints]

-----------------------------------------------------------------------------
(* FPL. *)

KicksOff(f) ==
  /\ fpl[f].stage = "upcoming" /\ fpl[f].week = current
  /\ fpl' = [fpl EXCEPT ![f].stage = "playing"]
  /\ UNCHANGED <<earliest, points, cached, current, fixtures, stats>>

Minute(f) ==
  /\ fpl[f].stage = "playing" /\ fpl[f].clock < MaxClock
  /\ fpl' = [fpl EXCEPT ![f].clock = @ + 1]
  /\ UNCHANGED <<earliest, points, cached, current, fixtures, stats>>

FullTime(f) ==
  /\ fpl[f].stage = "playing"
  /\ fpl' = [fpl EXCEPT ![f].stage = "over"]
  /\ UNCHANGED <<earliest, points, cached, current, fixtures, stats>>

\* Points move while a match is played and, with the bonus, after it.
Scores(f, p, n) ==
  /\ fpl[f].stage # "upcoming" /\ <<f, p>> \in Appears
  /\ n # points[<<f, p>>]
  /\ points' = [points EXCEPT ![<<f, p>>] = n]
  /\ UNCHANGED <<fpl, earliest, cached, current, fixtures, stats>>

\* A fixture that is not over is moved or abandoned: it will be played from the
\* start, in this Gameweek or one yet to come if one is known; one abandoned in
\* play, not in this Gameweek again.
Moves(f, week) ==
  LET first == IF fpl[f].stage = "playing" THEN current + 1 ELSE earliest[f]
  IN
  /\ fpl[f].stage # "over" /\ week # fpl[f].week
  /\ week = NoWeek \/ (week >= current /\ week >= first)
  /\ fpl' = [fpl EXCEPT ![f] = Unplayed(week)]
  /\ earliest' = [earliest EXCEPT ![f] = first]
  /\ points' = [x \in Appears |-> IF x[1] = f THEN 0 ELSE points[x]]
  /\ UNCHANGED <<cached, current, fixtures, stats>>

DeadlinePasses ==
  /\ current + 1 \in Weeks
  /\ current' = current + 1
  /\ UNCHANGED <<fpl, earliest, points, cached, fixtures, stats>>

CacheRefreshes ==
  /\ cached # fpl
  /\ cached' = fpl
  /\ UNCHANGED <<fpl, earliest, points, current, fixtures, stats>>

-----------------------------------------------------------------------------
(* One tick. *)

\* The fixture list, if FPL answers.
Catalogue(answered) == IF answered THEN cached ELSE fixtures

HasMoved(f, catalogue) ==
  /\ fixtures[f] # NoRow
  /\ fixtures[f].week # NoWeek /\ fixtures[f].week # catalogue[f].week

\* A fixture that has moved leaves the Gameweek it was in.
WithoutMoved(catalogue) ==
  {s \in stats : ~(HasMoved(s.fixture, catalogue) /\ s.week = fixtures[s.fixture].week)}

Known(catalogue) ==
  {f \in Fixtures : catalogue[f] # NoRow /\ catalogue[f].week = current}

\* The live feed is worth reading once a match of the Gameweek has started.
LiveDue(catalogue) == \E f \in Known(catalogue) : catalogue[f].stage # "upcoming"

\* FPL lists no minutes for a player who has not been on: that is zero.
Minutes(x) == IF x \in OnFromStart THEN fpl[x[1]].clock ELSE 0

\* The live feed of the current Gameweek: everyone in its fixtures.
LiveFeed ==
  {[week |-> current, fixture |-> x[1], player |-> x[2],
    minutes |-> Minutes(x), points |-> points[x]] : x \in {y \in Appears : fpl[y[1]].week = current}}

\* A slip: a row is rewritten only when the minutes have moved.
SameInMinutes(r, s) == r.minutes = s.minutes

\* Nothing that is kept per row differs.
Same(r, s) == r.minutes = s.minutes /\ r.points = s.points

SameKey(r, s) == r.week = s.week /\ r.fixture = s.fixture /\ r.player = s.player

\* A slip: what FPL lists is stored, whether its fixture is known or not.
EveryoneListed(catalogue) == LiveFeed

\* A fixture the catalogue does not have in this Gameweek is left out - unless
\* the catalogue has none at all.
Usable(catalogue) ==
  {s \in LiveFeed : Known(catalogue) # {} => s.fixture \in Known(catalogue)}

\* Rows are inserted or, where they differ, rewritten; none is deleted.
Merged(rows, feed) ==
  {r \in rows : \A s \in feed : SameKey(r, s) => Same(r, s)} \cup
  {s \in feed : \A r \in rows : SameKey(r, s) => ~Same(r, s)}

Tick(listed, live) ==
  LET catalogue == Catalogue(listed)
      kept == IF listed THEN WithoutMoved(catalogue) ELSE stats
  IN
  /\ fixtures' = catalogue
  /\ stats' = IF live /\ LiveDue(catalogue) THEN Merged(kept, Usable(catalogue)) ELSE kept
  /\ UNCHANGED <<fpl, earliest, points, cached, current>>

-----------------------------------------------------------------------------
\* A season on file before its fixtures are, its first deadline passed.
MatchInit ==
  /\ fpl \in [Fixtures -> {Unplayed(w) : w \in Weeks}]
  /\ earliest = [f \in Fixtures |-> 1]
  /\ points = [x \in Appears |-> 0]
  /\ cached = fpl
  /\ current \in {w \in Weeks : \A v \in Weeks : w <= v}
  /\ fixtures = [f \in Fixtures |-> NoRow]
  /\ stats = {}

MatchNext ==
  \/ \E f \in Fixtures :
       \/ KicksOff(f) \/ Minute(f) \/ FullTime(f)
       \/ \E p \in Players, n \in 0..MaxPoints : Scores(f, p, n)
       \/ \E w \in Weeks \cup {NoWeek} : Moves(f, w)
  \/ DeadlinePasses
  \/ CacheRefreshes
  \/ \E listed, live \in BOOLEAN : Tick(listed, live)

MatchSpec == MatchInit /\ [][MatchNext]_matchVars

\* The cache is refreshed in the end, ticks keep coming, and neither source
\* fails for ever.
SourcesAnswer ==
  /\ WF_matchVars(CacheRefreshes)
  /\ WF_matchVars(Tick(TRUE, TRUE))

-----------------------------------------------------------------------------
(* What must hold. *)

MatchTypeOK ==
  /\ fpl \in [Fixtures -> Schedule] /\ cached \in [Fixtures -> Schedule]
  /\ earliest \in [Fixtures -> Nat]
  /\ points \in [Appears -> 0..MaxPoints]
  /\ current \in Weeks
  /\ fixtures \in [Fixtures -> Schedule \cup {NoRow}]
  /\ stats \subseteq StatRows

\* However fixtures move and whichever of the two sources is behind or fails, a
\* player's minutes and points are on file once, in the Gameweek the catalogue
\* has the fixture in ("otherwise the same minutes would be counted twice").
CountedOnce ==
  \A s \in stats :
    /\ fixtures[s.fixture] # NoRow /\ s.week = fixtures[s.fixture].week
    /\ \A r \in stats : r.fixture = s.fixture /\ r.player = s.player => r = s

\* Once FPL leaves the Gameweek's matches alone, the figures on file become its
\* own, late corrections included.
FiguresArrive ==
  <>[][UNCHANGED <<fpl, earliest, points, current>>]_matchVars =>
    <>[](\A x \in Appears :
           fpl[x[1]].week = current /\ fpl[x[1]].stage # "upcoming" =>
             \E s \in stats : /\ s.week = current /\ s.fixture = x[1] /\ s.player = x[2]
                              /\ s.points = points[x])
=============================================================================
