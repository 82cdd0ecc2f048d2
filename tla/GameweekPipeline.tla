--------------------------- MODULE GameweekPipeline ---------------------------
(***************************************************************************)
(* One scheduled synchronisation, from the answers FPL gives to the H2H    *)
(* results the league reads: ingestion, scoring, finalization, re-scoring  *)
(* and settlement, in the order services/sync_orchestrator.py runs them.   *)
(*                                                                         *)
(* A tick is one database transaction under one advisory lock, so it is    *)
(* one action here: it commits whole or not at all.                        *)
(*                                                                         *)
(* What is abstracted.  The footballers of a Gameweek are one              *)
(* representative element, worth points[g]; a squad either counts it or    *)
(* leaves it on the bench, which is what an automatic substitution         *)
(* changes.  Transfer costs, fixed at the deadline and subtracted from     *)
(* every figure alike, are left out, so net and gross coincide.  The       *)
(* fixtures of a Gameweek are one progress value.                          *)
(***************************************************************************)
EXTENDS Integers, FiniteSets

CONSTANTS
  Managers,      \* who may be entered for the season
  LastGameweek,  \* the season's Gameweeks are 1..LastGameweek
  MaxPoints,     \* bound on the points of the representative element
  Benched,       \* managers whose squad fields it only after an auto-sub
  Schedule,      \* [Gameweeks -> set of <<home, away>>]
  Answers,       \* the ways FPL may answer the requests of one tick
  NoRow          \* no such row in the database

Gameweeks == 1..LastGameweek
Stages    == {"upcoming", "playing", "partly", "played"}
Points    == 0..MaxPoints
Statuses  == {"live", "provisional", "final"}
ClosedBy  == {"nobody", "rule", "admin", "reopened"}

\* What active_status and registration_status come to: suspended is suspended or
\* pending review, out is removed, locked, deleted or not confirmed.
Standings == {"active", "suspended", "out"}
ScoreRow  == [net : Points, status : Statuses]
MatchRow  == [status : {"scheduled", "walkover"} \cup Statuses,
              home : Points \cup {NoRow}, away : Points \cup {NoRow},
              winner : Managers \cup {NoRow}]

(* squads and history are the managers whose own request was made and      *)
(* answered: the rest failed, or were outside this tick's batch.  A        *)
(* payload may also fail its schema, a manager's too (badSquads,           *)
(* badHistory): it stores nothing and its job is quarantined.              *)
Payload    == {"read", "failed", "quarantined"}
AllAnswers == {a \in [bootstrap : Payload, fixtures : Payload, live : Payload,
                      squads : SUBSET Managers, badSquads : SUBSET Managers,
                      history : SUBSET Managers, badHistory : SUBSET Managers] :
                 a.squads \cap a.badSquads = {} /\ a.history \cap a.badHistory = {}}

ASSUME GameweeksAssumption == LastGameweek \in Nat \ {0}
ASSUME ManagersAssumption  == IsFiniteSet(Managers) /\ Benched \subseteq Managers
ASSUME PointsAssumption    == MaxPoints \in Nat
ASSUME AnswersAssumption   == Answers \subseteq AllAnswers
ASSUME ScheduleAssumption  ==
  /\ Schedule \in [Gameweeks -> SUBSET (Managers \X Managers)]
  /\ \A g \in Gameweeks : \A f \in Schedule[g] : f[1] # f[2]
ASSUME NoRowAssumption     ==
  /\ NoRow \notin Points /\ NoRow \notin BOOLEAN /\ NoRow \notin Managers
  /\ NoRow \notin Stages /\ NoRow \notin ScoreRow /\ NoRow \notin Gameweeks

VARIABLES
  clock,         \* how many Gameweek deadlines have passed
  fpl,           \* what FPL shows, per Gameweek (external)
  gameweek,      \* gameweeks: deadline and flags as mirrored, is_finalized
  fixtures,      \* fpl_fixtures: the mirrored progress
  stats,         \* fpl_player_fixture_stats: the mirrored points
  squads,        \* manager_pick_snapshots: does the newest revision count it
  history,       \* manager_gameweek_history: the mirrored published total
  scores,        \* manager_gameweek_scores
  matches,       \* h2h_matches
  quarantined,   \* the Gameweeks, or none, of the sync_runs rows that are quarantined
  forfeits,      \* managers with a removed_from_h2h ledger row
  standing,      \* how each manager takes part
  closedBy,      \* who last closed or reopened each Gameweek (the audit trail)
  awaited        \* history: who was expected when the gate last closed it

sources == <<fixtures, stats, squads, history, quarantined>>
results == <<scores, matches>>
conduct == <<forfeits, standing>>
record  == <<closedBy, awaited>>
vars    == <<clock, fpl, gameweek, sources, results, conduct, record>>

-----------------------------------------------------------------------------
(* Reading the tables. *)

Started(stage)  == stage \in {"playing", "partly", "played"}
SomeOver(stage) == stage \in {"partly", "played"}

\* The managers a Gameweek may not be closed without.
Expected == {m \in Managers : standing[m] # "out"}
Active   == {m \in Managers : standing[m] = "active"}

\* The total the squad and the live points on file add up to.
Derived(points, squad) == IF squad = TRUE THEN points ELSE 0

\* What FPL itself will publish for a manager once it catches up.
FplTotal(g, m) == Derived(fpl[g].points, m \in fpl[g].fielded)

Init ==
  /\ clock = 0
  /\ fpl = [g \in Gameweeks |->
              [stage |-> "upcoming", checked |-> FALSE, points |-> 0,
               fielded |-> Managers \ Benched,
               totals |-> [m \in Managers |-> 0]]]
  /\ gameweek = [g \in Gameweeks |-> [dated |-> FALSE, checked |-> FALSE,
                                      finalized |-> FALSE]]
  /\ fixtures = [g \in Gameweeks |-> NoRow]
  /\ stats = [g \in Gameweeks |-> 0]
  /\ squads = [g \in Gameweeks |-> [m \in Managers |-> NoRow]]
  /\ history = [g \in Gameweeks |-> [m \in Managers |-> NoRow]]
  /\ scores = [g \in Gameweeks |-> [m \in Managers |-> NoRow]]
  /\ matches = [g \in Gameweeks |->
                  [f \in Schedule[g] |->
                     [status |-> "scheduled", home |-> NoRow, away |-> NoRow,
                      winner |-> NoRow]]]
  /\ quarantined = {}
  /\ forfeits = {}
  /\ standing = [m \in Managers |-> "active"]
  /\ closedBy = [g \in Gameweeks |-> "nobody"]
  /\ awaited = [g \in Gameweeks |-> {}]

-----------------------------------------------------------------------------
(* FPL, the environment. Points only grow, so a correction is a new value. *)

FplUnchanged == UNCHANGED <<gameweek, sources, results, conduct, record>>

DeadlinePasses ==
  /\ clock + 1 \in Gameweeks
  /\ clock \in Gameweeks => fpl[clock].stage = "played"
  /\ clock' = clock + 1
  /\ UNCHANGED fpl /\ FplUnchanged

Progress(g) ==
  /\ g <= clock
  /\ \E step \in {<<"upcoming", "playing">>, <<"playing", "partly">>,
                  <<"partly", "played">>} :
       /\ fpl[g].stage = step[1]
       /\ fpl' = [fpl EXCEPT ![g].stage = step[2]]
  /\ UNCHANGED clock /\ FplUnchanged

\* A goal, a bonus point, or a correction after the data was checked.
Goal(g) ==
  /\ Started(fpl[g].stage)
  /\ fpl[g].points < MaxPoints
  /\ fpl' = [fpl EXCEPT ![g].points = @ + 1]
  /\ UNCHANGED clock /\ FplUnchanged

AutoSub(g, m) ==
  /\ fpl[g].stage = "played" /\ ~fpl[g].checked
  /\ m \notin fpl[g].fielded
  /\ fpl' = [fpl EXCEPT ![g].fielded = @ \cup {m}]
  /\ UNCHANGED clock /\ FplUnchanged

\* The published totals trail the live feed and catch up in one go.
PublishTotals(g) ==
  /\ Started(fpl[g].stage)
  /\ fpl' = [fpl EXCEPT ![g].totals = [m \in Managers |-> FplTotal(g, m)]]
  /\ UNCHANGED clock /\ FplUnchanged

\* finished and data_checked go up.
CheckData(g) ==
  /\ fpl[g].stage = "played" /\ ~fpl[g].checked
  /\ fpl[g].fielded = Managers
  /\ \A m \in Managers : fpl[g].totals[m] = FplTotal(g, m)
  /\ fpl' = [fpl EXCEPT ![g].checked = TRUE]
  /\ UNCHANGED clock /\ FplUnchanged

Fpl == \/ DeadlinePasses
       \/ \E g \in Gameweeks : \/ Progress(g) \/ Goal(g) \/ PublishTotals(g)
                               \/ CheckData(g)
       \/ \E g \in Gameweeks, m \in Managers : AutoSub(g, m)

-----------------------------------------------------------------------------
(* Scoring. *)

\* Slips: the last whistle taken for the closing; kick-off not waited for.
FinalAtFullTime(finalized, stage) ==
  IF finalized \/ stage = "played" THEN "final"
  ELSE IF ~Started(stage) THEN "upcoming" ELSE "live"

ScoredBeforeKickOff(finalized, stage) ==
  IF finalized THEN "final"
  ELSE IF stage = "played" THEN "provisional" ELSE "live"

ScoreState(finalized, stage) ==
  IF finalized THEN "final"
  ELSE IF ~Started(stage) THEN "upcoming"
  ELSE IF stage = "played" THEN "provisional" ELSE "live"

\* A manager is scored from a squad, from published history, or not at all.
OnFile(squad, total) == squad # NoRow \/ total # NoRow

\* While the football is on, the derived total is the fresher of the two.
Authority(total, state) == IF state = "live" THEN NoRow ELSE total

Net(points, squad, total, state) ==
  IF Authority(total, state) = NoRow THEN Derived(points, squad) ELSE total

Disputed(points, squad, total, state) ==
  /\ state # "upcoming"
  /\ Authority(total, state) # NoRow
  /\ total # Derived(points, squad)

\* Rows are written whatever the state, the final one included.
Scored(rows, points, sq, hist, state) ==
  [m \in Managers |->
     IF state = "upcoming" \/ ~OnFile(sq[m], hist[m]) THEN rows[m]
     ELSE [net |-> Net(points, sq[m], hist[m], state), status |-> state]]

(* Finalization: every condition of the gate, in the order it refuses. *)

\* A slip: those who are out still waited for.
GateForEverybody(flags, stage, rows, disputes, tainted) ==
  /\ ~flags.finalized /\ flags.checked /\ stage = "played"
  /\ \A m \in Managers : rows[m] # NoRow
  /\ disputes = {} /\ ~tainted

GateOpen(flags, stage, rows, disputes, tainted) ==
  /\ ~flags.finalized
  /\ flags.checked
  /\ stage = "played"
  /\ \A m \in Expected : rows[m] # NoRow
  /\ disputes = {}
  /\ ~tainted

\* A slip: the closing tick does not score again.
NotRescored(closes, rows, points, sq, hist) == rows

Rescored(closes, rows, points, sq, hist) ==
  IF closes THEN Scored(rows, points, sq, hist, "final") ELSE rows

(* Settlement. *)

\* A slip: a match that is not final is live.
FinalOrLive(a, b) == IF {a, b} = {"final"} THEN "final" ELSE "live"

\* A match is only as settled as the least settled side's score.
MatchStatus(a, b) == IF "live" \in {a, b} THEN "live"
                     ELSE IF "provisional" \in {a, b} THEN "provisional"
                     ELSE "final"

\* A slip: the away side's margin read as the home side's.
OnPointsReversed(f, home, away) ==
  [status |-> MatchStatus(home.status, away.status),
   home |-> home.net, away |-> away.net,
   winner |-> IF away.net > home.net THEN f[1]
              ELSE IF home.net > away.net THEN f[2] ELSE NoRow]

OnPoints(f, home, away) ==
  [status |-> MatchStatus(home.status, away.status),
   home |-> home.net, away |-> away.net,
   winner |-> IF home.net > away.net THEN f[1]
              ELSE IF away.net > home.net THEN f[2] ELSE NoRow]

Walkover(winner) ==
  [status |-> "walkover", home |-> 0, away |-> 0, winner |-> winner]

\* A slip: nothing is locked.
NeverFrozen(match, finalized) == FALSE

Frozen(match, finalized) == match.status = "final" /\ finalized

\* A slip: the walkover goes to the side that was removed.
WalkoverToForfeiter(f, match, rows, finalized) ==
  IF Frozen(match, finalized) \/ {f[1], f[2]} \subseteq forfeits THEN match
  ELSE IF f[1] \in forfeits THEN Walkover(f[1])
  ELSE IF f[2] \in forfeits THEN Walkover(f[2])
  ELSE IF rows[f[1]] = NoRow \/ rows[f[2]] = NoRow THEN match
  ELSE OnPoints(f, rows[f[1]], rows[f[2]])

\* Two forfeits go to review and leave the result on file as it stands.
Settled(f, match, rows, finalized) ==
  IF Frozen(match, finalized) \/ {f[1], f[2]} \subseteq forfeits THEN match
  ELSE IF f[1] \in forfeits THEN Walkover(f[2])
  ELSE IF f[2] \in forfeits THEN Walkover(f[1])
  ELSE IF rows[f[1]] = NoRow \/ rows[f[2]] = NoRow THEN match
  ELSE OnPoints(f, rows[f[1]], rows[f[2]])

-----------------------------------------------------------------------------
(* One tick. *)

Flags(a) == [g \in Gameweeks |->
  IF a.bootstrap = "read"
  THEN [gameweek[g] EXCEPT !.dated = TRUE, !.checked = fpl[g].checked]
  ELSE gameweek[g]]

FixtureTable(a) == [g \in Gameweeks |->
  IF a.fixtures = "read" THEN fpl[g].stage ELSE fixtures[g]]

\* The highest Gameweek whose deadline has passed, and no other, is worked on.
IsCurrent(g, flags) ==
  /\ g <= clock /\ flags[g].dated
  /\ \A k \in Gameweeks : k <= clock /\ flags[k].dated => k <= g

NothingDue(flags) == \A g \in Gameweeks : ~(g <= clock /\ flags[g].dated)

\* History is read once football is over, or while rows are missing for it.
HistoryPlanned(g, stage) ==
  \/ SomeOver(stage)
  \/ Cardinality(Active) > Cardinality({m \in Managers : history[g][m] # NoRow})

ReadSquads(g, a) ==
  [squads EXCEPT ![g] = [m \in Managers |->
     IF m \in a.squads \cap Expected THEN m \in fpl[g].fielded ELSE @[m]]]

\* An entry's history carries every Gameweek it has played so far.
ReadHistory(g, stage, a) ==
  [k \in Gameweeks |-> [m \in Managers |->
     IF HistoryPlanned(g, stage) /\ m \in a.history \cap Expected /\ k <= clock
     THEN fpl[k].totals[m] ELSE history[k][m]]]

ReadLive(g, stage, a) ==
  [stats EXCEPT ![g] =
     IF Started(stage) /\ a.live = "read" THEN fpl[g].points ELSE @]

LiveQuarantine(stage, a) == Started(stage) /\ a.live = "quarantined"

\* The quarantined runs of a tick, by the Gameweek they are filed under: only those of
\* live points and squads have one, and the gate looks for no other.
CatalogTaint(answer) == IF answer = "quarantined" THEN {NoRow} ELSE {}

LiveTaint(g, stage, a) == IF LiveQuarantine(stage, a) THEN {g} ELSE {}

ManagersTaint(g, stage, a) ==
  (IF a.badSquads \cap Expected # {} THEN {g} ELSE {}) \cup
  (IF HistoryPlanned(g, stage) /\ a.badHistory \cap Expected # {} THEN {NoRow} ELSE {})

(* What every tick that reaches a Gameweek ends with.  The sources of this  *)
(* tick are already in the primed variables.                                *)
ScoreAndSettle(g, flags) ==
  LET state    == ScoreState(flags[g].finalized, fixtures'[g])
      rows     == Scored(scores[g], stats'[g], squads'[g], history'[g], state)
      disputes == {m \in Managers :
                     Disputed(stats'[g], squads'[g][m], history'[g][m], state)}
      closes   == GateOpen(flags[g], fixtures'[g], rows, disputes,
                           g \in quarantined')
  IN /\ scores' = [scores EXCEPT ![g] =
                     Rescored(closes, rows, stats'[g], squads'[g], history'[g])]
     /\ gameweek' = [flags EXCEPT ![g].finalized = @ \/ closes]
     /\ closedBy' = [closedBy EXCEPT ![g] = IF closes THEN "rule" ELSE @]
     /\ awaited' = [awaited EXCEPT ![g] = IF closes THEN Expected ELSE @]
     /\ matches' = [matches EXCEPT ![g] =
                      [f \in Schedule[g] |->
                         Settled(f, matches[g][f], scores'[g],
                                 gameweek'[g].finalized)]]

FullTick(g, a) ==
  /\ IsCurrent(g, Flags(a))
  /\ fixtures' = FixtureTable(a)
  /\ squads' = ReadSquads(g, a)
  /\ stats' = ReadLive(g, fixtures'[g], a)
  /\ history' = ReadHistory(g, fixtures'[g], a)
  /\ quarantined' = quarantined \cup CatalogTaint(a.bootstrap) \cup CatalogTaint(a.fixtures)
                    \cup LiveTaint(g, fixtures'[g], a) \cup ManagersTaint(g, fixtures'[g], a)
  /\ ScoreAndSettle(g, Flags(a))
  /\ UNCHANGED <<clock, fpl, conduct>>

\* The minute tick reads the football and nothing a manager owns.
LiveTick(g, a) ==
  /\ IsCurrent(g, gameweek)
  /\ fixtures' = FixtureTable(a)
  /\ Started(fixtures'[g])
  /\ stats' = ReadLive(g, fixtures'[g], a)
  /\ quarantined' = quarantined \cup CatalogTaint(a.fixtures)
                    \cup LiveTaint(g, fixtures'[g], a)
  /\ UNCHANGED <<squads, history>>
  /\ ScoreAndSettle(g, gameweek)
  /\ UNCHANGED <<clock, fpl, conduct>>

\* Before the first deadline, and for a live tick with nothing in play.
CatalogTick(a) ==
  /\ NothingDue(Flags(a))
  /\ gameweek' = Flags(a)
  /\ fixtures' = FixtureTable(a)
  /\ quarantined' = quarantined \cup CatalogTaint(a.bootstrap) \cup CatalogTaint(a.fixtures)
  /\ UNCHANGED <<clock, fpl, stats, squads, history, results, conduct, record>>

QuietLiveTick(a) ==
  /\ \A g \in Gameweeks : IsCurrent(g, gameweek) => ~Started(FixtureTable(a)[g])
  /\ fixtures' = FixtureTable(a)
  /\ quarantined' = quarantined \cup CatalogTaint(a.fixtures)
  /\ UNCHANGED <<clock, fpl, gameweek, stats, squads, history, results, conduct, record>>

Tick == \E a \in Answers :
          \/ \E g \in Gameweeks : FullTick(g, a) \/ LiveTick(g, a)
          \/ CatalogTick(a) \/ QuietLiveTick(a)

-----------------------------------------------------------------------------
(* Administrators. *)

SetFinalized(g, value) ==
  /\ gameweek[g].finalized # value
  /\ gameweek' = [gameweek EXCEPT ![g].finalized = value]
  /\ closedBy' = [closedBy EXCEPT ![g] = IF value THEN "admin" ELSE "reopened"]
  /\ UNCHANGED <<clock, fpl, sources, results, conduct, awaited>>

\* The second confirmed violation, and the third.
RemoveFromH2H(m) ==
  /\ m \notin forfeits
  /\ forfeits' = forfeits \cup {m}
  /\ UNCHANGED <<clock, fpl, gameweek, sources, results, standing, record>>

RemoveFromCompetition(m) ==
  /\ m \in forfeits
  /\ standing' = [standing EXCEPT ![m] = "out"]
  /\ UNCHANGED <<clock, fpl, gameweek, sources, results, forfeits, record>>

\* The API sets a manager's status or registration, whatever the ledger says of him.
UpdateManager(m, value) ==
  /\ standing' = [standing EXCEPT ![m] = value]
  /\ UNCHANGED <<clock, fpl, gameweek, sources, results, forfeits, record>>

Admin == \/ \E g \in Gameweeks, value \in BOOLEAN : SetFinalized(g, value)
         \/ \E m \in Managers :
              \/ RemoveFromH2H(m) \/ RemoveFromCompetition(m)
              \/ \E value \in Standings : UpdateManager(m, value)

Next == Fpl \/ Tick \/ Admin
Spec == Init /\ [][Next]_vars

\* The schedule never stops calling, and FPL does answer in full sooner or later:
\* a full tick with every answer is not put off for ever.
EveryAnswer == [bootstrap |-> "read", fixtures |-> "read", live |-> "read",
                squads |-> Managers, badSquads |-> {},
                history |-> Managers, badHistory |-> {}]
FairSpec == Spec /\ WF_vars(\E g \in Gameweeks : FullTick(g, EveryAnswer))

-----------------------------------------------------------------------------
(* What must hold. *)

TypeOK ==
  /\ clock \in Gameweeks \cup {0}
  /\ fpl \in [Gameweeks -> [stage : Stages, checked : BOOLEAN, points : Points,
                            fielded : SUBSET Managers,
                            totals : [Managers -> Points]]]
  /\ gameweek \in [Gameweeks -> [dated : BOOLEAN, checked : BOOLEAN,
                                 finalized : BOOLEAN]]
  /\ fixtures \in [Gameweeks -> Stages \cup {NoRow}]
  /\ stats \in [Gameweeks -> Points]
  /\ squads \in [Gameweeks -> [Managers -> BOOLEAN \cup {NoRow}]]
  /\ history \in [Gameweeks -> [Managers -> Points \cup {NoRow}]]
  /\ scores \in [Gameweeks -> [Managers -> ScoreRow \cup {NoRow}]]
  /\ matches \in [Gameweeks -> UNION {[Schedule[g] -> MatchRow] : g \in Gameweeks}]
  /\ \A g \in Gameweeks : matches[g] \in [Schedule[g] -> MatchRow]
  /\ quarantined \subseteq Gameweeks \cup {NoRow}
  /\ forfeits \subseteq Managers /\ standing \in [Managers -> Standings]
  /\ closedBy \in [Gameweeks -> ClosedBy]
  /\ awaited \in [Gameweeks -> SUBSET Managers]

Eligible(f) == {f[1], f[2]} \cap forfeits = {}

\* Two eligible managers who are both on the score sheet.
Playable(f, rows) == Eligible(f) /\ rows[f[1]] # NoRow /\ rows[f[2]] # NoRow

\* The result on file is the one the rows on file give.
Agrees(f, match, rows) ==
  /\ match.home = rows[f[1]].net /\ match.away = rows[f[2]].net
  /\ match.winner = IF match.home > match.away THEN f[1]
                    ELSE IF match.away > match.home THEN f[2] ELSE NoRow

ClosesByRule(g) == ~gameweek[g].finalized /\ gameweek'[g].finalized
                   /\ closedBy'[g] = "rule"

\* A Gameweek the gate closed holds a score for everyone the league expected one
\* from when it closed, and whoever has a score in it, one who came back since
\* included, has a final one: nobody's absence is fixed as a result
\* (services/finalization.py).
RuleClosedIsComplete ==
  \A g \in Gameweeks : closedBy[g] = "rule" =>
    \A m \in Managers :
      /\ m \in awaited[g] => scores[g][m] # NoRow
      /\ scores[g][m] # NoRow => scores[g][m].status = "final"

\* The H2H table moves with the Gameweek: once the gate closes it, every match
\* between two eligible managers with a score is final, with no later tick needed
\* (services/sync_orchestrator.py re-scores before it settles).
RuleClosedMatchesFinal ==
  \A g \in Gameweeks : closedBy[g] = "rule" =>
    \A f \in Schedule[g] : Playable(f, scores[g]) => matches[g][f].status = "final"

\* Nothing is presented as settled before somebody has closed the Gameweek.
NothingFinalBeforeClosing ==
  \A g \in Gameweeks : closedBy[g] = "nobody" =>
    /\ \A m \in Managers : scores[g][m] # NoRow => scores[g][m].status # "final"
    /\ \A f \in Schedule[g] : matches[g][f].status # "final"

\* While nobody has closed it, a Gameweek in which no ball was kicked carries
\* no score: an absent score is never shown as a zero.
NoScoreBeforeKickOff ==
  \A g \in Gameweeks : closedBy[g] = "nobody" /\ ~Started(fixtures[g]) =>
    \A m \in Managers : scores[g][m] = NoRow

\* A Gameweek the gate closed needs nothing more: no score and no result in it
\* waits for a later tick.
ClosedByRuleIsSettled == RuleClosedIsComplete /\ RuleClosedMatchesFinal

\* Nothing is shown before its time: neither as settled nor, before a ball is
\* kicked, at all.
NothingEarly == NothingFinalBeforeClosing /\ NoScoreBeforeKickOff

\* A technical result only ever goes against a manager who was removed.
WalkoverAgainstForfeiter ==
  \A g \in Gameweeks : \A f \in Schedule[g] :
    matches[g][f].status = "walkover" =>
      \/ matches[g][f].winner = f[2] /\ f[1] \in forfeits
      \/ matches[g][f].winner = f[1] /\ f[2] \in forfeits

\* The record of who closed a week agrees with its flag, a score is backed by a
\* squad or by published history, and the mirror never shows football FPL does
\* not: what the invariants above rest on.
Bookkeeping ==
  \A g \in Gameweeks :
    /\ closedBy[g] \in {"rule", "admin"} <=> gameweek[g].finalized
    /\ \A m \in Managers : scores[g][m] # NoRow =>
         squads[g][m] # NoRow \/ history[g][m] # NoRow
    /\ Started(fixtures[g]) => Started(fpl[g].stage)

\* A locked result stands: whatever FPL corrects or the administrators decide
\* about a manager, a final match of a closed Gameweek keeps its result for as
\* long as the Gameweek stays closed.
FinalResultFrozen ==
  [][\A g \in Gameweeks : \A f \in Schedule[g] :
       matches[g][f].status = "final"
         /\ gameweek[g].finalized /\ gameweek'[g].finalized
       => matches'[g][f] = matches[g][f]]_vars

\* The tick that first closes a Gameweek leaves every match between eligible
\* managers with a score with the result its final scores give.
FirstClosingSettles ==
  [][\A g \in Gameweeks : ClosesByRule(g) /\ closedBy[g] = "nobody" =>
       \A f \in Schedule[g] : Playable(f, scores'[g]) =>
         Agrees(f, matches'[g][f], scores'[g])]_vars

\* FPL has finished with a Gameweek and its own figures agree.
FplSettled(g) == fpl[g].checked
                 /\ \A m \in Managers : fpl[g].totals[m] = FplTotal(g, m)

\* What may still hold a settled Gameweek open: a later deadline has moved the
\* synchroniser on, a source was quarantined, or the figures of a manager who is
\* out, and whom the league therefore no longer reads, disagree.
Superseded(g) == clock # g
Tainted(g)    == g \in quarantined
Orphaned(g)   == \E m \in Managers \ Expected :
                   Disputed(stats[g], squads[g][m], history[g][m], "provisional")

\* Nobody has to press anything: once FPL has finished with the current
\* Gameweek it is closed, unless one of those three or a restatement comes first.
SettledWeekCloses ==
  \A g \in Gameweeks :
    FplSettled(g) ~> \/ gameweek[g].finalized \/ ~FplSettled(g)
                     \/ Superseded(g) \/ Tainted(g) \/ Orphaned(g)

-----------------------------------------------------------------------------
(* What the documents, docstrings and tests say, and the code does not do.   *)

\* RULEBOOK 11, "A final snapshot is immutable": a final score row keeps its
\* points while its Gameweek stays closed.
FinalScoreImmutable ==
  [][\A g \in Gameweeks : \A m \in Managers :
       gameweek[g].finalized /\ gameweek'[g].finalized
         /\ scores[g][m] # NoRow /\ scores[g][m].status = "final"
       => scores'[g][m].net = scores[g][m].net]_vars

\* A Gameweek FPL has finished with closes without waiting for a human, even
\* when FPL finishes with it after the next deadline.
EveryWeekCloses ==
  \A g \in Gameweeks :
    FplSettled(g) ~> \/ gameweek[g].finalized \/ ~FplSettled(g)
                     \/ Tainted(g) \/ Orphaned(g) \/ closedBy[g] = "reopened"
=============================================================================
