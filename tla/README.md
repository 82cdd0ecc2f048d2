# Formal model of the VMF league tool

TLA+ specifications of the Văn Minh Fantasy League API (`src/services/api`),
the TLC configurations that check them on small instances, and proofs of their
main theorems for TLAPS. The code is the reference: each definition that models
code is listed in `PROJECT.json` under `map` with the lines it stands for.

## 1. The system

46 managers play Fantasy Premier League (FPL). A scheduled synchronisation
mirrors what FPL publishes into PostgreSQL, scores each Gameweek from it, closes
the Gameweek once FPL has finished with it, and settles the head-to-head (H2H)
matches. On top of the scores stand two Classic divisions with an exchange of
six and six after Gameweek 19, two Cups, an H2H table with penalties, and a
disciplinary process in which administrators decide cases that detection raises.

| Component | State | Operations | Interacts with |
|---|---|---|---|
| Synchronisation tick (`services/sync_orchestrator.py`) | none of its own | `run_scheduled_sync` (full, live), `_build_plan` | calls ingestion, scoring, gate, scoring again, settlement, detection; one database transaction, one advisory lock (`services/cron.py`) |
| Ingestion (`services/ingestion.py`, `services/raw_store.py`) | `gameweeks` flags, `fpl_fixtures`, `fpl_player_fixture_stats`, pick snapshots and their revisions, `manager_gameweek_history`, `raw_fpl_responses`, `sync_runs` | one job per FPL endpoint; each failed request keeps the old rows; a payload of another shape quarantines the job; squads and histories are read in batches, the longest unread first | FPL over HTTP |
| FPL client and parsers (`integrations/fpl.py`, `integrations/fpl_parsers.py`, `domain/chips.py`) | none | one request and its retries, parsing, paging | ingestion, imports |
| Scoring (`services/scoring.py`, `domain/gameweek_scoring.py`) | `manager_gameweek_scores` | `score_gameweek` | reads the mirror, the Gameweek's flag |
| Gate (`services/finalization.py`) | `gameweeks.is_finalized`, audit trail | `finalize_if_settled` | reads scores, mirror, quarantines, manager statuses |
| H2H settlement (`services/h2h_settlement.py`, `domain/h2h_result.py`) | `h2h_matches` | `settle_gameweek` | reads scores, the H2H removals |
| Discipline (`services/violations.py`, `domain/violations.py`) | `violations`, `violation_threshold_actions`, `h2h_penalties`, `managers.active_status` | detection (in a tick), review (an HTTP request), thresholds | ticks and requests run in separate transactions, at READ COMMITTED |
| Manager registration (`services/managers.py`, `api/routes/managers.py`) | `managers` | `POST /managers`: a manager with a division and no membership; `PATCH /managers/{id}`: division, `active_status`, `registration_status` set directly | writes what the ledger and the memberships write; read by every component that asks who takes part |
| Administration (`services/admin.py`) | `admin_decisions` | finalize, reopen, review | writes the gate's flag and the cases |
| Cups (`services/cups.py`, `domain/cup.py`, `domain/cup_bracket.py`) | `cup_competitions`, `cup_rounds`, `cup_matches` | generate, advance a round | reads scores, the gate's flag, confirmed violations, manager statuses |
| Division exchange (`services/promotion.py`) | `division_memberships`, `managers.division` | plan, apply | reads scores and the gate's flag |
| Tables (`domain/rankings.py`, `domain/tie_breaks.py`, `services/classic.py`, `services/h2h.py`) | none | rank | read scores, matches, penalties |
| H2H schedule (`domain/h2h_schedule.py`, `cli/*h2h_schedule.py`, `services/h2h.py`) | `h2h_schedules`, `h2h_matches` | generate by command or by API, import FPL's draw | the season's roster |
| Rosters (`cli/import_managers.py`, `cli/replace_roster.py`) | `managers`, `division_memberships` | import, replace | deletes schedules and Cups with the old roster |
| Scheduled jobs (`services/cron.py`, `api/routes/cron.py`, `services/nightly_audit.py`), team names (`cli/sync_team_names.py`) | two advisory locks, `manager_external_profiles` | tick, audit, adopt FPL's names | start the synchronisation; overlap with the organisers' commands |
| Match centre (`services/matchup.py`, `domain/matchup.py`), Gameweek status (`services/fpl.py`) | none | read | fixtures, players' rows, squads, scores, matches |
| Highlights, statistics (`services/highlights.py`, `stats.py`), web (`apps/web`) | none | read | everything above |

What is hard in it: a tick whose requests partly fail still scores and may close a
Gameweek on a mixture of old and new sources; the gate decides once and later ticks
keep writing; administrators finalize, reopen, remove managers, and set their status
and division by hand between any two ticks; FPL restates what it published; requests
and ticks overlap in the database; the Cup's rounds can be advanced in any order and
again; the exchange reads a table and rewrites what the table is read from; squads are
numbered before they are inserted; fixtures move between Gameweeks while a cached list
is behind the live feed; a page is put together from tables that are written in
different steps. `PROJECT.json` lists these under `hazards`, each at its line.

## 2. Modules

| Module | Models | Kind |
|---|---|---|
| `GameweekPipeline` | one tick from FPL's answers to settled matches; administrators; FPL as environment | state machine |
| `LeaguePages` | the H2H table, the head of a match's page and the greeting, on the state of `GameweekPipeline` | operators |
| `FplStatus` | the Gameweek on display, from the tables and from FPL's flags | operators |
| `ManagerFeed` | whose squad and history a tick asks for, and how squads become revisions, with invocations under a lock | state machine |
| `MatchFeed` | fixtures and players' figures, from a cached list and a live feed | state machine |
| `MatchCentre` | the page of a match, on the state of `MatchFeed` | operators |
| `FplPayloads` | retries, squads, explained points, the pages of a draw, chips | operators |
| `ScheduledJobs` | the nightly audit under its lock and the command that adopts team names without one | state machine |
| `ThresholdLedger` | what the disciplinary rules promise about consequences | abstract specification |
| `Discipline` | detection and review, each running alone | state machine, implements `ThresholdLedger` |
| `DisciplineTx` | the same with database transactions that overlap | state machine, implements `ThresholdLedger` |
| `LeagueRules` | ranking with the shared tie-break chain, the exchange, the circle method, and what each must come to | operators |
| `SeasonRoster` | rosters imported and replaced, H2H fixtures generated and imported, the exchange after Season 1 | state machine |
| `CupBracket` | the two published brackets and what makes a bracket one | operators |
| `Cup` | qualification, draw, and the settling and advancing of rounds | state machine |
| `LeagueRules_proofs` | what sorting, ranking, sums, the exchange and the circle method come to, for inputs of every size | proofs |
| `*_proofs` | the theorems of `GameweekPipeline` (with `LeaguePages`), `ManagerFeed`, `MatchCentre` (with `MatchFeed`), `ScheduledJobs`, `DisciplineTx` (with `Discipline`), `SeasonRoster`, `Cup` | proofs |
| `MC*` | constants and bounds for TLC | instances |

`DisciplineTx` extends `Discipline` and both instantiate `ThresholdLedger`;
`LeaguePages` extends `GameweekPipeline` and instantiates `FplStatus`; `MatchCentre`
extends `MatchFeed`; `SeasonRoster` and `Cup` extend `LeagueRules`, and `Cup` extends
`CupBracket`. State machines are composed by interface: what one writes and another
reads appears in the reader as an action of its environment that may do whatever the
writer may. `SeasonRoster` and `Cup` take scores, finalization and sanctions that way,
and `SeasonRoster` the drawing of a Cup; `GameweekPipeline` takes removals from
`Discipline`, the batches of `ManagerFeed` as the managers a tick hears from, and the
footballers of `MatchFeed` as one. `PATCH /managers/{id}` writes columns that six
modules read, and is an action of each: `UpdateManager` in `Discipline`,
`SeasonRoster`, `GameweekPipeline` and `Cup`, `StatusIsSet` in `DisciplineTx`,
`Readmits` beside a removal in `ManagerFeed`. One tick of the pipeline is one step. Of
two ticks the advisory lock makes that true; `ManagerFeed` has the steps inside a
tick. A request of an administrator that commits while a tick runs is taken before the
tick or after it (section 5).

Definitions whose comment begins with *A slip* are variants with a plausible bug.
No action uses them: each stands beside the definition it would replace, and
`PROJECT.json` (`mutants`) says which property then fails.

### How states and actions correspond to the code

**GameweekPipeline.** The variables are tables: `gameweek` (`gameweeks`), `fixtures`,
`stats`, `squads`, `history` (the mirror), `scores` (`manager_gameweek_scores`),
`matches` (`h2h_matches`), `quarantined` (`sync_runs`), `forfeits` (the ledger) and
`standing` (`active_status` and `registration_status`, as far as readers tell them
apart: *active*; *suspended*, for pending review too, which is read and awaited by the
gate but not counted by the plan; *out*, for removed, locked, deleted or not
confirmed, which is neither). `quarantined` holds the Gameweek each quarantined run is
filed under, which is *none* (`NoRow`) for the bootstrap, fixture and entry-history
jobs: the gate asks for its own number and does not see those. `awaited` remembers
whom the gate expected when it closed a Gameweek, since a manager may be brought back
afterwards. `fpl` and `clock` are FPL itself. `closedBy` is the audit trail: it says
who last closed a Gameweek. `FullTick`, `LiveTick`, `CatalogTick` and `QuietLiveTick`
are `run_scheduled_sync` in its two modes with something or nothing due; each does, as
one step, everything the code does in one transaction, in the code's order: read,
score, offer the Gameweek to the gate, score again if it closed, settle. A request of
a tick that fails is an element of `Answers`, which leaves the old rows.
`SetFinalized`, `RemoveFromH2H`, `RemoveFromCompetition` and `UpdateManager` are the
administrators'; a manager registered in mid-season is one who was *out* until then.
The footballers of a Gameweek are one representative element that a squad counts or
not, which is enough to let the derived total, the published total and the squad
disagree in every way the gate tells apart.

**ManagerFeed.** `picksRead` and `historyRead` are the order of `last_seen_at`,
kept as a relation because moments are only ever compared; `evidence` is
`raw_fpl_responses`; `snapshots` is `manager_pick_snapshots` in order of revision;
`worker` is each invocation's transaction. `TickStarts` takes the lock and chooses
the first batch, `PicksStored` numbers what it will insert and chooses the second,
`TickCommits` makes all of it visible, `TickLost` none.

**MatchFeed, MatchCentre.** `fixtures` and `stats` are the tables; `fpl`, `points`
and `cached` are FPL as it is and as its cache shows it; `earliest` keeps a fixture
abandoned in play from being replayed in the same Gameweek. `Tick(listed, live)`
is both jobs of one tick, each source answering or not: drop the rows of what has
moved, write the catalogue, then merge what the live feed has of the catalogue's
fixtures. The operators of `MatchCentre` are the functions that build the page.

**ScheduledJobs.** `profile` is `manager_external_profiles`, `registered` is
`managers.team_name`. Audit and command load, ask FPL manager by manager, and
update at the end the columns that differ from what they loaded; `Noted` is what
that leaves of a row somebody else has written meanwhile.

**FplPayloads, FplStatus, LeaguePages, LeagueRules, CupBracket.** Functions of the
code as operators. Those of `LeaguePages` and `MatchCentre` are evaluated in every
state of their state machine; those of `FplPayloads` and `FplStatus` read no state
and are compared with what their callers rely on over every small input.

**Discipline, DisciplineTx.** `violations` is keyed by manager and Gameweek as in its
unique key; `ledger` is `violation_threshold_actions`. `Tick` is the upsert of
`detect_transfer_violations` over all cases, `Review` is `review_violation` with
`apply_threshold_actions` in it. `UpdateManager` writes `removed` without the ledger;
`byHand` remembers whose status was ever written that way. In `DisciplineTx` both
become several steps: what a statement reads at READ COMMITTED is kept in `tick` and
`request`, a row lock is a guard of the step that takes it, a unique key or foreign
key that fails rolls the transaction back, and a worker may be lost before its commit.
What a synchronisation writes follows what it read, so a case decided in between is
deleted or counted anew (section 6).

**SeasonRoster.** `division` is `managers.division`, `opening` and `second` are the
memberships of the two Seasons, `standing` and `confirmed` the two status columns,
`cases` whether a manager has a violation and a decided one. `CreateManager` and
`UpdateManager` are the API's; `byHand` remembers whose division it wrote since the
exchange. One action per command; a refusal of the code is a guard. All a manager
scored in Season 1 is one ranking key, since the exchange reads nothing else of it.

**Cup.** `sheet` is what the tables say of each manager in each Gameweek, `ties` is
`cup_matches` with the two sides, the winner and the scores written beside it. `Draw`
is `generate`; `Advance(r)` is `advance` for the Gameweek of round `r`: settle every
undecided tie of the round that has two sides, then fill every empty side that waits
for a tie of this round. `listed` are those the qualification table keeps, neither
removed nor deleted, whether a review or `UpdateManager` wrote it. Divisions do not
change here: they are read once, at the draw, and the constant may be any. The bracket
is a constant, so the theorems hold for any bracket; `Season1` and `Season2` are the
published ones.

## 3. Runs

| Run | Distinct states | Shows |
|---|---|---|
| `MCPipeline` | 141,054 | What a closed Gameweek contains, what an open one may not show, that locked results stand, that table, pages and greeting tell one story, and that a Gameweek FPL has finished with is closed unless one of three named obstacles is met; any one request of a tick fails or is quarantined, and one manager is removed, locked out or brought back at any time. |
| `MCManagerFeed` | 334,876 | With invocations that overlap, fail and are lost, no squad is stored twice and no revision taken twice; everybody's squad and history are asked for again and again, also of a manager removed and readmitted. |
| `MCMatchCentre` | 144,753 | However fixtures move and sources lag or fail, nothing is counted twice, corrections arrive, the page's clock is right and its sums agree; and the payload and status operators do what their callers rely on. |
| `MCScheduledJobs` | 151,728 | Audits and the renaming command overlap without colliding, and the flag of a manager's profile settles on the truth. |
| `MCDiscipline` | 40,023 | Cases follow the published cost until decided, consequences follow the confirmed total, and the ledger implements `ThresholdLedger`, with statuses set by hand at any moment. |
| `MCDisciplineTx` | 1,669,824 | With a detection and a review, or two reviews, overlapping, and statuses set by hand between their steps, ledger, deductions and removals stay whole and still implement `ThresholdLedger`. |
| `MCSeasonRoster` | 172,080 | Divisions agree with memberships unless the API wrote them, fixtures with the roster, no generation discards a result, the draw and the exchange are fair. |
| `MCCup` | 29,763 | Whatever is rescored or reopened and in whichever order rounds are advanced, the bracket is followed and results stand; both published brackets are as the rulebook has them. |
| `PipelineFinalScoreDrift`, `PipelineLeftOpen`, `DisciplineSkew`, `CupRemoval` | | Stop at a counterexample: see section 6. |

### Bounds, and why they are enough

* *Pipeline*: two managers who meet each other, one Gameweek (two in
  `PipelineLeftOpen`), points 0 or 1, one manager whose representative element is
  on the bench until an automatic substitution. `OnlyOneLeaves`: only one manager's
  standing changes, between active and out. `OneQuarantine`: one kind of quarantined
  run is on file at a time, beside a removal or a changed standing but not both, and
  beside neither when it is filed under no Gameweek. Two values of points give a win, a draw and a loss, and
  every figure can disagree with every other. Within a tick at most one request
  fails; over several ticks failures accumulate without limit. With one Gameweek
  the table's sums have one term; what they could get wrong - the side, the status,
  the fallback - shows in it.
* *Feed*: three managers in batches of two, so that a batch leaves somebody out and
  two batches overlap; two invocations; at most one request of a job fails
  (`MaxFailing`). `FewChanges` lets FPL restate one squad back and forth, one manager
  leave and come back, and one payload be misshapen. `SomeoneIsNext` tries every batch size,
  blank and negative ones included, in every state.
* *Matches*: two fixtures, two players of whom one plays in both, two Gameweeks, one
  minute and one point. `FewEvents` keeps the second fixture in its Gameweek, where
  it gives a player a second match once the other has moved beside it; one squad
  benches a player the other captains. Payload operators: every list of up to two
  or three items over small alphabets, three answers, three pages, four Gameweeks of chips.
* *Jobs*: two managers, two audits and one command, two names and none; the first
  Gameweek is finalized once.
* *Discipline*: one manager, since no step relates two; two Gameweeks, and costs
  that raise every level from none to three units, one on each side of a boundary,
  so that a threshold can be skipped. `DisciplineTx`: two requests; a detection and
  two reviews are not under way all at once (`TwoAtOnce`), every pair is.
* *Roster*: two divisions of two with one exchanged, a substitute, four files that
  agree, disagree, are partial or exchange two managers. `FewAtOnce` allows two
  managers with scores and two of: a played match, a second, a Cup, a second
  schedule; or one manager out of line (not active and confirmed, with a case, or with
  a division the API wrote) and two of all these. The circle method is evaluated for every even
  field up to eight.
* *Cup*: six managers of whom five enter a bracket of three rounds, which has what
  the published ones have: a qualifying tie, entrants in the second round, a final
  and a match for third place. Two sheets of scores contain everybody apart, two
  level across the last place, a pair that only the facts tell apart, a pair nothing
  does, and somebody without a score. `Bounded` scores Gameweeks one after the
  other, and keeps one thing out of the ordinary at a time: an open Gameweek before
  a closed one, or the violations or status of one manager. The published brackets are
  checked whole, with all forty places.

Runs are bounded by conjoining the bound to the next-state relation (`Bounded*`):
TLC explores the states of the bound and only those, so that liveness under a
bound is not blamed on a state that was cut off. Deadlock is checked in every run.

### Fairness

* `FairSpec` (pipeline): weak fairness of the full tick in which every request is
  answered. The scheduler calls the synchronisation every few minutes for as long as
  the service runs, a tick that loses the lock or fails is followed by another, and
  nothing the program does disables it; that FPL answers in full again after any
  outage is what the operators rely on.
* `TicksKeepComing` (feed): a tick starts when the lock is free (weak); an answered
  batch is stored and a tick commits infinitely often if it infinitely often can
  (strong), since a lost worker takes the step away and the next tick brings it back.
  Nothing is assumed of which manager answers.
* `SourcesAnswer` (matches): FPL refreshes its cache, and ticks in which both sources
  answer keep coming.
* `AuditsKeepComing` (jobs): audits start and end; an audit infinitely often hears of
  a manager and gets to write what it heard (strong, for each manager, because a
  request may fail and a worker may be lost).

Nothing is assumed of administrators, of the organisers' commands, or of what FPL
publishes; in particular a Cup round is advanced by a request, and no liveness is
claimed for the Cup. The liveness properties say *once FPL leaves it alone*
(`FiguresArrive`, `FlagSettles`) or name what may prevent them (`SettledWeekCloses`).

## 4. Proofs

All are for every value of the constants that satisfies the named assumptions.
These ask for no more than the code's own tables give: finite sets of managers,
players and fixtures, managers told apart by numbers, typed constants, merit keys
of one length (`KeysAssumption`), imported draws that pair two managers in a
Gameweek from the first on (`DrawsAssumption`), somebody on the pitch from kick-off
in every fixture (`MatchFeedAssumption`), a bracket that is one
(`PublishedAssumption`). TLC evaluates each of them in a run.

| Theorems | Argument |
|---|---|
| `LeagueRules_proofs`: `CircleMethodIsFair`, `RanksDecide` | Induction over data without an induction theorem: a finite set has a minimal subset among those that break a claim (`MinimalSet`, from the well-foundedness of strict inclusion), which gives `SetInduction`, `NumberInduction`, `LeastNumber` and `GreatestNumber` over *sets* of good cases, without an operator parameter. With them: a sum does not depend on the order it is taken in (`SumTakesOut`, `SumOfTheSame`, `SumOfDifferences`, `SumOfImages`); a finite strict order numbers its elements (`PlacesAreTaken`), so sorting by key and number returns the sorted sequence (`OrderedIsSorted`) and a shared rank is one more than the number of better keys (`RanksAreCounts`); the exchange takes the ends of both tables when nobody is level across the line (`ExchangeTakesTheEnds`). For the circle method, seat `i` of round `k` is given in closed form (`Seat`, `SeatsMoveOn`); the seats of two who face each other add up, round the circle of all but the first, to what tells the round, because that circle is odd (`NobodyFacedTwice`). |
| `GameweekPipeline_proofs`: `TypeCorrect`, `ClosedIsSettled`, `OpenStaysProvisional`, `WalkoversAreDeserved`, `LockedResultsStand`, `ClosingTickSettles` | The invariant joins the safety invariants with `Bookkeeping`. The promise about scores is not inductive alone: a row is final only if it is written again in the closing tick, so every score must have a source (`Bookkeeping`); the promise about matches needs the one about scores, and both need the record of who closed the week and whom it was waiting for. `TickOutcome` states once what scoring, gate and settlement do in any tick, and each kind of tick cites it. |
| the same module: `TablePointsStand`, `ReadersTellOneStory` | `ReadInv` is what the readers rely on: a result is explained by the scores it was written with (`ResultsAreExplained`), its state is that of the scores (`ResultsFollowScores`), theirs is that of the fixtures (`ScoresFollowFixtures`), and nothing is played before its deadline (`FootballWaits`). The scores of an eligible match are re-read in every tick that rewrites them, which is why the page and the table agree. The table's sums are then compared with the pages' term by term, by the lemmas on sums: for every number of managers and Gameweeks, where the run has one. |
| `ManagerFeed_proofs`: `SnapshotsStaySound`, `TurnsComeToSomeone` | At most one invocation is past the lock, so what it planned to insert stays the next revision until it commits: nobody else has inserted anything. Without that conjunct (`OneAtWork`) freshness is not inductive. Each queue is an order of moments (`QueuesAreOrders`), in which several managers may share one or have none; broken by number it is strict, so the managers due have places and a batch is the first of them. |
| `MatchCentre_proofs`: `TypeCorrect`, `NothingCountedTwice` | `CountedOnce` is inductive with the types. A tick first drops the rows of what has moved (`KeptWhereItIs`), then stores only fixtures that the catalogue it has just written knows in the Gameweek the live feed is of (`StoredWhereItIs`): a live feed that is worth reading implies that there is such a fixture, so the guard that lets everything through when there is none never applies. `MergedOnce` joins the two. |
| the same module: `ClockIsRight`, `PageSums` | A reading of a match, from the list or from a player's row, is not ahead of the match, or is of a Gameweek the match has left for good (`ReadingsAreBehind`): a match abandoned in play is not played in that Gameweek again, so an old reading never meets a new clock at zero (`FplIsSound`). A row with minutes is of somebody who was on, so rewriting it takes it forward (`MinutesAreKept`). For the page, a player's rows tell his matches apart and are of his matches (`RowsAreMatches`), so once he is listed the two counts are the sizes of one set; and the margin is the sum of the swings because a player whose multipliers are equal adds nothing. |
| `ScheduledJobs_proofs`: `NoInsertCollides` | Audits exclude each other, the command only ever updates a profile, and profiles are never deleted; so what an audit did not find is still not there when it inserts it. |
| `DisciplineTx_proofs`, of `Discipline`: `TypeCorrect`, `NothingLeftBehind`, `CasesAreTrue`, `RecordedWhenDue`, `ImplementsLedger` | A review can lower no total while a consequence is due, because only the reviewed case changes and every due action is recorded in the same step. The refinement maps a review to `Reach` at the threshold of the new total, or to a stutter. |
| `DisciplineTx_proofs`, of `DisciplineTx`: `TxTypeCorrect`, `DeductionsAreExplained`, `EffectsFollowTheLedger`, `OverlapImplementsLedger` | Rows that are locked, or that the synchronisation has read, are there (`LocksHold`); what a review plans, with what is recorded by then, is what some total is due for (`DuesHold`), even if by the time it commits that total is an old one; and two reviews that have inserted do not contend, so neither finds its action recorded at its commit. Together they make each commit a whole threshold or nothing. That a case the synchronisation is about to delete is blamed for nothing (`BlameHolds`) carries the foreign key over the steps in between. `EffectsFollowTheLedger` speaks of managers whose status nobody set by hand: of those a review has read the truth. |
| `SeasonRoster_proofs`: `TablesKeepTheirTypes`, `DivisionFollowsMembership`, `GenerationSparesResults`, `FixturesStaySound`, `FirstDrawIsFair`, `SwapIsFair` | That the division follows the membership is inductive as it stands: an import sets no division that a membership contradicts, because a file that disagrees is refused; it excepts those whose division the API wrote, whom the exchange brings back into line. For `GenerationSparesResults`, every match belongs to a schedule on file, so where a generation finds no schedule there is no result to lose (`MatchesHaveSchedules`). `FixturesStaySound` has one step per command: what a generation writes is a fair draw (`CircleMethodIsFair`), what an import writes pairs nobody twice in a Gameweek (`DrawsAssumption`), and a result leaves a match with its two managers. `FirstDrawIsFair` and `SwapIsFair` apply the lemmas of `LeagueRules_proofs` to the active roster and to the two divisions. |
| `Cup_proofs`: `TypeCorrect`, `BracketStands`, `ResultsAreKept`, `ResultsAreExplained`, `NobodyPlaysOn`, `TheBestEnter` | The invariant adds that nothing stands before the draw and that a decided tie has two sides, one of which won. The step of `Advance` is the heart of it: a tie that sends somebody on keeps its own sides, since they wait for the round before; so the winner and the loser it sends are those of the settled tie (`SendersKeepSides`), and a decided tie is never touched again. For `NobodyPlaysOn` the invariant is that a manager follows one path (`OnePath`): of two sides he stands on, the earlier belongs to a tie he won, or lost to come to the later. It rests on no two sides of the bracket waiting for the same place, winner or loser, on a manager holding one place, and on a losers' tie being of the last round. What is asked of the bracket is `PublishedAssumption`: every side waits for a tie of the round before, and it is written as the rules have it (`IsWritten`). `TheBestEnter` needs `EntersFromTheTop` of it too: with a place of a table the places above it enter; a manager behind nobody who entered would hold such a place, since ranks are counts of better keys (`RanksAreCounts`). `MCCup` evaluates it for its bracket and `PublishedAsRuled` for the published ones. |

## 5. What is only model-checked, and what is not modelled

Only model-checked:

* liveness, which the prover does not reach: `SettledWeekCloses`, `EveryoneComesRound`,
  `FlagSettles`, `FiguresArrive`;
* `AnswersAreRead`, six comparisons of payload and status operators with what their
  callers rely on, each evaluated over every small input; several of them are defined
  by recursion over a payload;
* `PublishedAsRuled`, a statement about two constant tables, which TLC evaluates whole.

Not modelled: authentication and HTTP routing, serialization, migrations,
configuration beyond the batch size, and the web application, which keep no state of
the league; highlights and statistics (`services/highlights.py`, `stats.py`) and the
lists of managers, each a selection, a count and an order over tables the other
modules check, where a model would repeat the query; the fields of a `PATCH` that no
code reads (`locked_from_gameweek`, `season_2_*`); Team of the Week and the counted
cards of a score; the seeding of a season, which runs once on an empty database;
parsers that only rename fields. An administrator's request that commits while a tick
runs is placed before or after the tick in `GameweekPipeline`, where at READ COMMITTED
the tick may see it half way; the overlap is modelled for the cases (`DisciplineTx`)
and for the feed (`ManagerFeed`), not for scores, the gate and settlement. A roster
command is one step. The gate and the settlement are modelled on totals: the sum over
fifteen players with their multipliers is `MatchCentre`'s, not `GameweekPipeline`'s.

## 6. Where code and documents part

Each of the first four has a run that ends in the shortest counterexample.

1. `PipelineFinalScoreDrift`: a final score is written again by later ticks.
2. `PipelineLeftOpen`: a Gameweek that FPL checks after the next deadline is
   closed by nobody.
3. `DisciplineSkew`: two reviews that overlap both miss a threshold reached
   together.
4. `CupRemoval`: nothing reads `REMOVED_FROM_CUP` once the Cup is drawn.

Seen while reading or modelling, without a run of their own; the model does what the
code does in the first four:

* A case that was only detected when a synchronisation read it, and is decided before
  the synchronisation writes, is deleted if its cost has become allowed, unless a
  deduction names it; if the cost has changed otherwise, its units are counted anew and
  part from those confirmed (`services/violations.py:119`, against `:71`). In
  `Discipline`, where transactions do not overlap, a decision cannot be lost; in
  `DisciplineTx` it can.
* A quarantined catalogue, fixture list or entry history is filed under no Gameweek, and
  the gate, which asks for its own number, closes the Gameweek in the same tick
  (`services/finalization.py:132`, against `services/ingestion.py:4`). Only quarantined
  squads and live figures hold it.
* Replacing a roster asks for evidence of the managers it drops, and deletes the H2H
  results and the Cups of those it keeps (`cli/replace_roster.py:253`, against `:9`).
* The exchange ranks and moves managers by the column of `managers`, so it moves
  somebody from the division the API wrote, which no membership records
  (`services/promotion.py:203`, against `:201`).
* A reopened Gameweek is closed and locked again by the tick that rescores it, and
  its matches keep the results they had (`services/h2h_settlement.py:104`, against
  `h2h_settlement.py:8` and `api/routes/admin.py:94`).
* A manager whose removal is on the ledger and whom the API sets back to active is not
  removed again by any later decision: what is recorded is never outstanding
  (`services/violations.py:162`).
* A manager who is brought back after the gate closed a Gameweek without him is scored
  in it, final, by the next tick; one who is out, not removed from H2H and without a
  score leaves his match scheduled in a closed Gameweek (`services/finalization.py:30`).
* The renaming command asks once, before it has asked FPL, whether the first Gameweek
  is finalized, and may adopt names after it (`cli/sync_team_names.py:75`, against `:10`).
* Historical figures of a removed manager hold the gate though he is no longer read
  (`services/finalization.py:118`), and a quarantined `sync_runs` row that is
  filed under a Gameweek holds it open for good (`finalization.py:127`).
* The gate compares two mirrored figures that may both be older than FPL's
  (`finalization.py:117`); an administrator who finalizes before kick-off fixes zeros
  (`services/scoring.py:214`).
* A squad that FPL restates and takes back (A, B, A) leaves revision B the newest,
  since A is already on file (`services/ingestion.py:533`).
* With batches of one and a manager FPL never answers for, that manager is asked
  first in every tick and the others wait (`services/ingestion.py:690`): a request
  that failed does not move him to the back. `EveryoneComesRound` holds when fewer
  requests fail than a batch is long, as in its run.
* Until the first live read `players_remaining` counts nobody, since it counts
  players' rows (`domain/matchup.py:242`, against `docs/RULEBOOK.md:656`);
  `CountsAgree` therefore speaks of players FPL has listed.
* Between FPL's finished flag and the next deadline the tables greet with the next
  Gameweek, FPL's flags with the finished one (`services/fpl.py:58`); `StatusAgrees`
  excepts it.
* The H2H table is ranked without the facts of the shared tie-break chain, which
  `rank_h2h` would use (`services/h2h.py:112`), and its last criterion counts points
  of matches that are still live beside results that are locked; deductions are
  summed without regard to the season (`repositories/h2h.py:57`).
* The API adds a second schedule beside the first (`services/h2h.py:57`), and an
  imported draw drops provisional results and walkovers (`cli/import_h2h_schedule.py:127`).
* A block of a player's explanation that names no fixture is lost without notice when
  others do, and of an identifier named twice in a block one is kept
  (`integrations/fpl_parsers.py:359`); a payload that repeats an element or a position
  is refused whole (`:223`).
* A rank shared wholly inside a zone stops the exchange, where the comment at
  `domain/promotion.py:73` says only one across its edge matters.
* A Cup tie level after the whole chain waits for a draw that no operation records
  (`services/cups.py:412`), and a side that is missing counts for nothing (`:418`).
* The Season 1 Classic table selects members by their current division
  (`repositories/classic.py:105`), so after the exchange it shows the managers who
  moved in their new division, where `services/promotion.py:6` says a manager who
  finished 18th in HIGH still finished 18th in HIGH.
* Two reviews of one case may lose one of them (`services/admin.py:40`).

## 7. What the plan has left

1. The whole squad in `GameweekPipeline`, in place of one representative element,
   with Team of the Week and the counted cards on it.
2. Proofs: of the payload operators for inputs of every size, first that a retried
   request fails only for an answer FPL means and that a manager keeps the chips he
   has not played (`FplPayloads`); that the tables and FPL's flags put the same Gameweek
   on display (`FplStatus`).
3. A Gameweek as *open, closed, reopened*, an abstract specification for the pipeline
   to implement.
4. `services/highlights.py` and `services/stats.py` as operators, as far as their
   pages must agree with each other.
