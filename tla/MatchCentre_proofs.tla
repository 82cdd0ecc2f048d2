-------------------------- MODULE MatchCentre_proofs --------------------------
(***************************************************************************)
(* What MatchFeed and the page MatchCentre computes from it keep, for      *)
(* every season, schedule, pair of squads and order of answers.            *)
(*                                                                         *)
(* A player's figures are on file once, where the catalogue has their      *)
(* fixture: inductive with the types, as a tick drops the rows of what has *)
(* moved before it stores, and stores only what the catalogue it has just  *)
(* written knows.  Nothing read of a match in a Gameweek is ahead of it,   *)
(* or the match has left that Gameweek for good (PageInv): so a clock      *)
(* never runs back.  And a player's rows count his matches, so that the    *)
(* sums and the counts of the page agree.                                  *)
(***************************************************************************)
EXTENDS MatchCentre, LeagueRules_proofs

IInv == MatchTypeOK /\ CountedOnce

\* A row says where the catalogue has its fixture.
WhereItIs(rows, catalogue) ==
  \A s \in rows : catalogue[s.fixture] # NoRow /\ s.week = catalogue[s.fixture].week

\* No two rows are of one player in one fixture.
OneEach(rows) ==
  \A r, s \in rows : r.fixture = s.fixture /\ r.player = s.player => r = s

\* The two halves of CountedOnce.
LEMMA CountedOnceIs == CountedOnce <=> WhereItIs(stats, fixtures) /\ OneEach(stats)
BY DEF CountedOnce, WhereItIs, OneEach

-----------------------------------------------------------------------------
(* The parts of a tick. *)

\* The catalogue a tick works with is of the schedule.
LEMMA CatalogueType ==
  ASSUME MatchTypeOK, NEW answered \in BOOLEAN
  PROVE  Catalogue(answered) \in [Fixtures -> Schedule \cup {NoRow}]
BY DEF MatchTypeOK, Catalogue

\* What is kept is where the new catalogue has it.
LEMMA KeptWhereItIs ==
  ASSUME IInv, NEW answered \in BOOLEAN,
         NEW kept, kept = IF answered THEN WithoutMoved(Catalogue(answered)) ELSE stats
  PROVE  /\ kept \subseteq stats
         /\ WhereItIs(kept, Catalogue(answered))
<1>1. WhereItIs(stats, fixtures) /\ MatchTypeOK
  BY CountedOnceIs DEF IInv
<1>2. CASE ~answered
  BY <1>1, <1>2 DEF Catalogue
<1>3. CASE answered
  <2>1. kept = WithoutMoved(cached) /\ Catalogue(answered) = cached
    BY <1>3 DEF Catalogue
  <2>2. kept \subseteq stats
    BY <2>1 DEF WithoutMoved
  <2>3. ASSUME NEW s \in kept
        PROVE  cached[s.fixture] # NoRow /\ s.week = cached[s.fixture].week
    <3>1. s \in stats /\ s \in StatRows
      BY <2>2, <1>1 DEF MatchTypeOK
    <3>2. s.fixture \in Fixtures /\ s.week \in Weeks
      BY <3>1 DEF StatRows
    <3>3. fixtures[s.fixture] # NoRow /\ s.week = fixtures[s.fixture].week
      BY <1>1, <3>1 DEF WhereItIs
    <3>4. ~HasMoved(s.fixture, cached)
      BY <2>1, <3>3 DEF WithoutMoved
    <3>5. s.week # NoWeek
      BY <3>2, MatchFeedAssumption
    <3>6. s.week = cached[s.fixture].week
      BY <3>3, <3>4, <3>5 DEF HasMoved
    <3>7. cached[s.fixture] # NoRow
      BY <1>1, <3>2, MatchFeedAssumption DEF MatchTypeOK
    <3> QED BY <3>6, <3>7
  <2> QED BY <2>1, <2>2, <2>3 DEF WhereItIs
<1> QED BY <1>2, <1>3

\* The live feed names each player of a fixture once.
LEMMA FeedIsSound ==
  ASSUME MatchTypeOK
  PROVE  LiveFeed \subseteq StatRows /\ OneEach(LiveFeed)
<1> USE DEF LiveFeed
<1>1. ASSUME NEW x \in Appears
      PROVE  /\ x \in Fixtures \X Players
             /\ Minutes(x) \in 0..MaxClock
             /\ points[x] \in 0..MaxPoints
  <2>1. x \in Fixtures \X Players /\ fpl[x[1]] \in Schedule
    BY MatchFeedAssumption DEF MatchTypeOK
  <2>2. fpl[x[1]].clock \in 0..MaxClock
    BY <2>1 DEF Schedule
  <2>3. Minutes(x) \in 0..MaxClock
    BY <2>2, MatchFeedAssumption DEF Minutes
  <2> QED BY <2>1, <2>3 DEF MatchTypeOK
<1>2. LiveFeed \subseteq StatRows
  BY <1>1 DEF StatRows, MatchTypeOK
<1>3. OneEach(LiveFeed)
  <2>1. ASSUME NEW x \in Appears, NEW y \in Appears, x[1] = y[1], x[2] = y[2] PROVE x = y
    BY <1>1, <2>1
  <2> QED BY <2>1 DEF OneEach
<1> QED BY <1>2, <1>3

\* What is stored is where the catalogue has it.
LEMMA StoredWhereItIs ==
  ASSUME MatchTypeOK, NEW catalogue, LiveDue(catalogue)
  PROVE  WhereItIs(Usable(catalogue), catalogue)
<1>1. Known(catalogue) # {}
  BY DEF LiveDue
<1>2. ASSUME NEW s \in Usable(catalogue)
      PROVE  catalogue[s.fixture] # NoRow /\ s.week = catalogue[s.fixture].week
  BY <1>1 DEF Usable, Known, LiveFeed
<1> QED BY <1>2 DEF WhereItIs

\* Merging rows that agree on where the fixtures are keeps one row for each.
LEMMA MergedOnce ==
  ASSUME NEW catalogue, NEW rows, NEW feed,
         rows \subseteq StatRows, feed \subseteq StatRows,
         OneEach(rows), OneEach(feed),
         WhereItIs(rows, catalogue), WhereItIs(feed, catalogue)
  PROVE  /\ Merged(rows, feed) \subseteq StatRows
         /\ WhereItIs(Merged(rows, feed), catalogue)
         /\ OneEach(Merged(rows, feed))
<1>1. Merged(rows, feed) \subseteq rows \cup feed
  BY DEF Merged
<1>2. WhereItIs(Merged(rows, feed), catalogue)
  BY <1>1 DEF WhereItIs
<1>3. ASSUME NEW r \in rows, NEW s \in feed,
             r \in Merged(rows, feed), s \in Merged(rows, feed),
             r.fixture = s.fixture, r.player = s.player
      PROVE  r = s
  <2>1. SameKey(r, s)
    BY <1>3 DEF SameKey, WhereItIs
  <2>2. CASE Same(r, s)
    <3>1. r.minutes = s.minutes /\ r.points = s.points /\ r.week = s.week
      BY <2>1, <2>2 DEF Same, SameKey
    <3> QED BY <1>3, <3>1 DEF StatRows
  <2>3. CASE ~Same(r, s)
    <3>1. r \in feed
      BY <1>3, <2>1, <2>3 DEF Merged
    <3> QED BY <1>3, <3>1 DEF OneEach
  <2> QED BY <2>2, <2>3
<1>4. OneEach(Merged(rows, feed))
  <2>1. SUFFICES ASSUME NEW r \in Merged(rows, feed), NEW s \in Merged(rows, feed),
                        r.fixture = s.fixture, r.player = s.player
                 PROVE  r = s
    BY DEF OneEach
  <2>2. CASE r \in rows /\ s \in rows
    BY <2>1, <2>2 DEF OneEach
  <2>3. CASE r \in feed /\ s \in feed
    BY <2>1, <2>3 DEF OneEach
  <2> QED BY <1>1, <1>3, <2>1, <2>2, <2>3
<1> QED BY <1>1, <1>2, <1>4

-----------------------------------------------------------------------------
(* The steps. *)

\* The invariant holds while the catalogue is empty.
LEMMA InitInvariant == MatchInit => IInv
<1> SUFFICES ASSUME MatchInit PROVE IInv
  OBVIOUS
<1>1. \A w \in Weeks : Unplayed(w) \in Schedule
  BY MatchFeedAssumption DEF Unplayed, Schedule, Stages
<1>2. fpl \in [Fixtures -> Schedule] /\ cached = fpl
  BY <1>1 DEF MatchInit
<1>3. points \in [Appears -> 0..MaxPoints] /\ earliest \in [Fixtures -> Nat]
  BY MatchFeedAssumption DEF MatchInit
<1> QED BY <1>2, <1>3 DEF MatchInit, IInv, MatchTypeOK, CountedOnce

\* Neither FPL nor the calendar touches what is on file.
LEMMA OutsideInvariant ==
  ASSUME IInv, UNCHANGED <<fixtures, stats>>, MatchTypeOK'
  PROVE  IInv'
BY DEF IInv, CountedOnce

\* What FPL does leaves every value of its type.
LEMMA FplType ==
  ASSUME MatchTypeOK, NEW f \in Fixtures, UNCHANGED <<fixtures, stats>>,
         \/ KicksOff(f) \/ Minute(f) \/ FullTime(f)
         \/ \E p \in Players, n \in 0..MaxPoints : Scores(f, p, n)
         \/ \E w \in Weeks \cup {NoWeek} : Moves(f, w)
  PROVE  MatchTypeOK'
<1> USE DEF MatchTypeOK
<1>0. fpl[f] \in Schedule /\ current \in Nat /\ earliest[f] \in Nat
  BY MatchFeedAssumption
<1>1. CASE KicksOff(f) \/ FullTime(f)
  BY <1>0, <1>1 DEF KicksOff, FullTime, Schedule, Stages
<1>2. CASE Minute(f)
  <2>1. fpl[f].clock + 1 \in 0..MaxClock
    BY <1>0, <1>2, MatchFeedAssumption DEF Minute, Schedule
  <2>2. [fpl[f] EXCEPT !.clock = @ + 1] \in Schedule
    BY <1>0, <2>1 DEF Schedule
  <2> QED BY <1>2, <2>2 DEF Minute
<1>3. CASE \E p \in Players, n \in 0..MaxPoints : Scores(f, p, n)
  BY <1>3 DEF Scores
<1>4. CASE \E w \in Weeks \cup {NoWeek} : Moves(f, w)
  <2>1. PICK w \in Weeks \cup {NoWeek} : Moves(f, w)
    BY <1>4
  <2>2. Unplayed(w) \in Schedule
    BY MatchFeedAssumption DEF Unplayed, Schedule, Stages
  <2>3. fpl' = [fpl EXCEPT ![f] = Unplayed(w)] /\ UNCHANGED <<cached, current>>
    BY <2>1 DEF Moves
  <2>4. points' = [x \in Appears |-> IF x[1] = f THEN 0 ELSE points[x]]
    BY <2>1 DEF Moves
  <2>5. earliest' \in [Fixtures -> Nat]
    BY <1>0, <2>1 DEF Moves
  <2>6. points' \in [Appears -> 0..MaxPoints]
    BY <2>4, MatchFeedAssumption
  <2> QED BY <2>2, <2>3, <2>5, <2>6
<1> QED BY <1>1, <1>2, <1>3, <1>4

\* A tick keeps what is on file sound, whichever sources answer.
LEMMA TickInvariant ==
  ASSUME IInv, NEW listed \in BOOLEAN, NEW live \in BOOLEAN, Tick(listed, live)
  PROVE  IInv'
<1> DEFINE catalogue == Catalogue(listed)
           kept == IF listed THEN WithoutMoved(catalogue) ELSE stats
<1>1. /\ fixtures' = catalogue
      /\ stats' = IF live /\ LiveDue(catalogue) THEN Merged(kept, Usable(catalogue)) ELSE kept
      /\ UNCHANGED <<fpl, earliest, points, cached, current>>
  BY DEF Tick
<1>2. catalogue \in [Fixtures -> Schedule \cup {NoRow}]
  BY CatalogueType DEF IInv
<1>3. kept \subseteq stats /\ WhereItIs(kept, catalogue)
  BY KeptWhereItIs
<1>4. kept \subseteq StatRows /\ OneEach(kept)
  BY <1>3, CountedOnceIs DEF IInv, MatchTypeOK, OneEach
<1> HIDE DEF catalogue, kept
<1>5. CASE ~(live /\ LiveDue(catalogue))
  <2>1. stats' = kept
    BY <1>1, <1>5
  <2> QED BY <1>1, <1>2, <1>3, <1>4, <2>1
          DEF IInv, MatchTypeOK, CountedOnce, WhereItIs, OneEach
<1>6. CASE live /\ LiveDue(catalogue)
  <2>1. stats' = Merged(kept, Usable(catalogue))
    BY <1>1, <1>6
  <2>2. WhereItIs(Usable(catalogue), catalogue)
    BY <1>6, StoredWhereItIs DEF IInv
  <2>3. Usable(catalogue) \subseteq StatRows /\ OneEach(Usable(catalogue))
    BY FeedIsSound DEF IInv, Usable, OneEach
  <2>4. stats' \subseteq StatRows /\ WhereItIs(stats', catalogue) /\ OneEach(stats')
    BY <1>3, <1>4, <2>1, <2>2, <2>3, MergedOnce
  <2> QED BY <1>1, <1>2, <2>4 DEF IInv, MatchTypeOK, CountedOnce, WhereItIs, OneEach
<1> QED BY <1>5, <1>6

\* The invariant, by its steps.
THEOREM Invariant == MatchSpec => []IInv
<1>1. MatchInit => IInv
  BY InitInvariant
<1>2. IInv /\ [MatchNext]_matchVars => IInv'
  <2>1. SUFFICES ASSUME IInv, [MatchNext]_matchVars PROVE IInv'
    OBVIOUS
  <2>2. ASSUME NEW f \in Fixtures,
               \/ KicksOff(f) \/ Minute(f) \/ FullTime(f)
               \/ \E p \in Players, n \in 0..MaxPoints : Scores(f, p, n)
               \/ \E w \in Weeks \cup {NoWeek} : Moves(f, w)
        PROVE  IInv'
    <3>1. UNCHANGED <<fixtures, stats>>
      BY <2>2 DEF KicksOff, Minute, FullTime, Scores, Moves
    <3> QED BY <2>1, <2>2, <3>1, FplType, OutsideInvariant DEF IInv
  <2>3. CASE DeadlinePasses \/ CacheRefreshes \/ UNCHANGED matchVars
    <3>1. UNCHANGED <<fixtures, stats>> /\ MatchTypeOK'
      BY <2>1, <2>3 DEF DeadlinePasses, CacheRefreshes, matchVars, IInv, MatchTypeOK
    <3> QED BY <2>1, <3>1, OutsideInvariant
  <2>4. CASE \E listed, live \in BOOLEAN : Tick(listed, live)
    BY <2>1, <2>4, TickInvariant
  <2> QED BY <2>1, <2>2, <2>3, <2>4 DEF MatchNext
<1> QED BY <1>1, <1>2, PTL DEF MatchSpec

\* Every value keeps its type.
THEOREM TypeCorrect == MatchSpec => []MatchTypeOK
<1>1. IInv => MatchTypeOK
  BY DEF IInv
<1> QED BY <1>1, Invariant, PTL

\* However fixtures move and whichever source is behind or fails, no player's
\* figures are counted twice or in a Gameweek the fixture has left.
THEOREM NothingCountedTwice == MatchSpec => []CountedOnce
<1>1. IInv => CountedOnce
  BY DEF IInv
<1> QED BY <1>1, Invariant, PTL
-----------------------------------------------------------------------------
(* Where the clocks stand. *)

\* At FPL: a match is played in a Gameweek that has begun and that it may be played
\* in, and its clock runs from its kick-off.
FplIsSound ==
  \A f \in Fixtures :
    /\ fpl[f].stage = "upcoming" => fpl[f].clock = 0
    /\ fpl[f].stage # "upcoming" => fpl[f].week <= current
    /\ fpl[f].week = NoWeek \/ earliest[f] <= fpl[f].week
    /\ earliest[f] <= current + 1

\* What was read of a match in a Gameweek is not ahead of it, or of one the match
\* has left for good.
NotAhead(f, week, clock) ==
  clock > 0 => \/ week = fpl[f].week /\ clock <= fpl[f].clock
               \/ week < earliest[f]

ReadingsAreBehind ==
  /\ \A f \in Fixtures : NotAhead(f, cached[f].week, cached[f].clock)
  /\ \A f \in Fixtures : fixtures[f] # NoRow =>
       /\ NotAhead(f, fixtures[f].week, fixtures[f].clock)
       /\ fixtures[f].week = cached[f].week /\ fixtures[f].week # NoWeek =>
            fixtures[f].clock <= cached[f].clock
  /\ \A s \in stats : NotAhead(s.fixture, s.week, s.minutes)

\* A row is of somebody in the teams; minutes, of somebody who was on.
RowsAreOfTheTeams ==
  \A s \in stats : /\ <<s.fixture, s.player>> \in Appears
                   /\ s.minutes > 0 => <<s.fixture, s.player>> \in OnFromStart

PageInv == FplIsSound /\ ReadingsAreBehind /\ RowsAreOfTheTeams

\* What each kind of step does to a fixture at FPL.
LEMMA FplMoves ==
  ASSUME MatchTypeOK, FplIsSound, NEW f \in Fixtures,
         \/ KicksOff(f) \/ Minute(f) \/ FullTime(f)
         \/ \E p \in Players, n \in 0..MaxPoints : Scores(f, p, n)
         \/ \E w \in Weeks \cup {NoWeek} : Moves(f, w)
  PROVE  /\ FplIsSound'
         /\ UNCHANGED <<cached, current, fixtures, stats>>
         /\ \A g \in Fixtures : \A week \in Weeks \cup {NoWeek}, clock \in 0..MaxClock :
              NotAhead(g, week, clock) => NotAhead(g, week, clock)'
<1> USE DEF MatchTypeOK, FplIsSound, NotAhead
<1>0. /\ Weeks \cup {NoWeek} \subseteq Nat /\ NoWeek = 0 /\ MaxClock \in Nat
      /\ current \in Nat
      /\ \A g \in Fixtures : /\ fpl[g].week \in Weeks \cup {NoWeek} /\ fpl[g].clock \in 0..MaxClock
                             /\ fpl[g].stage \in Stages /\ fpl[g] \in Schedule
                             /\ earliest[g] \in Nat
  BY MatchFeedAssumption DEF Schedule
<1>1. CASE KicksOff(f)
  <2>1. fpl' = [fpl EXCEPT ![f] = [fpl[f] EXCEPT !.stage = "playing"]]
        /\ UNCHANGED <<earliest, points, cached, current, fixtures, stats>>
        /\ fpl[f].week = current
    BY <1>1 DEF KicksOff
  <2>2. \A g \in Fixtures : /\ fpl'[g].week = fpl[g].week /\ fpl'[g].clock = fpl[g].clock
                            /\ fpl'[g].stage = fpl[g].stage \/ (g = f /\ fpl'[g].stage = "playing")
    BY <1>0, <2>1 DEF Schedule
  <2> QED BY <1>0, <2>1, <2>2
<1>2. CASE Minute(f)
  <2>1. fpl' = [fpl EXCEPT ![f] = [fpl[f] EXCEPT !.clock = @ + 1]]
        /\ UNCHANGED <<earliest, points, cached, current, fixtures, stats>>
        /\ fpl[f].stage = "playing"
    BY <1>2 DEF Minute
  <2>2. \A g \in Fixtures : /\ fpl'[g].week = fpl[g].week /\ fpl'[g].stage = fpl[g].stage
                            /\ fpl'[g].clock = fpl[g].clock
                               \/ (g = f /\ fpl'[g].clock = fpl[g].clock + 1)
    BY <1>0, <2>1 DEF Schedule
  <2> QED BY <1>0, <2>1, <2>2
<1>3. CASE FullTime(f)
  <2>1. fpl' = [fpl EXCEPT ![f] = [fpl[f] EXCEPT !.stage = "over"]]
        /\ UNCHANGED <<earliest, points, cached, current, fixtures, stats>>
        /\ fpl[f].stage = "playing"
    BY <1>3 DEF FullTime
  <2>2. \A g \in Fixtures : /\ fpl'[g].week = fpl[g].week /\ fpl'[g].clock = fpl[g].clock
                            /\ fpl'[g].stage = fpl[g].stage \/ (g = f /\ fpl'[g].stage = "over")
    BY <1>0, <2>1 DEF Schedule
  <2> QED BY <1>0, <2>1, <2>2
<1>4. CASE \E p \in Players, n \in 0..MaxPoints : Scores(f, p, n)
  BY <1>4 DEF Scores
<1>5. ASSUME NEW w \in Weeks \cup {NoWeek}, Moves(f, w)
      PROVE  /\ FplIsSound'
             /\ UNCHANGED <<cached, current, fixtures, stats>>
             /\ \A g \in Fixtures : \A week \in Weeks \cup {NoWeek}, clock \in 0..MaxClock :
                  NotAhead(g, week, clock) => NotAhead(g, week, clock)'
  <2> DEFINE first == IF fpl[f].stage = "playing" THEN current + 1 ELSE earliest[f]
  <2>1. /\ fpl' = [fpl EXCEPT ![f] = Unplayed(w)] /\ earliest' = [earliest EXCEPT ![f] = first]
        /\ fpl[f].stage # "over" /\ (w = NoWeek \/ w >= first)
        /\ UNCHANGED <<cached, current, fixtures, stats>>
    BY <1>5 DEF Moves
  <2>2. first \in Nat /\ first >= earliest[f] /\ first <= current + 1
        /\ (fpl[f].stage = "playing" => fpl[f].week < first)
    <3>1. fpl[f].week \in Nat /\ earliest[f] \in Nat /\ current \in Nat /\ earliest[f] <= current + 1
      BY <1>0
    <3>2. fpl[f].stage = "playing" => fpl[f].week <= current
      OBVIOUS
    <3> QED BY <3>1, <3>2
  <2> HIDE DEF first
  <2>3. \A g \in Fixtures : g # f => fpl'[g] = fpl[g] /\ earliest'[g] = earliest[g]
    BY <2>1
  <2>4. /\ fpl'[f].week = w /\ fpl'[f].stage = "upcoming" /\ fpl'[f].clock = 0
        /\ earliest'[f] = first
    BY <2>1 DEF Unplayed
  <2>5. FplIsSound'
    BY <1>0, <2>1, <2>2, <2>3, <2>4
  <2>6. fpl[f].stage \in {"upcoming", "playing"}
    BY <1>0, <2>1 DEF Stages
  <2>7. ASSUME NEW week \in Weeks \cup {NoWeek}, NEW clock \in 0..MaxClock,
               NotAhead(f, week, clock)
        PROVE  NotAhead(f, week, clock)'
    BY <1>0, <2>2, <2>4, <2>6, <2>7
  <2>8. ASSUME NEW g \in Fixtures, g # f, NEW week \in Weeks \cup {NoWeek},
               NEW clock \in 0..MaxClock, NotAhead(g, week, clock)
        PROVE  NotAhead(g, week, clock)'
    BY <2>3, <2>8
  <2> QED BY <2>1, <2>5, <2>7, <2>8
<1> QED BY <1>1, <1>2, <1>3, <1>4, <1>5

\* The live feed is of the matches as they stand.
LEMMA FeedIsCurrent ==
  ASSUME MatchTypeOK, NEW s \in LiveFeed
  PROVE  /\ s \in StatRows /\ s.week = current /\ fpl[s.fixture].week = current
         /\ <<s.fixture, s.player>> \in Appears
         /\ s.minutes = Minutes(<<s.fixture, s.player>>)
         /\ s.minutes \in {0, fpl[s.fixture].clock}
         /\ s.minutes > 0 => <<s.fixture, s.player>> \in OnFromStart
<1>1. PICK x \in Appears : /\ fpl[x[1]].week = current
                           /\ s = [week |-> current, fixture |-> x[1], player |-> x[2],
                                   minutes |-> Minutes(x), points |-> points[x]]
  BY DEF LiveFeed
<1>2. x = <<x[1], x[2]>>
  BY MatchFeedAssumption
<1>3. s \in StatRows
  BY FeedIsSound
<1>4. Minutes(x) \in {0, fpl[x[1]].clock} /\ (Minutes(x) > 0 => x \in OnFromStart)
  BY DEF Minutes
<1> QED BY <1>1, <1>2, <1>3, <1>4

\* What a tick has on file it had, or the live feed has just said.
LEMMA TickReads ==
  ASSUME NEW listed \in BOOLEAN, NEW live \in BOOLEAN, Tick(listed, live)
  PROVE  /\ UNCHANGED <<fpl, earliest, points, cached, current>>
         /\ fixtures' = Catalogue(listed)
         /\ stats' \subseteq stats \cup LiveFeed
<1> DEFINE kept == IF listed THEN WithoutMoved(Catalogue(listed)) ELSE stats
<1>1. kept \subseteq stats /\ Usable(Catalogue(listed)) \subseteq LiveFeed
  BY DEF WithoutMoved, Usable
<1>2. Merged(kept, Usable(Catalogue(listed))) \subseteq kept \cup Usable(Catalogue(listed))
  BY DEF Merged
<1> QED BY <1>1, <1>2 DEF Tick

\* The clocks and the teams are kept by every step.
LEMMA PageStep ==
  ASSUME IInv, IInv', PageInv, [MatchNext]_matchVars
  PROVE  PageInv'
<1> USE DEF PageInv
<1>0. /\ Weeks \cup {NoWeek} \subseteq Nat /\ NoWeek = 0 /\ MaxClock \in Nat /\ current \in Nat
      /\ \A f \in Fixtures :
           /\ fpl[f] \in Schedule /\ cached[f] \in Schedule
           /\ earliest[f] \in Nat
           /\ fixtures[f] # NoRow => fixtures[f] \in Schedule
      /\ \A s \in stats : s \in StatRows
  BY MatchFeedAssumption DEF IInv, MatchTypeOK
<1>1. \A c \in Schedule : c.week \in Weeks \cup {NoWeek} /\ c.clock \in 0..MaxClock
  BY DEF Schedule
<1>2. \A s \in StatRows : s.week \in Weeks \cup {NoWeek} /\ s.minutes \in 0..MaxClock
                          /\ s.fixture \in Fixtures
  BY DEF StatRows
<1>3. ASSUME NEW f \in Fixtures,
             \/ KicksOff(f) \/ Minute(f) \/ FullTime(f)
             \/ \E p \in Players, n \in 0..MaxPoints : Scores(f, p, n)
             \/ \E w \in Weeks \cup {NoWeek} : Moves(f, w)
      PROVE  PageInv'
  <2>1. /\ FplIsSound' /\ UNCHANGED <<cached, current, fixtures, stats>>
        /\ \A g \in Fixtures : \A week \in Weeks \cup {NoWeek}, clock \in 0..MaxClock :
             NotAhead(g, week, clock) => NotAhead(g, week, clock)'
    BY <1>3, FplMoves DEF IInv
  <2>2. \A g \in Fixtures : NotAhead(g, cached[g].week, cached[g].clock)'
    BY <1>0, <1>1, <2>1 DEF ReadingsAreBehind
  <2>3. \A g \in Fixtures : fixtures[g] # NoRow => NotAhead(g, fixtures[g].week, fixtures[g].clock)'
    BY <1>0, <1>1, <2>1 DEF ReadingsAreBehind
  <2>4. \A s \in stats : NotAhead(s.fixture, s.week, s.minutes)'
    BY <1>0, <1>2, <2>1 DEF ReadingsAreBehind
  <2>5. ReadingsAreBehind'
    BY <2>1, <2>2, <2>3, <2>4 DEF ReadingsAreBehind, NotAhead
  <2> QED BY <2>1, <2>5 DEF RowsAreOfTheTeams
<1>4. CASE UNCHANGED matchVars
  BY <1>4 DEF matchVars, FplIsSound, ReadingsAreBehind, NotAhead, RowsAreOfTheTeams
<1>5. CASE DeadlinePasses
  <2>1. FplIsSound'
    BY <1>0, <1>1, <1>5 DEF DeadlinePasses, FplIsSound
  <2> QED BY <1>5, <2>1 DEF DeadlinePasses, ReadingsAreBehind, NotAhead, RowsAreOfTheTeams
<1>6. CASE CacheRefreshes
  <2>1. cached' = fpl /\ UNCHANGED <<fpl, earliest, points, current, fixtures, stats>>
    BY <1>6 DEF CacheRefreshes
  <2>2. \A f \in Fixtures : NotAhead(f, cached[f].week, cached[f].clock)'
    BY <1>0, <1>1, <2>1 DEF NotAhead
  <2>3. ASSUME NEW f \in Fixtures, fixtures[f] # NoRow, fixtures[f].week = fpl[f].week,
               fixtures[f].week # NoWeek
        PROVE  fixtures[f].clock <= fpl[f].clock
    BY <1>0, <1>1, <2>3 DEF ReadingsAreBehind, NotAhead, FplIsSound
  <2>4. ReadingsAreBehind'
    BY <2>1, <2>2, <2>3 DEF ReadingsAreBehind, NotAhead
  <2> QED BY <2>1, <2>4 DEF FplIsSound, RowsAreOfTheTeams
<1>7. ASSUME NEW listed \in BOOLEAN, NEW live \in BOOLEAN, Tick(listed, live)
      PROVE  PageInv'
  <2>1. /\ UNCHANGED <<fpl, earliest, points, cached, current>>
        /\ fixtures' = Catalogue(listed)
        /\ stats' \subseteq stats \cup LiveFeed
    BY <1>7, TickReads
  <2>2. fixtures' = cached \/ fixtures' = fixtures
    BY <2>1 DEF Catalogue
  <2>3. ASSUME NEW s \in stats'
        PROVE  /\ NotAhead(s.fixture, s.week, s.minutes)
               /\ <<s.fixture, s.player>> \in Appears
               /\ s.minutes > 0 => <<s.fixture, s.player>> \in OnFromStart
    <3>1. CASE s \in stats
      BY <3>1 DEF ReadingsAreBehind, RowsAreOfTheTeams
    <3>2. CASE s \in LiveFeed
      BY <1>0, <1>1, <1>2, <3>2, FeedIsCurrent DEF IInv, NotAhead
    <3> QED BY <2>1, <3>1, <3>2
  <2>4. ASSUME NEW f \in Fixtures, fixtures'[f] # NoRow
        PROVE  /\ NotAhead(f, fixtures'[f].week, fixtures'[f].clock)
               /\ fixtures'[f].week = cached[f].week /\ fixtures'[f].week # NoWeek =>
                    fixtures'[f].clock <= cached[f].clock
    BY <1>0, <1>1, <2>2, <2>4 DEF ReadingsAreBehind
  <2>5. ReadingsAreBehind'
    BY <2>1, <2>3, <2>4 DEF ReadingsAreBehind, NotAhead
  <2> QED BY <2>1, <2>3, <2>5 DEF FplIsSound, RowsAreOfTheTeams
<1> QED BY <1>3, <1>4, <1>5, <1>6, <1>7 DEF MatchNext

\* Where the clocks stand, by its steps.
THEOREM PageInvariant == MatchSpec => []PageInv
<1>1. MatchInit => PageInv
  <2> SUFFICES ASSUME MatchInit PROVE PageInv
    OBVIOUS
  <2>1. /\ \A f \in Fixtures : \E w \in Weeks : fpl[f] = Unplayed(w)
        /\ \A f \in Fixtures : earliest[f] = 1 /\ fixtures[f] = NoRow
        /\ cached = fpl /\ stats = {} /\ current \in Weeks
    BY DEF MatchInit
  <2>2. \A f \in Fixtures : fpl[f].clock = 0 /\ fpl[f].stage = "upcoming" /\ fpl[f].week \in Weeks
    <3>1. \A w : /\ Unplayed(w).clock = 0 /\ Unplayed(w).stage = "upcoming"
                 /\ Unplayed(w).week = w
      BY DEF Unplayed
    <3> QED BY <2>1, <3>1
  <2>3. Weeks \subseteq Nat \ {0}
    BY MatchFeedAssumption
  <2> QED BY <2>1, <2>2, <2>3 DEF PageInv, FplIsSound, ReadingsAreBehind, NotAhead, RowsAreOfTheTeams
<1>2. IInv /\ IInv' /\ PageInv /\ [MatchNext]_matchVars => PageInv'
  BY PageStep
<1> QED BY <1>1, <1>2, Invariant, PTL DEF MatchSpec

-----------------------------------------------------------------------------
(* The clock a page shows. *)

\* The maximum of some numbers up to a bound.
LEMMA MaxIsGreatest ==
  ASSUME NEW b \in Nat, NEW S, S \subseteq 0..b, S # {}
  PROVE  Max(S) \in S /\ \A n \in S : n <= Max(S)
<1>1. \E n \in S : \A m \in S : m <= n
  BY GreatestNumber
<1>2. \E n \in S : \A m \in S : n >= m
  BY <1>1
<1> QED BY <1>2 DEF Max

\* What is known of how far a match is: the fixture list's clock, the players' minutes.
Readings(clock, rows, week, f) ==
  {clock} \cup {s.minutes : s \in {r \in rows : r.week = week /\ r.fixture = f}}

\* The clock a page shows is one it knows, and the furthest.
LEMMA KnownIsBounded ==
  ASSUME NEW clock \in 0..MaxClock, NEW rows, rows \subseteq StatRows, NEW week, NEW f
  PROVE  /\ Max(Readings(clock, rows, week, f)) \in Readings(clock, rows, week, f)
         /\ Max(Readings(clock, rows, week, f)) \in Nat
         /\ \A n \in Readings(clock, rows, week, f) : n <= Max(Readings(clock, rows, week, f))
<1>1. MaxClock \in Nat
  BY MatchFeedAssumption
<1>2. Readings(clock, rows, week, f) \subseteq 0..MaxClock /\ Readings(clock, rows, week, f) # {}
  BY DEF Readings, StatRows
<1> QED BY <1>1, <1>2, MaxIsGreatest

\* A tick takes no row of a match that stays where it is back to fewer minutes.
LEMMA MinutesAreKept ==
  ASSUME IInv, PageInv, NEW listed \in BOOLEAN, NEW live \in BOOLEAN, Tick(listed, live),
         NEW r \in stats, fixtures'[r.fixture].week = fixtures[r.fixture].week
  PROVE  \E s \in stats' : /\ s.week = r.week /\ s.fixture = r.fixture /\ s.minutes >= r.minutes
<1> DEFINE catalogue == Catalogue(listed)
           kept == IF listed THEN WithoutMoved(catalogue) ELSE stats
<1>1. /\ fixtures' = catalogue
      /\ stats' = IF live /\ LiveDue(catalogue) THEN Merged(kept, Usable(catalogue)) ELSE kept
  BY DEF Tick
<1>2. r \in kept
  BY <1>1 DEF WithoutMoved, HasMoved
<1>3. r \in StatRows /\ r.minutes \in Nat /\ r.fixture \in Fixtures
  BY MatchFeedAssumption DEF IInv, MatchTypeOK, StatRows
<1> HIDE DEF catalogue
<1>4. OneEach(kept) /\ kept \subseteq stats
  <2>1. kept \subseteq stats
    BY DEF WithoutMoved
  <2> QED BY <2>1, CountedOnceIs DEF IInv, OneEach
<1> HIDE DEF kept
<1>5. CASE r \in stats'
  BY <1>3, <1>5
<1>6. CASE r \notin stats'
  <2>1. PICK s \in Usable(catalogue) : SameKey(r, s) /\ ~Same(r, s)
    BY <1>1, <1>2, <1>6 DEF Merged
  <2>2. \A q \in kept : SameKey(q, s) => ~Same(q, s)
    BY <1>2, <1>4, <2>1 DEF OneEach, SameKey
  <2>3. s \in stats'
    BY <1>1, <1>2, <1>6, <2>1, <2>2 DEF Merged
  <2>4. s \in LiveFeed
    BY <2>1 DEF Usable
  <2>5. /\ s \in StatRows /\ s.week = current /\ fpl[s.fixture].week = current
        /\ s.minutes = Minutes(<<s.fixture, s.player>>)
    BY <2>4, FeedIsCurrent DEF IInv
  <2>6. s.week = r.week /\ s.fixture = r.fixture /\ s.player = r.player
    BY <2>1 DEF SameKey
  <2>7. s.minutes >= r.minutes
    <3>1. CASE r.minutes = 0
      <4>1. s.minutes \in Nat
        BY <2>5, MatchFeedAssumption DEF StatRows
      <4> QED BY <3>1, <4>1
    <3>2. CASE r.minutes > 0
      <4>1. s.minutes = fpl[r.fixture].clock
        BY <2>5, <2>6, <3>2 DEF PageInv, RowsAreOfTheTeams, Minutes
      <4>2. NotAhead(r.fixture, r.week, r.minutes)
        BY DEF PageInv, ReadingsAreBehind
      <4>3. r.week = fpl[r.fixture].week /\ r.week # NoWeek
        BY <1>3, <2>5, <2>6, MatchFeedAssumption DEF StatRows
      <4>4. earliest[r.fixture] <= r.week
        BY <1>3, <4>3 DEF PageInv, FplIsSound
      <4>5. earliest[r.fixture] \in Nat /\ r.week \in Nat /\ fpl[r.fixture].clock \in Nat
        BY <1>3, MatchFeedAssumption DEF IInv, MatchTypeOK, StatRows, Schedule
      <4> QED BY <3>2, <1>3, <4>1, <4>2, <4>4, <4>5 DEF NotAhead
    <3> QED BY <1>3, <3>1, <3>2
  <2> QED BY <2>3, <2>6, <2>7
<1> QED BY <1>5, <1>6

\* No step turns the clock of a match that stays in its Gameweek back.
LEMMA NoClockTurnsBack ==
  ASSUME IInv, IInv', PageInv, MatchNext,
         NEW f \in Fixtures, fixtures[f] # NoRow, fixtures[f].week # NoWeek,
         fixtures'[f].week = fixtures[f].week
  PROVE  ShownClock(fixtures[f].week, f)' >= ShownClock(fixtures[f].week, f)
<1> DEFINE week == fixtures[f].week
           old  == Readings(fixtures[f].clock, stats, week, f)
           new  == Readings(fixtures'[f].clock, stats', week, f)
<1>1. ShownClock(fixtures[f].week, f)' = Max(new) /\ ShownClock(fixtures[f].week, f) = Max(old)
  BY DEF ShownClock, Readings
<1>2. /\ fixtures[f] \in Schedule /\ fixtures[f].clock \in 0..MaxClock /\ stats \subseteq StatRows
  BY DEF IInv, MatchTypeOK, Schedule
<1>3. /\ fixtures'[f] \in Schedule /\ fixtures'[f].clock \in 0..MaxClock /\ stats' \subseteq StatRows
      /\ fixtures[f].clock <= fixtures'[f].clock
      /\ \A r \in stats : r.week = week /\ r.fixture = f =>
           \E s \in stats' : s.week = r.week /\ s.fixture = r.fixture /\ s.minutes >= r.minutes
  <2>1. CASE UNCHANGED <<fixtures, stats>>
    <3>1. \A r \in stats : r.minutes \in Nat
      BY <1>2, MatchFeedAssumption DEF StatRows
    <3>2. fixtures[f].clock \in Nat
      BY <1>2, MatchFeedAssumption
    <3> QED BY <1>2, <2>1, <3>1, <3>2
  <2>2. ASSUME NEW listed \in BOOLEAN, NEW live \in BOOLEAN, Tick(listed, live)
        PROVE  /\ fixtures'[f] \in Schedule /\ fixtures'[f].clock \in 0..MaxClock
               /\ stats' \subseteq StatRows
               /\ fixtures[f].clock <= fixtures'[f].clock
               /\ \A r \in stats : r.week = week /\ r.fixture = f =>
                    \E s \in stats' : s.week = r.week /\ s.fixture = r.fixture
                                      /\ s.minutes >= r.minutes
    <3>1. fixtures'[f] = cached[f] \/ fixtures'[f] = fixtures[f]
      BY <2>2, TickReads DEF Catalogue
    <3>2. fixtures'[f] \in Schedule /\ stats' \subseteq StatRows
      BY <1>2, <3>1 DEF IInv, MatchTypeOK
    <3>3. fixtures'[f].clock \in 0..MaxClock
      BY <3>2 DEF Schedule
    <3>4. fixtures[f].clock <= fixtures'[f].clock
      BY <1>2, <3>1, MatchFeedAssumption DEF PageInv, ReadingsAreBehind
    <3>5. \A r \in stats : r.week = week /\ r.fixture = f =>
            \E s \in stats' : s.week = r.week /\ s.fixture = r.fixture /\ s.minutes >= r.minutes
      BY <2>2, MinutesAreKept
    <3> QED BY <3>2, <3>3, <3>4, <3>5
  <2>3. UNCHANGED <<fixtures, stats>> \/ \E listed, live \in BOOLEAN : Tick(listed, live)
    BY DEF MatchNext, KicksOff, Minute, FullTime, Scores, Moves, DeadlinePasses, CacheRefreshes
  <2> QED BY <2>1, <2>2, <2>3
<1> HIDE DEF week
<1>4. /\ Max(old) \in old /\ Max(old) \in Nat /\ Max(new) \in Nat
      /\ \A n \in new : n <= Max(new)
  BY <1>2, <1>3, KnownIsBounded
<1>5. \A n \in old : \E k \in new : k \in Nat /\ n <= k
  <2>1. \A s \in stats \cup stats' : s.minutes \in Nat
    BY <1>2, <1>3, MatchFeedAssumption DEF StatRows
  <2>2. fixtures[f].clock \in Nat /\ fixtures'[f].clock \in Nat
    BY <1>2, <1>3, MatchFeedAssumption
  <2>3. ASSUME NEW r \in stats, r.week = week, r.fixture = f
        PROVE  \E k \in new : k \in Nat /\ r.minutes <= k
    <3>1. PICK s \in stats' : s.week = r.week /\ s.fixture = r.fixture /\ s.minutes >= r.minutes
      BY <1>3, <2>3
    <3>2. s.minutes \in new
      BY <2>3, <3>1 DEF Readings
    <3> QED BY <2>1, <3>1, <3>2
  <2>4. \E k \in new : k \in Nat /\ fixtures[f].clock <= k
    BY <1>3, <2>2 DEF Readings
  <2> QED BY <2>3, <2>4 DEF Readings
<1>6. PICK k \in new : k \in Nat /\ Max(old) <= k
  BY <1>4, <1>5
<1>7. k <= Max(new)
  BY <1>4
<1>8. Max(old) <= Max(new)
  <2> HIDE DEF old, new
  <2> QED BY <1>4, <1>6, <1>7
<1> QED BY <1>1, <1>8 DEF week

\* A tick that has read the live feed has the minute of a player who is on.
LEMMA SomebodyHasTheMinute ==
  ASSUME IInv, NEW listed \in BOOLEAN, Tick(listed, TRUE),
         NEW f \in Fixtures, fixtures[f] # NoRow,
         fixtures'[f].week = current, fpl[f].week = current, LiveDue(fixtures')
  PROVE  \E s \in stats' : s.week = current /\ s.fixture = f /\ s.minutes = fpl[f].clock
<1> DEFINE catalogue == Catalogue(listed)
           kept == IF listed THEN WithoutMoved(catalogue) ELSE stats
<1>1. /\ fixtures' = catalogue /\ stats' = Merged(kept, Usable(catalogue))
      /\ UNCHANGED current
  BY DEF Tick
<1>2. OneEach(Usable(catalogue))
  BY FeedIsSound DEF IInv, Usable, OneEach
<1>3. PICK p \in Players : <<f, p>> \in OnFromStart
  BY MatchFeedAssumption
<1> DEFINE s == [week |-> current, fixture |-> f, player |-> p,
                 minutes |-> Minutes(<<f, p>>), points |-> points[<<f, p>>]]
<1>4. s \in LiveFeed
  BY <1>3, MatchFeedAssumption DEF LiveFeed
<1>5. f \in Known(catalogue)
  <2>1. fixtures' \in [Fixtures -> Schedule \cup {NoRow}]
    BY <1>1, CatalogueType DEF IInv
  <2>2. fixtures'[f] # NoRow
    <3>1. CASE listed
      BY <3>1, <1>1, MatchFeedAssumption DEF Catalogue, IInv, MatchTypeOK
    <3>2. CASE ~listed
      BY <3>2, <1>1 DEF Catalogue
    <3> QED BY <3>1, <3>2
  <2> QED BY <1>1, <2>2 DEF Known
<1>6. s.week = current /\ s.fixture = f /\ s.player = p /\ s.minutes = fpl[f].clock
  BY <1>3 DEF Minutes
<1>7. s \in Usable(catalogue)
  BY <1>4, <1>5, <1>6 DEF Usable
<1> HIDE DEF s, catalogue, kept
<1>8. CASE s \in stats'
  BY <1>6, <1>8
<1>9. CASE s \notin stats'
  <2>1. PICK r \in kept : SameKey(r, s) /\ Same(r, s)
    BY <1>1, <1>7, <1>9 DEF Merged
  <2>2. ASSUME NEW q \in Usable(catalogue), SameKey(r, q) PROVE Same(r, q)
    <3>1. q.fixture = s.fixture /\ q.player = s.player
      BY <2>1, <2>2 DEF SameKey
    <3>2. q = s
      BY <1>2, <1>7, <3>1 DEF OneEach
    <3> QED BY <2>1, <3>2
  <2>3. r \in stats'
    BY <1>1, <2>1, <2>2 DEF Merged
  <2> QED BY <1>6, <2>1, <2>3 DEF Same, SameKey
<1> QED BY <1>8, <1>9

\* A tick that has read the live feed shows the minute it is.
LEMMA TickTellsTheTime ==
  ASSUME IInv, IInv', PageInv', NEW listed \in BOOLEAN, Tick(listed, TRUE),
         NEW f \in Fixtures, fixtures[f] # NoRow, fixtures'[f].week = fixtures[f].week,
         fixtures'[f].week = current, fpl[f].week = current, LiveDue(fixtures')
  PROVE  ShownClock(current, f)' = fpl[f].clock
<1> DEFINE known == Readings(fixtures'[f].clock, stats', current, f)
<1>1. /\ UNCHANGED <<fpl, current, earliest>>
      /\ ShownClock(current, f)' = Max(known)
  BY DEF Tick, ShownClock, Readings
<1>2. /\ current \in Weeks /\ current \in Nat \ {0} /\ fpl[f].clock \in 0..MaxClock
      /\ earliest[f] \in Nat /\ MaxClock \in Nat
  BY MatchFeedAssumption DEF IInv, MatchTypeOK, Schedule
<1>3. /\ fixtures'[f] \in Schedule /\ fixtures'[f] # NoRow /\ fixtures'[f].clock \in 0..MaxClock
      /\ stats' \subseteq StatRows /\ \A s \in stats' : s.minutes \in 0..MaxClock
  <2>1. fixtures'[f] = cached[f] \/ fixtures'[f] = fixtures[f]
    BY DEF Tick, Catalogue
  <2>2. fixtures'[f] \in Schedule
    BY <2>1 DEF IInv, MatchTypeOK
  <2>3. stats' \subseteq StatRows
    BY DEF IInv, MatchTypeOK
  <2> QED BY <2>2, <2>3, MatchFeedAssumption DEF Schedule, StatRows
<1>4. fpl[f].clock \in known
  <2>1. PICK s \in stats' : s.week = current /\ s.fixture = f /\ s.minutes = fpl[f].clock
    BY SomebodyHasTheMinute
  <2> QED BY <2>1 DEF Readings
<1>5. earliest[f] <= current
  BY <1>1, <1>2, MatchFeedAssumption DEF PageInv, FplIsSound
<1>6. \A n \in 0..MaxClock : NotAhead(f, current, n) => n <= fpl[f].clock
  BY <1>1, <1>2, <1>5 DEF NotAhead
<1>7. NotAhead(f, current, fixtures'[f].clock)
  BY <1>1, <1>3 DEF PageInv, ReadingsAreBehind, NotAhead
<1>8. \A s \in stats' : s.week = current /\ s.fixture = f => NotAhead(f, current, s.minutes)
  BY <1>1 DEF PageInv, ReadingsAreBehind, NotAhead
<1>9. \A n \in known : n \in 0..MaxClock /\ n <= fpl[f].clock
  BY <1>3, <1>6, <1>7, <1>8 DEF Readings
<1>10. Max(known) \in known /\ Max(known) \in Nat /\ \A n \in known : n <= Max(known)
  BY <1>3, KnownIsBounded
<1>11. Max(known) = fpl[f].clock
  <2>1. Max(known) <= fpl[f].clock /\ fpl[f].clock <= Max(known)
    BY <1>4, <1>9, <1>10
  <2> QED BY <1>2, <1>10, <2>1
<1> QED BY <1>1, <1>11

\* However far the fixture list is behind, a tick that has read the live feed shows
\* the minute it is, and no tick turns a match's clock back.
THEOREM ClockIsRight == MatchSpec => ClockTellsTheTime
<1>1. ASSUME IInv, IInv', PageInv, PageInv', [MatchNext]_matchVars
      PROVE  [\A f \in Fixtures :
                fixtures[f] # NoRow /\ fixtures'[f].week = fixtures[f].week /\ fixtures[f].week # NoWeek =>
                  /\ ShownClock(fixtures[f].week, f)' >= ShownClock(fixtures[f].week, f)
                  /\ /\ \E listed \in BOOLEAN : Tick(listed, TRUE)
                     /\ fixtures'[f].week = current /\ fpl[f].week = current
                     /\ LiveDue(fixtures')
                     => ShownClock(current, f)' = fpl[f].clock]_matchVars
  BY <1>1, NoClockTurnsBack, TickTellsTheTime
<1> QED BY <1>1, Invariant, PageInvariant, PTL DEF MatchSpec, ClockTellsTheTime

-----------------------------------------------------------------------------
(* The sums of the page. *)

\* A function tells the elements of a set apart by values in another.
TellsApart(f, S, T) == /\ \A x \in S : f[x] \in T
                       /\ \A x, y \in S : f[x] = f[y] => x = y

\* The values it has there.
Values(f, S) == {f[x] : x \in S}

\* A function that tells the elements of a set apart counts them by its values.
LEMMA CountedByValues ==
  ASSUME NEW S, NEW T, IsFiniteSet(T), NEW f, TellsApart(f, S, T)
  PROVE  /\ IsFiniteSet(S)
         /\ IsFiniteSet(Values(f, S)) /\ Cardinality(Values(f, S)) = Cardinality(S)
<1> DEFINE g == [x \in S |-> f[x]]
<1>1. g \in Injection(S, T)
  BY DEF TellsApart, Injection, IsInjective
<1>2. g \in Bijection(S, Values(f, S))
  BY DEF Values, TellsApart, Bijection, Injection, IsInjective, Surjection
<1> HIDE DEF g
<1>3. IsFiniteSet(S)
  BY <1>1, FS_Injection
<1> QED BY <1>2, <1>3, FS_Bijection DEF ExistsBijection

\* The matches a player's club has in a Gameweek.
Club(week, p) == {f \in InWeek(week) : <<f, p>> \in Appears}

\* His rows tell his matches apart, and are of his matches.
LEMMA RowsAreMatches ==
  ASSUME IInv, PageInv, NEW week, NEW p
  PROVE  /\ IsFiniteSet(Club(week, p)) /\ Club(week, p) \subseteq Fixtures
         /\ \A s \in Rows(week, p) : s.fixture \in Club(week, p)
         /\ \A r, s \in Rows(week, p) : r.fixture = s.fixture => r = s
         /\ \A s \in Rows(week, p) : s.points \in Nat
<1>1. Club(week, p) \subseteq Fixtures
  BY DEF Club, InWeek
<1>2. \A s \in Rows(week, p) : s \in stats /\ s \in StatRows /\ s.week = week /\ s.player = p
  BY DEF Rows, IInv, MatchTypeOK
<1>3. \A s \in Rows(week, p) : s.fixture \in Club(week, p)
  <2>1. SUFFICES ASSUME NEW s \in Rows(week, p) PROVE s.fixture \in Club(week, p)
    OBVIOUS
  <2>2. s.fixture \in Fixtures
    BY <1>2 DEF StatRows
  <2>3. fixtures[s.fixture] # NoRow /\ fixtures[s.fixture].week = week
    BY <1>2 DEF IInv, CountedOnce
  <2>4. <<s.fixture, p>> \in Appears
    BY <1>2 DEF PageInv, RowsAreOfTheTeams
  <2> QED BY <2>2, <2>3, <2>4 DEF Club, InWeek
<1>4. \A r, s \in Rows(week, p) : r.fixture = s.fixture => r = s
  BY <1>2 DEF IInv, CountedOnce
<1>5. \A s \in Rows(week, p) : s.points \in Nat
  BY <1>2, MatchFeedAssumption DEF StatRows
<1> QED BY <1>1, <1>3, <1>4, <1>5, MatchFeedAssumption, FS_Subset

\* So the rows of some of his matches are as many as the matches that have one.
LEMMA RowsAreCounted ==
  ASSUME IInv, PageInv, NEW week, NEW p, NEW some, some \subseteq Rows(week, p)
  PROVE  /\ IsFiniteSet(some)
         /\ Cardinality(some) = Cardinality({s.fixture : s \in some})
<1> DEFINE at == [s \in some |-> s.fixture]
<1>1. /\ IsFiniteSet(Club(week, p))
      /\ \A x \in some : at[x] \in Club(week, p)
      /\ \A x, y \in some : at[x] = at[y] => x = y
      /\ {at[x] : x \in some} = {s.fixture : s \in some}
  BY RowsAreMatches
<1> HIDE DEF at
<1>2. TellsApart(at, some, Club(week, p))
  BY <1>1 DEF TellsApart
<1>3. IsFiniteSet(some) /\ Cardinality(Values(at, some)) = Cardinality(some)
  BY <1>1, <1>2, CountedByValues
<1> QED BY <1>1, <1>3 DEF Values

\* Once FPL has listed a player for all his matches, his rows count them as the
\* catalogue does.
LEMMA ListedIsCounted ==
  ASSUME IInv, PageInv, NEW week, NEW p, Listed(week, p)
  PROVE  LET over == {f \in Club(week, p) : fixtures[f].stage = "over"} IN
         /\ Progress(week, p).total = Cardinality(Club(week, p))
         /\ Progress(week, p).finished = Cardinality(over)
         /\ Cardinality(Open(week, p)) = Cardinality(Club(week, p)) - Cardinality(over)
         /\ Cardinality(Club(week, p)) \in Nat /\ Cardinality(over) \in Nat
         /\ Cardinality(Open(week, p)) \in Nat
         /\ Cardinality(Open(week, p)) = 0 <=> Open(week, p) = {}
<1> DEFINE club == Club(week, p)
           over == {f \in club : fixtures[f].stage = "over"}
           rest == club \ over
           overRows == {s \in Rows(week, p) : s.fixture \in InWeek(week)
                                              /\ fixtures[s.fixture].stage \in {"over"}}
           shown(f) == [fixture |-> f, minutes |-> ShownClock(week, f),
                        started |-> fixtures[f].stage # "upcoming",
                        playedOut |-> fixtures[f].stage = "over"]
           show == [f \in rest |-> shown(f)]
           at   == [x \in Open(week, p) |-> x.fixture]
<1>1. /\ IsFiniteSet(club) /\ \A s \in Rows(week, p) : s.fixture \in club
  BY RowsAreMatches
<1>2. PlayerFixtures(week, p) = {shown(f) : f \in club}
  BY DEF PlayerFixtures, Club
<1>3. {x.fixture : x \in PlayerFixtures(week, p)} = club
  <2>1. \A f \in club : shown(f).fixture = f
    OBVIOUS
  <2> HIDE DEF shown, club
  <2> QED BY <1>2, <2>1
<1>4. {s.fixture : s \in Rows(week, p)} = club
  BY <1>1, <1>3 DEF Listed
<1>5. Progress(week, p).total = Cardinality(club)
  BY <1>4, RowsAreCounted DEF Progress
<1>6. Progress(week, p).finished = Cardinality(over)
  <2>1. {s.fixture : s \in overRows} = over
    BY <1>4 DEF Club
  <2>2. overRows \subseteq Rows(week, p)
    OBVIOUS
  <2>3. Progress(week, p).finished = Cardinality(overRows)
    BY DEF Progress
  <2> HIDE DEF overRows, over
  <2> QED BY <2>1, <2>2, <2>3, RowsAreCounted
<1>7. Open(week, p) = {x \in {shown(f) : f \in club} : ~x.playedOut}
  BY <1>2 DEF Open
<1>8. /\ \A x \in Open(week, p) : at[x] \in club
      /\ \A x, y \in Open(week, p) : at[x] = at[y] => x = y
      /\ {at[x] : x \in Open(week, p)} = rest
  <2>1. \A f \in club : /\ shown(f).fixture = f
                        /\ shown(f).playedOut <=> fixtures[f].stage = "over"
    OBVIOUS
  <2>2. \A x \in Open(week, p) : at[x] = x.fixture
    OBVIOUS
  <2> HIDE DEF shown, club, at
  <2> QED BY <1>7, <2>1, <2>2
<1> HIDE DEF at
<1>9. IsFiniteSet(Open(week, p)) /\ Cardinality(Open(week, p)) = Cardinality(rest)
  <2>1. TellsApart(at, Open(week, p), club)
    BY <1>8 DEF TellsApart
  <2>2. Values(at, Open(week, p)) = rest
    BY <1>8 DEF Values
  <2> QED BY <1>1, <2>1, <2>2, CountedByValues
<1>10. /\ over \in SUBSET club /\ club \cap over = over
       /\ IsFiniteSet(over)
       /\ Cardinality(rest) = Cardinality(club) - Cardinality(over)
  <2>1. over \in SUBSET club /\ club \cap over = over
    OBVIOUS
  <2> HIDE DEF over, club
  <2>2. IsFiniteSet(club) /\ IsFiniteSet(over)
    BY <1>1, <2>1, FS_Subset
  <2>3. Cardinality(club \ over) = Cardinality(club) - Cardinality(club \cap over)
    BY <2>2, FS_Difference
  <2> QED BY <2>1, <2>2, <2>3
<1>11. /\ Cardinality(club) \in Nat /\ Cardinality(over) \in Nat
       /\ Cardinality(Open(week, p)) \in Nat
       /\ Cardinality(Open(week, p)) = 0 <=> Open(week, p) = {}
  BY <1>1, <1>9, <1>10, FS_CardinalityType, FS_EmptySet
<1> QED BY <1>5, <1>6, <1>9, <1>10, <1>11

\* So what his rows leave unresolved is what the catalogue has still to be played.
LEMMA ListedAgrees ==
  ASSUME IInv, PageInv, NEW week, NEW p, Listed(week, p)
  PROVE  /\ Unresolved(Progress(week, p)) = Cardinality(Open(week, p))
         /\ Cardinality(Open(week, p)) \in Nat
         /\ Cardinality(Open(week, p)) > 0 <=> Open(week, p) # {}
         /\ State(Progress(week, p)) = "playing" => Open(week, p) # {}
         /\ State(Progress(week, p)) = "finished" => Open(week, p) = {}
<1> DEFINE progress == Progress(week, p)
           over == {f \in Club(week, p) : fixtures[f].stage = "over"}
           open == Cardinality(Open(week, p))
<1>1. /\ progress.total \in Nat /\ progress.finished \in Nat /\ open \in Nat
      /\ open = progress.total - progress.finished
      /\ open = 0 <=> Open(week, p) = {}
  <2>1. /\ progress.total = Cardinality(Club(week, p)) /\ progress.finished = Cardinality(over)
        /\ open = Cardinality(Club(week, p)) - Cardinality(over)
        /\ Cardinality(Club(week, p)) \in Nat /\ Cardinality(over) \in Nat /\ open \in Nat
        /\ open = 0 <=> Open(week, p) = {}
    BY ListedIsCounted
  <2> HIDE DEF progress, over, open
  <2> QED BY <2>1
<1> HIDE DEF progress, open
<1>2. Unresolved(progress) = open
  <2>1. {0, open} \subseteq 0..open /\ {0, open} # {}
    BY <1>1
  <2>2. Max({0, open}) \in {0, open} /\ \A n \in {0, open} : n <= Max({0, open})
    BY <1>1, <2>1, MaxIsGreatest
  <2>3. Max({0, open}) = open
    BY <1>1, <2>2
  <2> QED BY <1>1, <2>3 DEF Unresolved
<1>3. State(progress) = "playing" => Open(week, p) # {}
  BY <1>1 DEF State
<1>4. State(progress) = "finished" => Open(week, p) = {}
  BY <1>1 DEF State
<1> QED BY <1>1, <1>2, <1>3, <1>4 DEF progress, open

\* What the page counts as left to play is what it lists so.
LEMMA CountsDoAgree ==
  ASSUME IInv, PageInv
  PROVE  CountsAgree
<1>1. ASSUME NEW week \in Weeks, NEW entry \in Squad(Home, week) \cup Squad(Away, week),
             Listed(week, entry.player)
      PROVE  /\ entry.unresolved = Cardinality(Open(week, entry.player))
             /\ entry.state = "playing" => Open(week, entry.player) # {}
             /\ entry.state = "finished" => Open(week, entry.player) = {}
  <2>1. PICK squad, p : entry = Entry(squad, week, p)
    BY <1>1 DEF Squad
  <2>2. /\ entry.player = p /\ entry.unresolved = Unresolved(Progress(week, p))
        /\ entry.state = State(Progress(week, p))
    BY <2>1 DEF Entry
  <2> QED BY <1>1, <2>2, ListedAgrees
<1>2. ASSUME NEW week \in Weeks, NEW squad, \A p \in Fielded(squad) : Listed(week, p)
      PROVE  LET due == {p \in Fielded(squad) : Open(week, p) # {}} IN
             Remaining(squad, week) =
               [players   |-> Cardinality(due),
                effective |-> SumFunction([p \in due |-> squad[p].multiplier]),
                fixtures  |-> SumFunction([p \in due |-> Cardinality(Open(week, p))])]
  <2> DEFINE due  == {p \in Fielded(squad) : Open(week, p) # {}}
             left == {p \in Fielded(squad) : Unresolved(Progress(week, p)) > 0}
  <2>1. \A p \in Fielded(squad) :
          /\ Unresolved(Progress(week, p)) = Cardinality(Open(week, p))
          /\ Cardinality(Open(week, p)) > 0 <=> Open(week, p) # {}
    BY <1>2, ListedAgrees
  <2>2. left = due
    BY <2>1
  <2>3. [p \in left |-> Unresolved(Progress(week, p))] = [p \in due |-> Cardinality(Open(week, p))]
    BY <2>1, <2>2
  <2>4. [p \in left |-> squad[p].multiplier] = [p \in due |-> squad[p].multiplier]
    BY <2>2
  <2>5. Remaining(squad, week) =
          [players   |-> Cardinality(left),
           effective |-> SumFunction([p \in left |-> squad[p].multiplier]),
           fixtures  |-> SumFunction([p \in left |-> Unresolved(Progress(week, p))])]
    BY DEF Remaining
  <2> HIDE DEF left
  <2> QED BY <2>2, <2>3, <2>4, <2>5
<1> QED BY <1>1, <1>2 DEF CountsAgree

-----------------------------------------------------------------------------
(* The margin. *)

\* A player's points in a Gameweek are a number.
LEMMA PointsAreNumbers ==
  ASSUME IInv, PageInv, NEW week, NEW p
  PROVE  PointsOf(week, p) \in Int
<1> DEFINE h == [s \in Rows(week, p) |-> s.points]
<1>1. IsFiniteSet(Rows(week, p))
  BY RowsAreCounted
<1>2. DOMAIN h = Rows(week, p) /\ \A s \in Rows(week, p) : h[s] \in Int
  BY RowsAreMatches
<1>3. PointsOf(week, p) = SumFunctionOnSet(h, DOMAIN h)
  BY DEF PointsOf, SumFunction
<1> HIDE DEF h
<1> QED BY <1>1, <1>2, <1>3, SumIsInt

\* A player's multiplier is his pick's, and nothing where there is none.
LEMMA MultiplierIs ==
  ASSUME NEW squad \in {Home, Away}, NEW p
  PROVE  /\ p \in DOMAIN squad => Multiplier(squad, p) = squad[p].multiplier
         /\ p \notin DOMAIN squad => Multiplier(squad, p) = 0
         /\ Multiplier(squad, p) \in Int
<1>1. ASSUME NEW n \in 0..3 PROVE Max({0, n}) = n
  <2>1. {0, n} \subseteq 0..3 /\ {0, n} # {}
    OBVIOUS
  <2>2. Max({0, n}) \in {0, n} /\ \A m \in {0, n} : m <= Max({0, n})
    BY <2>1, MaxIsGreatest
  <2> QED BY <2>2
<1>2. CASE p \in DOMAIN squad
  <2>1. squad[p].multiplier \in 0..3
    BY <1>2, SquadAssumption
  <2>2. Multiplier(squad, p) = Max({0, squad[p].multiplier})
    BY <1>2 DEF Multiplier
  <2> QED BY <1>1, <1>2, <2>1, <2>2
<1>3. CASE p \notin DOMAIN squad
  BY <1>3 DEF Multiplier
<1> QED BY <1>2, <1>3

\* A side's list adds up the points of those it fields, each by his multiplier.
LEMMA ListAddsUp ==
  ASSUME IInv, PageInv, NEW week, NEW squad \in {Home, Away},
         NEW most, IsFiniteSet(most), Fielded(squad) \subseteq most, NEW h,
         \A p \in most : h[p] = PointsOf(week, p) * Multiplier(squad, p)
  PROVE  /\ Contribution(squad, week) = SumFunctionOnSet(h, most)
         /\ \A p \in most : h[p] \in Int
<1>1. /\ IsFiniteSet(DOMAIN squad)
      /\ \A p \in DOMAIN squad : squad[p].multiplier \in 0..3
  BY SquadAssumption, MatchFeedAssumption, FS_Subset
<1>2. \A p : PointsOf(week, p) \in Int
  BY PointsAreNumbers
<1>3. \A p : /\ p \in DOMAIN squad => Multiplier(squad, p) = squad[p].multiplier
             /\ p \notin DOMAIN squad => Multiplier(squad, p) = 0
  BY MultiplierIs
<1> DEFINE e == [p \in DOMAIN squad |-> Entry(squad, week, p)]
           v == [x \in Squad(squad, week) |-> x.points * x.multiplier]
           k == [p \in DOMAIN squad |-> PointsOf(week, p) * squad[p].multiplier]
<1>4. /\ {e[p] : p \in DOMAIN squad} = Squad(squad, week)
      /\ \A p \in DOMAIN squad : e[p].player = p
      /\ \A p \in DOMAIN squad : v[e[p]] = k[p]
  BY DEF Squad, Entry
<1>5. \A p \in DOMAIN squad : k[p] \in Int
  <2>1. \A p \in DOMAIN squad : PointsOf(week, p) \in Int /\ squad[p].multiplier \in Int
    BY <1>1, <1>2
  <2>2. \A a, b \in Int : a * b \in Int
    OBVIOUS
  <2> QED BY <2>1, <2>2
<1>6. Contribution(squad, week) = SumFunctionOnSet(v, {e[p] : p \in DOMAIN squad})
  BY <1>4 DEF Contribution, SumFunction
<1> HIDE DEF e, v
<1>7. Contribution(squad, week) = SumFunctionOnSet(k, DOMAIN squad)
  <2> HIDE DEF k
  <2>1. \A p, q \in DOMAIN squad : e[p] = e[q] => p = q
    BY <1>4
  <2>2. \A p \in DOMAIN squad : v[e[p]] \in Int /\ k[p] = v[e[p]]
    BY <1>4, <1>5
  <2>3. SumFunctionOnSet(v, {e[p] : p \in DOMAIN squad}) = SumFunctionOnSet(k, DOMAIN squad)
    <3> DEFINE own == DOMAIN squad
    <3>1. /\ IsFiniteSet(own) /\ \A p, q \in own : e[p] = e[q] => p = q
          /\ \A p \in own : v[e[p]] \in Int /\ k[p] = v[e[p]]
      BY <1>1, <2>1, <2>2
    <3> HIDE DEF own
    <3> QED BY <3>1, SumOfImages DEF own
  <2> QED BY <1>6, <2>3
<1>8. SumFunctionOnSet(k, DOMAIN squad) = SumFunctionOnSet(k, Fielded(squad))
  <2>1. Fielded(squad) \in SUBSET DOMAIN squad
    BY DEF Fielded
  <2>2. \A p \in DOMAIN squad \ Fielded(squad) : k[p] = 0
    BY <1>1, <1>2 DEF Fielded
  <2> HIDE DEF k
  <2> QED BY <1>1, <1>5, <2>1, <2>2, SumOfTheSame
<1>9. \A p \in most : h[p] \in Int
  <2>1. \A p \in most : Multiplier(squad, p) \in Int
    BY <1>1, <1>3
  <2>2. \A a, b \in Int : a * b \in Int
    OBVIOUS
  <2> QED BY <1>2, <2>1, <2>2
<1>10. SumFunctionOnSet(h, most) = SumFunctionOnSet(k, Fielded(squad))
  <2>1. \A p \in Fielded(squad) : k[p] = h[p]
    BY <1>3 DEF Fielded
  <2>2. \A p \in most \ Fielded(squad) : h[p] = 0
    BY <1>1, <1>2, <1>3 DEF Fielded
  <2> HIDE DEF k
  <2> QED BY <1>9, <2>1, <2>2, SumOfTheSame
<1> QED BY <1>7, <1>8, <1>9, <1>10

\* The swings of the differentials add up to the margin.
LEMMA MarginIsExplained ==
  ASSUME IInv, PageInv
  PROVE  MarginIsTheSwings
<1> SUFFICES ASSUME NEW week \in Weeks
             PROVE  SumFunction([l \in {n \in Lines(week) : n.net # 0} |-> l.swing])
                      = Contribution(Home, week) - Contribution(Away, week)
  BY DEF MarginIsTheSwings
<1> DEFINE apart == {p \in Compared : Multiplier(Home, p) - Multiplier(Away, p) # 0}
           line  == [p \in apart |-> Line(week, p)]
           swing == [l \in {n \in Lines(week) : n.net # 0} |-> l.swing]
           home  == [p \in Compared |-> PointsOf(week, p) * Multiplier(Home, p)]
           away  == [p \in Compared |-> PointsOf(week, p) * Multiplier(Away, p)]
           net   == [p \in Compared |-> PointsOf(week, p)
                                          * (Multiplier(Home, p) - Multiplier(Away, p))]
<1>1. IsFiniteSet(Compared)
  <2>1. Compared \in SUBSET Players
    BY SquadAssumption DEF Compared, Fielded
  <2> QED BY <2>1, MatchFeedAssumption, FS_Subset
<1>2. /\ Contribution(Home, week) = SumFunctionOnSet(home, Compared)
      /\ Contribution(Away, week) = SumFunctionOnSet(away, Compared)
      /\ \A p \in Compared : home[p] \in Int /\ away[p] \in Int
  <2>1. Fielded(Home) \subseteq Compared /\ Fielded(Away) \subseteq Compared
    BY DEF Compared
  <2>2. /\ \A p \in Compared : home[p] = PointsOf(week, p) * Multiplier(Home, p)
        /\ \A p \in Compared : away[p] = PointsOf(week, p) * Multiplier(Away, p)
    OBVIOUS
  <2> HIDE DEF home, away
  <2> QED BY <1>1, <2>1, <2>2, ListAddsUp
<1>3. \A p \in Compared : net[p] = home[p] - away[p]
  <2>1. \A p \in Compared : /\ PointsOf(week, p) \in Int
                            /\ Multiplier(Home, p) \in Int /\ Multiplier(Away, p) \in Int
    BY PointsAreNumbers, MultiplierIs
  <2>2. \A a, b, c \in Int : a * (b - c) = a * b - a * c
    OBVIOUS
  <2> QED BY <2>1, <2>2
<1>4. SumFunctionOnSet(net, Compared) = Contribution(Home, week) - Contribution(Away, week)
  <2> HIDE DEF net, home, away
  <2> QED BY <1>1, <1>2, <1>3, SumOfDifferences
<1>5. /\ apart \in SUBSET Compared
      /\ \A p \in Compared \ apart : net[p] = 0
      /\ \A p \in Compared : net[p] \in Int
  <2>1. \A p \in Compared : PointsOf(week, p) \in Int
    BY PointsAreNumbers
  <2>2. \A p \in Compared \ apart : net[p] = PointsOf(week, p) * 0
    OBVIOUS
  <2>3. \A p \in Compared : net[p] \in Int
    <3> HIDE DEF net, home, away
    <3> QED BY <1>2, <1>3
  <2> QED BY <2>1, <2>2, <2>3
<1>6. /\ {line[p] : p \in apart} = {n \in Lines(week) : n.net # 0}
      /\ \A p \in apart : line[p].player = p
      /\ \A p \in apart : swing[line[p]] = net[p]
  <2>1. \A p \in Compared : /\ Line(week, p).player = p
                            /\ Line(week, p).net = Multiplier(Home, p) - Multiplier(Away, p)
                            /\ Line(week, p).swing = net[p]
    BY DEF Line
  <2>2. \A p \in apart : p \in Compared /\ line[p] = Line(week, p) /\ line[p] \in Lines(week)
    BY DEF Lines
  <2>3. {line[p] : p \in apart} = {n \in Lines(week) : n.net # 0}
    BY <2>1, <2>2 DEF Lines
  <2> QED BY <2>1, <2>2, <2>3
<1>7. SumFunction(swing) = SumFunctionOnSet(swing, {line[p] : p \in apart})
  BY <1>6 DEF SumFunction
<1> HIDE DEF line, swing, net, apart
<1>8. SumFunctionOnSet(swing, {line[p] : p \in apart}) = SumFunctionOnSet(net, apart)
  <2>1. IsFiniteSet(apart)
    BY <1>1, <1>5, FS_Subset
  <2>2. \A p, q \in apart : line[p] = line[q] => p = q
    BY <1>6
  <2>3. \A p \in apart : swing[line[p]] \in Int /\ net[p] = swing[line[p]]
    BY <1>5, <1>6
  <2> QED BY <2>1, <2>2, <2>3, SumOfImages
<1>9. SumFunctionOnSet(net, Compared) = SumFunctionOnSet(net, apart)
  BY <1>1, <1>5, SumOfTheSame
<1> QED BY <1>4, <1>7, <1>8, <1>9 DEF swing

\* The differentials explain the margin, and what is counted as left to play is what
\* is listed so, whatever the squads and however the fixtures move.
THEOREM PageSums == MatchSpec => []PageAddsUp
<1>1. IInv /\ PageInv => PageAddsUp
  BY MarginIsExplained, CountsDoAgree DEF PageAddsUp
<1> QED BY <1>1, Invariant, PageInvariant, PTL
=============================================================================
