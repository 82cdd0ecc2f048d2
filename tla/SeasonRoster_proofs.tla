------------------------- MODULE SeasonRoster_proofs -------------------------
(* What the organisers' commands keep, for every roster and draw. *)
EXTENDS SeasonRoster, LeagueRules_proofs

\* A file sets nothing to no division.
LEMMA FilesHaveDivisions ==
  ASSUME NEW f \in Files, NEW m \in DOMAIN f
  PROVE  m \in Managers /\ f[m] # NoRow
  BY FilesAssumption, NoRowAssumption

-----------------------------------------------------------------------------
(* Results. *)

\* A row of h2h_matches, of a schedule that is on file.
Row(match) == [schedule |-> match.schedule, week |-> match.week, home |-> match.home,
               away |-> match.away, status |-> match.status]
MatchesHaveSchedules ==
  \A match \in matches : match = Row(match) /\ match.schedule \in schedules

\* A match that is settled is the same match with another status.
LEMMA SettledRow ==
  ASSUME NEW match, match = Row(match), NEW status
  PROVE  LET after == [match EXCEPT !.status = status] IN
         /\ after = Row(after) /\ after.schedule = match.schedule
         /\ after.status = status /\ [after EXCEPT !.status = match.status] = match
<1> DEFINE after == [match EXCEPT !.status = status]
<1>1. after = [schedule |-> match.schedule, week |-> match.week, home |-> match.home,
               away |-> match.away, status |-> status]
  BY DEF Row
<1> HIDE DEF after
<1>2. after = Row(after) /\ after.schedule = match.schedule /\ after.status = status
  BY <1>1 DEF Row
<1>3. [after EXCEPT !.status = match.status] = Row(match)
  BY <1>1 DEF Row
<1> QED BY <1>2, <1>3 DEF after

\* What is drawn, generated or imported is drawn for one schedule.
LEMMA DrawnRows ==
  ASSUME NEW id, NEW order, NEW match \in Drawn(id, order)
  PROVE  match = Row(match) /\ match.schedule = id
  BY DEF Drawn, Row

\* An adopted row is one of a schedule there is.
LEMMA AdoptedRows ==
  ASSUME MatchesHaveSchedules, NEW id \in schedules, NEW draw, NEW match \in Adopted(id, draw)
  PROVE  match = Row(match) /\ match.schedule \in schedules
  BY DEF Adopted, Row, MatchesHaveSchedules

\* A match has a schedule, whatever is done.
LEMMA StepKeepsSchedules == MatchesHaveSchedules /\ [Next]_vars => MatchesHaveSchedules'
<1> SUFFICES ASSUME MatchesHaveSchedules, [Next]_vars PROVE MatchesHaveSchedules'
  OBVIOUS
<1>1. CASE UNCHANGED fixtures
  BY <1>1 DEF fixtures, MatchesHaveSchedules
<1>2. ASSUME NEW f \in Files, ReplaceRoster(f) PROVE MatchesHaveSchedules'
  BY <1>2 DEF ReplaceRoster, MatchesHaveSchedules
<1>3. ASSUME NEW id \in Schedules, NEW replace \in BOOLEAN, GenerateSchedule(id, replace)
      PROVE  MatchesHaveSchedules'
  BY <1>3, DrawnRows DEF GenerateSchedule, MatchesHaveSchedules
<1>4. ASSUME NEW id \in Schedules, GenerateByApi(id) PROVE MatchesHaveSchedules'
  BY <1>4, DrawnRows DEF GenerateByApi, MatchesHaveSchedules
<1>5. ASSUME NEW id \in Schedules, NEW draw \in Draws, NEW allowSettled \in BOOLEAN,
             ImportDraw(id, draw, allowSettled)
      PROVE  MatchesHaveSchedules'
  BY <1>5, AdoptedRows DEF ImportDraw, MatchesHaveSchedules
<1>6. ASSUME NEW match \in matches, NEW status \in Statuses, Settle(match, status)
      PROVE  MatchesHaveSchedules'
  <2> DEFINE after == [match EXCEPT !.status = status]
  <2>1. matches' = (matches \ {match}) \cup {after} /\ schedules' = schedules
    BY <1>6 DEF Settle
  <2>2. match = Row(match) /\ match.schedule \in schedules
    BY DEF MatchesHaveSchedules
  <2>3. after = Row(after) /\ after.schedule = match.schedule
    BY <2>2, SettledRow
  <2> HIDE DEF after
  <2> QED BY <2>1, <2>2, <2>3 DEF MatchesHaveSchedules
<1> QED
  BY <1>1, <1>2, <1>3, <1>4, <1>5, <1>6
  DEF Next, vars, ImportRoster, ApplySwap, DrawCup, CreateManager, UpdateManager,
      DetectCase, ClearCase, DecideCase, Rescore, SetFinalized

\* No generation, by command or by the API, loses a match that was played: where
\* there is no schedule there is no match either, and where there is one the command
\* asks.
THEOREM GenerationSparesResults == Spec => GenerationKeepsResults
<1> DEFINE Kept(match) == \E after \in matches' :
              [after EXCEPT !.status = match.status] = match /\ Scored(after)
           Allowed == \/ \A match \in matches : Scored(match) => Kept(match)
                      \/ \E f \in Files : ReplaceRoster(f)
                      \/ \E id \in Schedules, draw \in Draws : ImportDraw(id, draw, TRUE)
<1>1. Init => MatchesHaveSchedules
  BY DEF Init, MatchesHaveSchedules
<1>2. ASSUME MatchesHaveSchedules, [Next]_vars, ~Allowed,
             NEW match \in matches, Scored(match)
      PROVE  Kept(match)
  <2>0. match = Row(match) /\ match.schedule \in schedules
    BY <1>2 DEF MatchesHaveSchedules
  <2>1. CASE match \in matches'
    <3>1. [match EXCEPT !.status = match.status] = match
      BY <2>0 DEF Row
    <3> QED BY <1>2, <2>1, <3>1
  <2>2. CASE matches \subseteq matches'
    BY <2>1, <2>2
  <2>3. ASSUME NEW id \in Schedules, NEW replace \in BOOLEAN, GenerateSchedule(id, replace)
        PROVE  FALSE
    BY <1>2, <2>0, <2>3 DEF GenerateSchedule
  <2>4. ASSUME NEW id \in Schedules, NEW draw \in Draws, NEW allowSettled \in BOOLEAN,
               ImportDraw(id, draw, allowSettled)
        PROVE  FALSE
    BY <1>2, <2>4 DEF ImportDraw
  <2>5. ASSUME NEW f \in Files, ReplaceRoster(f) PROVE FALSE
    BY <1>2, <2>5
  <2>6. ASSUME NEW other \in matches, NEW status \in Statuses, Settle(other, status)
        PROVE  Kept(match)
    <3>1. CASE other # match
      BY <2>1, <2>6, <3>1 DEF Settle
    <3>2. CASE other = match
      <4> DEFINE after == [match EXCEPT !.status = status]
      <4>1. after \in matches' /\ status # "scheduled"
        BY <2>6, <3>2 DEF Settle
      <4>2. after.status = status /\ [after EXCEPT !.status = match.status] = match
        BY <2>0, SettledRow
      <4> HIDE DEF after
      <4> QED BY <4>1, <4>2 DEF Scored
    <3> QED BY <3>1, <3>2
  <2>7. CASE UNCHANGED fixtures
    BY <2>2, <2>7 DEF fixtures
  <2>8. ASSUME NEW id \in Schedules, GenerateByApi(id) PROVE Kept(match)
    BY <2>2, <2>8 DEF GenerateByApi
  <2> HIDE DEF Kept, Allowed
  <2> QED
    BY <1>2, <2>3, <2>4, <2>5, <2>6, <2>7, <2>8
    DEF Next, vars, ImportRoster, ApplySwap, DrawCup, CreateManager, UpdateManager,
      DetectCase, ClearCase, DecideCase, Rescore, SetFinalized
<1>3. MatchesHaveSchedules /\ [Next]_vars => [Allowed]_vars
  BY <1>2
<1>4. Spec => [][Allowed]_vars
  BY <1>1, <1>3, StepKeepsSchedules, PTL DEF Spec
<1> QED BY <1>4 DEF GenerationKeepsResults

-----------------------------------------------------------------------------
(* The draw. *)

\* What a draw owes to those who play in it.
FairTo(S, rounds, draw) ==
  /\ \A m \in S, k \in 0..(rounds - 1) :
       Cardinality({d \in draw : d.round = k /\ m \in {d.home, d.away}}) = 1
  /\ \A d, e \in draw : {d.home, d.away} = {e.home, e.away} => d = e
  /\ \A d \in draw : d.home # d.away

\* The draw is fair to whoever sits in the order, in whichever order they sit.
LEMMA FairWhateverTheOrder ==
  ASSUME NEW ids, NEW rounds, NEW draw
  PROVE  IsFairDraw(ids, rounds, draw) <=> FairTo({ids[i] : i \in DOMAIN ids}, rounds, draw)
BY DEF IsFairDraw, FairTo

\* The two orders in which the active managers are seated.
ByDivision == [m \in Active |-> IF division[m] = "HIGH" THEN <<1>> ELSE <<0>>]
ByEntry    == [m \in Active |-> <<>>]

\* The keys managers are seated by are sequences of one length.
LEMMA SeatingsAreKeyed == Keyed(Active, ByDivision) /\ Keyed(Active, ByEntry)
<1>1. \A m \in Active : ByDivision[m] \in [1..1 -> Int]  BY DEF ByDivision
<1>2. \A m \in Active : ByEntry[m] \in [1..0 -> Int]  BY DEF ByEntry
<1>3. 1 \in Nat /\ 0 \in Nat  OBVIOUS
<1> QED BY <1>1, <1>2, <1>3 DEF Keyed

\* The active managers are finitely many numbers.
LEMMA ActiveAreFew == IsFiniteSet(Active) /\ Active \subseteq Nat /\ Cardinality(Active) \in Nat
<1>1. Active \subseteq Managers  BY DEF Active, Present
<1> QED BY <1>1, ManagersAssumption, FS_Subset, FS_CardinalityType

\* A seating is of the whole active roster, and what is drawn from it is fair.
LEMMA SeatingIsFair ==
  ASSUME Drawable, NEW key, Keyed(Active, key)
  PROVE  LET order == Ordered(Active, key)  draw == RoundRobin(order, Rounds) IN
         /\ {order[i] : i \in DOMAIN order} = Active
         /\ FairTo(Active, Rounds, draw)
         /\ DrawOfField(Active, Rounds, draw)
         /\ IsFiniteSet(draw)
<1> DEFINE n == Cardinality(Active)
           h == n \div 2
           order == Ordered(Active, key)
           draw == RoundRobin(order, Rounds)
<1>1. n \in Nat /\ n % 2 = 0 /\ Rounds < n /\ Rounds \in Nat \ {0}
  BY ActiveAreFew, SizesAssumption DEF Drawable
<1>2. h \in Nat \ {0} /\ n = 2 * h
  <2> HIDE DEF n
  <2> QED BY <1>1
<1>3. SortedTable(Active, key, order)  BY ActiveAreFew, OrderedIsSorted
<1> HIDE DEF order
<1>4. order \in [1..n -> Active] /\ \A i, j \in 1..n : order[i] = order[j] => i = j
  BY <1>3 DEF SortedTable
<1>5. {order[i] : i \in DOMAIN order} = Active
  <2>1. \A m \in Active : \E i \in 1..n : order[i] = m  BY <1>3 DEF SortedTable
  <2> HIDE DEF n
  <2> QED BY <1>4, <2>1
<1> HIDE DEF n, h, draw
<1>6. IsFairDraw(order, Rounds, draw)  BY <1>1, <1>2, <1>4, CircleMethodIsFair DEF draw
<1>7. FairTo(Active, Rounds, draw)  BY <1>5, <1>6, FairWhateverTheOrder
<1>8. DrawOfField(Active, Rounds, draw)  BY <1>1, <1>2, <1>4, DrawIsOfField DEF draw
<1>9. IsFiniteSet(draw)  BY <1>1, <1>2, <1>4, DrawIsFinite DEF draw
<1> QED BY <1>5, <1>7, <1>8, <1>9 DEF draw, order

\* The command that generates draws in the order of the entries.
LEMMA AscendingIsSeating == Ascending(Active) = Ordered(Active, ByEntry)
BY DEF Ascending, ByEntry

\* The pairings behind the rows of a schedule.
Pairings(rows) == {[round |-> match.week - 1, home |-> match.home, away |-> match.away] :
                     match \in rows}

\* A schedule's rows tell the pairings they were written from.
LEMMA RowsTellThePairings ==
  ASSUME NEW id, NEW order, NEW P, DrawOfField(P, Rounds, RoundRobin(order, Rounds))
  PROVE  Pairings(Drawn(id, order)) = RoundRobin(order, Rounds)
<1> DEFINE draw == RoundRobin(order, Rounds)
           row(d) == [schedule |-> id, week |-> d.round + 1, home |-> d.home,
                      away |-> d.away, status |-> "scheduled"]
           back(match) == [round |-> match.week - 1, home |-> match.home,
                           away |-> match.away]
<1>1. Drawn(id, order) = {row(d) : d \in draw}  BY DEF Drawn
<1>2. ASSUME NEW d \in draw PROVE back(row(d)) = d
  <2>1. d = [round |-> d.round, home |-> d.home, away |-> d.away] /\ d.round \in Int
    BY SizesAssumption DEF DrawOfField, IsPairing
  <2>2. back(row(d)) = [round |-> (d.round + 1) - 1, home |-> d.home, away |-> d.away]
    OBVIOUS
  <2>3. (d.round + 1) - 1 = d.round  BY <2>1
  <2> QED BY <2>1, <2>2, <2>3
<1>3. Pairings(Drawn(id, order)) = {back(match) : match \in Drawn(id, order)}
  BY DEF Pairings
<1> HIDE DEF draw, row, back
<1> QED BY <1>1, <1>2, <1>3 DEF draw

\* Where there is no schedule there are no matches.
LEMMA NoScheduleNoMatches ==
  ASSUME MatchesHaveSchedules, schedules = {} PROVE matches = {}
BY DEF MatchesHaveSchedules

\* Of two, four, six or eight everyone meets everyone once.
LEMMA SmallFields == CircleIsFair
<1> SUFFICES ASSUME NEW n \in {2, 4, 6, 8}
             PROVE  LET ids == [i \in 1..n |-> i]
                    IN IsFairDraw(ids, n - 1, RoundRobin(ids, n - 1))
  BY DEF CircleIsFair
<1> DEFINE ids == [i \in 1..n |-> i]  P == 1..n
<1>1. PICK h \in Nat \ {0} : n = 2 * h
  <2>1. n = 2 * 1 \/ n = 2 * 2 \/ n = 2 * 3 \/ n = 2 * 4  OBVIOUS
  <2> QED BY <2>1
<1>2. n \in Nat /\ n - 1 \in Nat /\ n - 1 < n  OBVIOUS
<1>3. ids \in [1..n -> P] /\ \A i, j \in 1..n : ids[i] = ids[j] => i = j  OBVIOUS
<1> HIDE DEF ids, P
<1> QED BY <1>1, <1>2, <1>3, CircleMethodIsFair DEF ids

\* Whichever command draws the first schedule, for a roster of any size, nobody in
\* it sits out a Gameweek, plays twice in one, or meets an opponent twice.
THEOREM FirstDrawIsFair == Spec => EveryDrawIsFair
<1> DEFINE Fair == schedules = {} /\ schedules' # {} =>
                     /\ IsFairDraw(Ascending(Active), Rounds,
                          {[round |-> match.week - 1, home |-> match.home,
                            away |-> match.away] : match \in matches'})
                     /\ CircleIsFair
<1>1. Init => MatchesHaveSchedules
  BY DEF Init, MatchesHaveSchedules
<1>2. ASSUME MatchesHaveSchedules, Next, schedules = {}, schedules' # {}
      PROVE  IsFairDraw(Ascending(Active), Rounds, Pairings(matches'))
  <2> DEFINE ids == Ascending(Active)
  <2>1. Drawable => {ids[i] : i \in DOMAIN ids} = Active
    BY SeatingIsFair, SeatingsAreKeyed, AscendingIsSeating
  <2>2. ASSUME NEW id, NEW key, Keyed(Active, key), Drawable,
               matches' = Drawn(id, Ordered(Active, key))
        PROVE  IsFairDraw(Ascending(Active), Rounds, Pairings(matches'))
    <3> DEFINE draw == RoundRobin(Ordered(Active, key), Rounds)
    <3>1. FairTo(Active, Rounds, draw) /\ DrawOfField(Active, Rounds, draw)
      BY <2>2, SeatingIsFair
    <3>2. Pairings(matches') = draw  BY <2>2, <3>1, RowsTellThePairings
    <3>3. {ids[i] : i \in DOMAIN ids} = Active  BY <2>1, <2>2
    <3> HIDE DEF ids, draw
    <3>4. IsFairDraw(ids, Rounds, draw)  BY <3>1, <3>3, FairWhateverTheOrder
    <3> QED BY <3>2, <3>4 DEF ids
  <2>3. ASSUME NEW id \in Schedules, NEW replace \in BOOLEAN, GenerateSchedule(id, replace)
        PROVE  IsFairDraw(Ascending(Active), Rounds, Pairings(matches'))
    BY <2>2, <2>3, SeatingsAreKeyed, AscendingIsSeating DEF GenerateSchedule
  <2>4. ASSUME NEW id \in Schedules, GenerateByApi(id)
        PROVE  IsFairDraw(Ascending(Active), Rounds, Pairings(matches'))
    <3>1. matches = {}  BY <1>2, NoScheduleNoMatches
    <3>2. Drawable /\ matches' = Drawn(id, Ordered(Active, ByDivision))
      BY <2>4, <3>1 DEF GenerateByApi, ByDivision
    <3> QED BY <2>2, <3>2, SeatingsAreKeyed
  <2> QED
    BY <1>2, <2>3, <2>4
    DEF Next, fixtures, ImportRoster, ReplaceRoster, ImportDraw, ApplySwap, DrawCup,
        CreateManager, UpdateManager, DetectCase, ClearCase, DecideCase, Rescore,
        SetFinalized, Settle
<1>3. MatchesHaveSchedules /\ [Next]_vars => [Fair]_vars
  BY <1>2, SmallFields DEF Pairings
<1>4. Spec => [][Fair]_vars
  BY <1>1, <1>3, StepKeepsSchedules, PTL DEF Spec
<1> QED BY <1>4, PTL DEF EveryDrawIsFair

-----------------------------------------------------------------------------
(* The tables. *)

\* The rows of a schedule are of the active roster, each manager's once a Gameweek.
LEMMA DrawnRowsAreSound ==
  ASSUME Drawable, NEW key, Keyed(Active, key), NEW id \in Schedules
  PROVE  LET rows == Drawn(id, Ordered(Active, key)) IN
         /\ \A match \in rows : /\ match \in Match /\ match.schedule = id
                                /\ {match.home, match.away} \subseteq Active
         /\ \A s, t \in rows : s.week = t.week
              /\ {s.home, s.away} \cap {t.home, t.away} # {} => s = t
<1> DEFINE draw == RoundRobin(Ordered(Active, key), Rounds)
           rows == Drawn(id, Ordered(Active, key))
           row(d) == [schedule |-> id, week |-> d.round + 1, home |-> d.home,
                      away |-> d.away, status |-> "scheduled"]
<1>1. /\ FairTo(Active, Rounds, draw) /\ DrawOfField(Active, Rounds, draw)
      /\ IsFiniteSet(draw)
  BY SeatingIsFair
<1>2. rows = {row(d) : d \in draw}  BY DEF Drawn
<1>3. Active \subseteq Managers  BY DEF Active, Present
<1> HIDE DEF draw, rows
<1>4. \A d \in draw : d.round \in Nat /\ d.home \in Active /\ d.away \in Active
  BY <1>1, SizesAssumption DEF DrawOfField
<1>5. \A match \in rows : /\ match \in Match /\ match.schedule = id
                          /\ {match.home, match.away} \subseteq Active
  <2> SUFFICES ASSUME NEW d \in draw
               PROVE  /\ row(d) \in Match /\ row(d).schedule = id
                      /\ {row(d).home, row(d).away} \subseteq Active
    BY <1>2
  <2> QED BY <1>3, <1>4 DEF Match, Statuses
<1>6. ASSUME NEW d \in draw, NEW e \in draw, d.round = e.round,
             NEW m, m \in {d.home, d.away}, m \in {e.home, e.away}
      PROVE  d = e
  <2> DEFINE k == d.round
             mine == {x \in draw : x.round = k /\ m \in {x.home, x.away}}
  <2>1. m \in Active  BY <1>4, <1>6
  <2>2. k \in 0..(Rounds - 1)  BY <1>1 DEF DrawOfField
  <2>3. Cardinality(mine) = 1
    <3> HIDE DEF k
    <3> QED BY <1>1, <2>1, <2>2 DEF FairTo
  <2>4. IsFiniteSet(mine)  BY <1>1, FS_Subset
  <2>5. d \in mine /\ e \in mine  BY <1>6
  <2> HIDE DEF mine
  <2>6. \E x : mine = {x}  BY <2>3, <2>4, FS_Singleton
  <2> QED BY <2>5, <2>6
<1>7. \A s, t \in rows : s.week = t.week
        /\ {s.home, s.away} \cap {t.home, t.away} # {} => s = t
  <2> SUFFICES ASSUME NEW d \in draw, NEW e \in draw, row(d).week = row(e).week,
                      {row(d).home, row(d).away} \cap {row(e).home, row(e).away} # {}
               PROVE  row(d) = row(e)
    BY <1>2
  <2>1. d.round = e.round
    <3>1. d.round + 1 = e.round + 1  OBVIOUS
    <3> QED BY <1>4, <3>1
  <2>2. PICK m : m \in {d.home, d.away} /\ m \in {e.home, e.away}  OBVIOUS
  <2>3. d = e  BY <1>6, <2>1, <2>2
  <2> QED BY <2>3
<1> QED BY <1>5, <1>7 DEF rows

\* A fixture settled, or settled again, is the same fixture.
LEMMA SettledMatch ==
  ASSUME NEW match \in Match, NEW status \in Statuses
  PROVE  LET after == [match EXCEPT !.status = status] IN
         /\ after \in Match
         /\ after.schedule = match.schedule /\ after.week = match.week
         /\ after.home = match.home /\ after.away = match.away
BY DEF Match

\* FPL's draw, adopted, is of managers on file, each of them once a Gameweek.
LEMMA AdoptedRowsAreSound ==
  ASSUME NEW id \in Schedules, NEW draw \in Draws,
         \A d \in draw : {d[2], d[3]} \subseteq Present
  PROVE  LET rows == {[schedule |-> id, week |-> d[1], home |-> d[2], away |-> d[3],
                       status |-> "scheduled"] : d \in draw} IN
         /\ \A match \in rows : /\ match \in Match /\ match.schedule = id
                                /\ {match.home, match.away} \subseteq Present
         /\ \A s, t \in rows : s.week = t.week
              /\ {s.home, s.away} \cap {t.home, t.away} # {} => s = t
<1> DEFINE row(d) == [schedule |-> id, week |-> d[1], home |-> d[2], away |-> d[3],
                      status |-> "scheduled"]
<1>1. Present \subseteq Managers  BY DEF Present
<1>2. \A d \in draw : d[1] \in Nat \ {0} /\ d[2] \in Managers /\ d[3] \in Managers
  BY <1>1, DrawsAssumption
<1>3. \A d \in draw : /\ row(d) \in Match /\ row(d).schedule = id
                      /\ {row(d).home, row(d).away} \subseteq Present
  BY <1>2 DEF Match, Statuses
<1>4. \A d, e \in draw : d[1] = e[1] /\ {d[2], d[3]} \cap {e[2], e[3]} # {} => d = e
  BY DrawsAssumption
<1>5. \A d, e \in draw :
        row(d).week = row(e).week
          /\ {row(d).home, row(d).away} \cap {row(e).home, row(e).away} # {}
        => row(d) = row(e)
  BY <1>4
<1> HIDE DEF row
<1> QED BY <1>3, <1>5 DEF row

\* Who has a rank is who is ranked.
LEMMA RankedAreTheField == ASSUME NEW S, NEW key PROVE DOMAIN Ranks(S, key) = S
BY DEF Ranks

\* Everybody's key has the same measures.
LEMMA KeysAreComparable ==
  ASSUME TypeOK, NEW S \in SUBSET Managers PROVE Keyed(S, Key)
<1>1. Len(ZeroKey) \in Nat /\ ZeroKey \in [1..Len(ZeroKey) -> Int]
  BY KeysAssumption
<1>2. \A m \in S : Key[m] \in [1..Len(ZeroKey) -> Int]
  BY <1>1, KeysAssumption DEF TypeOK, Key
<1> QED BY <1>1, <1>2 DEF Keyed

\* The exchange moves managers of the division they leave.
LEMMA SwapMovesTheDivisions ==
  ASSUME TypeOK, ApplySwap
  PROVE  LET high == In("HIGH")  low == In("LOW") IN
         /\ Swap.promoted \subseteq low /\ Cardinality(Swap.promoted) = Count
         /\ Swap.relegated \subseteq high /\ Cardinality(Swap.relegated) = Count
         /\ \A m \in Swap.promoted : \A n \in low \ Swap.promoted : Beats(Key[m], Key[n])
         /\ \A m \in Swap.relegated : \A n \in high \ Swap.relegated : Beats(Key[n], Key[m])
<1> DEFINE high == In("HIGH")  low == In("LOW")
<1>1. high \in SUBSET Managers /\ low \in SUBSET Managers
  BY DEF In
<1>2. /\ IsFiniteSet(high) /\ high \subseteq Nat /\ Keyed(high, Key)
      /\ IsFiniteSet(low) /\ low \subseteq Nat /\ Keyed(low, Key)
  BY <1>1, ManagersAssumption, FS_Subset, KeysAreComparable
<1>3. /\ Count \in Nat /\ Count <= Cardinality(high) /\ Count <= Cardinality(low)
      /\ Exchange(high, low, Key, Count).contested = {}
  <2>1. Cardinality(high) \in Nat /\ Cardinality(low) \in Nat
    BY <1>2, FS_CardinalityType
  <2> QED BY <2>1, SizesAssumption DEF ApplySwap, Swap
<1> HIDE DEF high, low
<1>4. LET swap == Exchange(high, low, Key, Count) IN
      /\ swap.promoted \subseteq low /\ Cardinality(swap.promoted) = Count
      /\ swap.relegated \subseteq high /\ Cardinality(swap.relegated) = Count
      /\ \A m \in swap.promoted : \A n \in low \ swap.promoted : Beats(Key[m], Key[n])
      /\ \A m \in swap.relegated : \A n \in high \ swap.relegated : Beats(Key[n], Key[m])
  BY <1>2, <1>3, ExchangeTakesTheEnds
<1> QED BY <1>4 DEF Swap, high, low

\* Who comes with a file has a row as a manager, who goes has none.
LEMMA WelcomedHaveRows ==
  ASSUME TypeOK, NEW f \in Files, Welcomed(f), NEW gone \in SUBSET Managers,
         gone \cap DOMAIN f = {},
         Present' = (Present \ gone) \cup DOMAIN f,
         \A m \in Managers : division'[m] = NoRow <=> m \notin Present'
  PROVE  /\ standing' \in [Managers -> Standings \cup {NoRow}]
         /\ \A m \in Managers : standing'[m] = NoRow <=> m \notin Present'
         /\ confirmed' \subseteq Present'
<1>1. DOMAIN f \subseteq Managers
  BY FilesAssumption
<1>2. standing' \in [Managers -> Standings \cup {NoRow}]
  BY DEF Welcomed, TypeOK, Standings
<1>3. \A m \in Managers : standing'[m] = NoRow <=> m \notin Present'
  BY NoRowAssumption DEF Welcomed, TypeOK, Standings
<1>4. confirmed' \subseteq Present'
  BY <1>1 DEF Welcomed, TypeOK, Present
<1> QED BY <1>2, <1>3, <1>4

\* Every command keeps the tables to their types, and rows to managers who are there.
LEMMA StepKeepsTypes == TypeOK /\ [Next]_vars => TypeOK'
<1> SUFFICES ASSUME TypeOK, [Next]_vars PROVE TypeOK'
  OBVIOUS
<1> USE DEF TypeOK
<1>1. ASSUME NEW f \in Files, NEW current \in [Managers -> Divisions \cup {NoRow}]
      PROVE  /\ Imported(f, current) \in [Managers -> Divisions \cup {NoRow}]
             /\ \A m \in Managers : Imported(f, current)[m] = NoRow
                                    <=> current[m] = NoRow /\ m \notin DOMAIN f
  BY <1>1, FilesAssumption, FilesHaveDivisions DEF Imported
<1>2. ASSUME NEW f \in Files PROVE DOMAIN f \subseteq Managers
  BY <1>2, FilesAssumption
<1>3. ASSUME NEW f \in Files, ImportRoster(f) PROVE TypeOK'
  <2>1. division' \in [Managers -> Divisions \cup {NoRow}]
        /\ opening' \in [Managers -> Divisions \cup {NoRow}]
    BY <1>1, <1>3 DEF ImportRoster
  <2>2. Present' = Present \cup DOMAIN f
    BY <1>1, <1>2, <1>3 DEF ImportRoster, Present
  <2>3. /\ standing' \in [Managers -> Standings \cup {NoRow}]
        /\ \A m \in Managers : standing'[m] = NoRow <=> m \notin Present'
        /\ confirmed' \subseteq Present'
    <3> DEFINE gone == {}
    <3>1. /\ Present' = (Present \ gone) \cup DOMAIN f
          /\ gone \in SUBSET Managers /\ gone \cap DOMAIN f = {}
      BY <2>2
    <3>2. Welcomed(f)  BY <1>3 DEF ImportRoster
    <3>3. \A m \in Managers : division'[m] = NoRow <=> m \notin Present'  BY DEF Present
    <3> HIDE DEF gone, TypeOK
    <3> QED BY <3>1, <3>2, <3>3, WelcomedHaveRows
  <2>4. \A m \in Managers : m \notin Present' => opening'[m] = NoRow
    BY <1>1, <1>3, <2>2 DEF ImportRoster
  <2> QED BY <1>3, <2>1, <2>2, <2>3, <2>4 DEF ImportRoster, fixtures, played
<1>4. ASSUME NEW f \in Files, ReplaceRoster(f) PROVE TypeOK'
  <2> DEFINE Kept(current) == [m \in Managers |-> IF m \in Obsolete(f) THEN NoRow
                                                  ELSE current[m]]
             gone == Obsolete(f)
  <2>1. ASSUME NEW current \in [Managers -> Divisions \cup {NoRow}]
        PROVE  /\ Kept(current) \in [Managers -> Divisions \cup {NoRow}]
               /\ \A m \in Managers : Kept(current)[m] = NoRow
                                      <=> m \in gone \/ current[m] = NoRow
    OBVIOUS
  <2>2. /\ division' = Imported(f, Kept(division)) /\ opening' = Imported(f, Kept(opening))
        /\ second' = Kept(second) /\ byHand' = byHand \ gone
        /\ UNCHANGED <<cases, scores, closed>> /\ cup' = {}
    BY <1>4 DEF ReplaceRoster, Replaced, Discarded
  <2>3. gone \in SUBSET Managers /\ gone \cap DOMAIN f = {} /\ gone \subseteq Present
    BY DEF Obsolete, Present
  <2> HIDE DEF Kept
  <2>4. /\ division' \in [Managers -> Divisions \cup {NoRow}]
        /\ opening' \in [Managers -> Divisions \cup {NoRow}]
        /\ second' \in [Managers -> Divisions \cup {NoRow}]
    BY <1>1, <2>1, <2>2
  <2>5. \A m \in Managers :
          /\ division'[m] = NoRow <=> (m \in gone \/ division[m] = NoRow) /\ m \notin DOMAIN f
          /\ opening'[m] = NoRow <=> (m \in gone \/ opening[m] = NoRow) /\ m \notin DOMAIN f
          /\ second'[m] = NoRow <=> m \in gone \/ second[m] = NoRow
    BY <1>1, <2>1, <2>2
  <2>6. Present' = (Present \ gone) \cup DOMAIN f
    BY <1>2, <2>5 DEF Present
  <2>7. /\ standing' \in [Managers -> Standings \cup {NoRow}]
        /\ \A m \in Managers : standing'[m] = NoRow <=> m \notin Present'
        /\ confirmed' \subseteq Present'
    <3>1. Welcomed(f)  BY <1>4 DEF ReplaceRoster
    <3>2. \A m \in Managers : division'[m] = NoRow <=> m \notin Present'  BY DEF Present
    <3> QED BY <2>3, <2>6, <3>1, <3>2, WelcomedHaveRows
  <2>8. \A m \in gone : scores[m] = NoRow /\ cases[m] = "none"
    BY <1>4 DEF ReplaceRoster, Blocked, Evidence
  <2>9. \A m \in Managers :
          m \notin Present' => /\ opening'[m] = NoRow /\ second'[m] = NoRow
                               /\ scores'[m] = NoRow /\ cases'[m] = "none"
    BY <2>2, <2>5, <2>6, <2>8
  <2>10. byHand' \subseteq Present'
    BY <2>2, <2>6
  <2> QED BY <1>4, <2>2, <2>4, <2>7, <2>9, <2>10 DEF ReplaceRoster
<1>5. ASSUME NEW id \in Schedules, NEW replace \in BOOLEAN, GenerateSchedule(id, replace)
      PROVE  TypeOK'
  <2>1. matches' \subseteq Match
    BY <1>5, DrawnRowsAreSound, SeatingsAreKeyed, AscendingIsSeating DEF GenerateSchedule
  <2> QED BY <1>5, <2>1 DEF GenerateSchedule, membership, people, played, Present
<1>6. ASSUME NEW id \in Schedules, GenerateByApi(id) PROVE TypeOK'
  <2>1. Drawable /\ matches' = matches \cup Drawn(id, Ordered(Active, ByDivision))
    BY <1>6 DEF GenerateByApi, ByDivision
  <2>2. matches' \subseteq Match
    BY <2>1, DrawnRowsAreSound, SeatingsAreKeyed
  <2> QED BY <1>6, <2>2 DEF GenerateByApi, membership, people, played, Present
<1>7. ASSUME NEW id \in Schedules, NEW draw \in Draws, NEW allowSettled \in BOOLEAN,
             ImportDraw(id, draw, allowSettled)
      PROVE  TypeOK'
  <2>1. matches' \subseteq Match
    BY <1>7, AdoptedRowsAreSound DEF ImportDraw, Adopted
  <2> QED BY <1>7, <2>1 DEF ImportDraw, membership, people, played, Present
<1>8. CASE ApplySwap
  <2>1. /\ division' \in [Managers -> Divisions \cup {NoRow}]
        /\ second' \in [Managers -> Divisions \cup {NoRow}]
    BY <1>8 DEF ApplySwap, Divisions
  <2>2. \A m \in Managers : division'[m] = NoRow => division[m] = NoRow
    BY <1>8, NoRowAssumption DEF ApplySwap, Divisions
  <2>3. \A m \in Managers : division[m] = NoRow => division'[m] = NoRow
    <3>1. Swap.promoted \cup Swap.relegated \subseteq Present
      BY <1>8, SwapMovesTheDivisions, NoRowAssumption DEF In, Present, Divisions
    <3> QED BY <1>8, <3>1 DEF ApplySwap, Present
  <2>4. Present' = Present
    BY <2>2, <2>3 DEF Present
  <2> QED BY <1>8, <2>1, <2>3, <2>4 DEF ApplySwap, fixtures, played, Present
<1>9. CASE DrawCup
  <2>1. cup' \subseteq Present
    <3> DEFINE field(d) == {m \in In(d) : standing[m] \notin {"removed", "deleted"}}
    <3>1. \A d \in Divisions : DOMAIN Ranks(field(d), Key) \subseteq Present
      BY RankedAreTheField, NoRowAssumption DEF In, Present
    <3> QED BY <1>9, <3>1 DEF DrawCup, Divisions
  <2> QED BY <1>9, <2>1 DEF DrawCup, membership, people, fixtures, Present
<1>10. ASSUME NEW m \in Managers, NEW d \in Divisions, NEW value \in Standings,
              division' = [division EXCEPT ![m] = d],
              standing' = [standing EXCEPT ![m] = value],
              confirmed' \subseteq confirmed \cup {m}, byHand' \subseteq byHand \cup {m},
              UNCHANGED <<opening, second, cases, fixtures, played>>
       PROVE  TypeOK'
  <2>1. d # NoRow /\ value # NoRow
    BY NoRowAssumption
  <2>2. division' \in [Managers -> Divisions \cup {NoRow}] /\ Present' = Present \cup {m}
    BY <1>10, <2>1 DEF Present
  <2>3. /\ standing' \in [Managers -> Standings \cup {NoRow}]
        /\ \A n \in Managers : standing'[n] = NoRow <=> n \notin Present'
    BY <1>10, <2>1, <2>2
  <2> QED BY <1>10, <2>2, <2>3 DEF fixtures, played
<1>11. ASSUME NEW m \in Managers, NEW d \in Divisions, NEW isConfirmed \in BOOLEAN,
              CreateManager(m, d, isConfirmed)
       PROVE  TypeOK'
  <2>1. "active" \in Standings
    BY DEF Standings
  <2> HIDE DEF TypeOK
  <2> QED BY <1>10, <1>11, <2>1 DEF CreateManager
<1>12. ASSUME NEW m \in Managers, NEW d \in Divisions, NEW isConfirmed \in BOOLEAN,
              NEW value \in Standings, UpdateManager(m, d, value, isConfirmed)
       PROVE  TypeOK'
  <2> HIDE DEF TypeOK
  <2> QED BY <1>10, <1>12 DEF UpdateManager
<1>13. ASSUME NEW m \in Managers, DetectCase(m) \/ ClearCase(m) \/ DecideCase(m)
       PROVE  TypeOK'
  <2>1. /\ cases' \in [Managers -> {"none", "detected", "decided"}]
        /\ m \in Present /\ \A n \in Managers \ {m} : cases'[n] = cases[n]
        /\ UNCHANGED <<membership, confirmed, byHand, fixtures, played>>
    BY <1>13 DEF DetectCase, ClearCase, DecideCase
  <2>2. standing' \in {standing, [standing EXCEPT ![m] = "removed"]}
    BY <1>13 DEF DetectCase, ClearCase, DecideCase
  <2>3. "removed" \in Standings /\ "removed" # NoRow
    BY NoRowAssumption DEF Standings
  <2> QED BY <2>1, <2>2, <2>3 DEF membership, fixtures, played, Present
<1>14. ASSUME NEW m \in Managers, NEW key \in Keys, Rescore(m, key) PROVE TypeOK'
  BY <1>14 DEF Rescore, membership, people, fixtures, Present
<1>15. ASSUME NEW value \in BOOLEAN, SetFinalized(value) PROVE TypeOK'
  BY <1>15 DEF SetFinalized, membership, people, fixtures, Present
<1>16. ASSUME NEW match \in matches, NEW status \in Statuses, Settle(match, status)
       PROVE  TypeOK'
  <2>1. matches' \subseteq Match  BY <1>16, SettledMatch DEF Settle
  <2> QED BY <1>16, <2>1 DEF Settle, membership, people, played, Present
<1>17. CASE UNCHANGED vars
  BY <1>17 DEF vars, membership, people, fixtures, played, Present
<1> HIDE DEF TypeOK
<1> QED
  BY <1>3, <1>4, <1>5, <1>6, <1>7, <1>8, <1>9, <1>11, <1>12, <1>13, <1>14, <1>15, <1>16,
     <1>17
  DEF Next

\* The tables always hold what their columns are for.
THEOREM TablesKeepTheirTypes == Spec => []TypeOK
<1>1. Init => TypeOK
  BY DEF Init, TypeOK, Divisions, Present
<1> QED BY <1>1, StepKeepsTypes, PTL DEF Spec

\* Importing onto rows that satisfy the invariant keeps it, whichever managers
\* were taken out of all three tables before.
LEMMA ImportKeepsPointer ==
  ASSUME NEW f \in Files, NEW gone \in SUBSET Managers,
         PointerFollowsMembership, Agrees(f), gone \cap DOMAIN f = {},
         division' = Imported(f, [m \in Managers |-> IF m \in gone THEN NoRow
                                                      ELSE division[m]]),
         opening'  = Imported(f, [m \in Managers |-> IF m \in gone THEN NoRow
                                                      ELSE opening[m]]),
         \A m \in Managers : second'[m] = IF m \in gone THEN NoRow ELSE second[m],
         byHand' = byHand \ gone
  PROVE  PointerFollowsMembership'
<1> SUFFICES ASSUME NEW m \in Managers, m \notin byHand'
             PROVE  division'[m] = IF second'[m] # NoRow THEN second'[m] ELSE opening'[m]
  BY DEF PointerFollowsMembership
<1>1. CASE m \in gone
  BY <1>1 DEF Imported
<1>2. CASE m \notin gone
  <2>1. division[m] = IF second[m] # NoRow THEN second[m] ELSE opening[m]
    BY <1>2 DEF PointerFollowsMembership
  <2>2. CASE m \notin DOMAIN f
    BY <1>2, <2>1, <2>2 DEF Imported
  <2>3. CASE m \in DOMAIN f
    <3>1. division[m] # NoRow => division[m] = f[m]
      BY <2>3 DEF Agrees, Present
    <3>2. f[m] # NoRow
      BY <2>3, FilesHaveDivisions
    <3> QED BY <1>2, <2>1, <2>3, <3>1, <3>2 DEF Imported
  <2> QED BY <2>2, <2>3
<1> QED BY <1>1, <1>2

\* Every step keeps the division a manager is shown in that of his memberships, or
\* marks that the API wrote it.
LEMMA StepKeepsPointer ==
  TypeOK /\ PointerFollowsMembership /\ [Next]_vars => PointerFollowsMembership'
<1> SUFFICES ASSUME TypeOK, PointerFollowsMembership, [Next]_vars
             PROVE  PointerFollowsMembership'
  OBVIOUS
<1>1. ASSUME NEW f \in Files, ImportRoster(f) PROVE PointerFollowsMembership'
  <2> DEFINE gone == {} Without(row) == [m \in Managers |-> IF m \in gone THEN NoRow
                                                              ELSE row[m]]
  <2>1. Imported(f, division) = Imported(f, Without(division))
    BY DEF Imported
  <2>2. Imported(f, opening) = Imported(f, Without(opening))
    BY DEF Imported
  <2>3. /\ gone \in SUBSET Managers /\ gone \cap DOMAIN f = {}
        /\ byHand' = byHand \ gone
    BY <1>1 DEF ImportRoster
  <2> QED BY <1>1, <2>1, <2>2, <2>3, ImportKeepsPointer DEF ImportRoster
<1>2. ASSUME NEW f \in Files, ReplaceRoster(f) PROVE PointerFollowsMembership'
  <2> DEFINE gone == Obsolete(f)
  <2>1. gone \in SUBSET Managers /\ gone \cap DOMAIN f = {}
    BY DEF Obsolete, Present
  <2> QED BY <1>2, <2>1, ImportKeepsPointer DEF ReplaceRoster, Replaced, Discarded
<1>3. CASE ApplySwap
  <2> SUFFICES ASSUME NEW m \in Managers
               PROVE  division'[m] = IF second'[m] # NoRow THEN second'[m] ELSE opening'[m]
    BY DEF PointerFollowsMembership
  <2>1. second'[m] = division'[m] /\ opening' = opening
    BY <1>3 DEF ApplySwap
  <2>2. division'[m] = NoRow => opening'[m] = NoRow
    BY <1>3, <2>1, NoRowAssumption DEF ApplySwap, Divisions, TypeOK, Present
  <2> QED BY <2>1, <2>2
<1>4. CASE UNCHANGED <<membership, byHand>>
  BY <1>4 DEF membership, PointerFollowsMembership
<1>5. ASSUME NEW m \in Managers, NEW d \in Divisions, NEW isConfirmed \in BOOLEAN,
             CreateManager(m, d, isConfirmed)
      PROVE  PointerFollowsMembership'
  BY <1>5 DEF CreateManager, PointerFollowsMembership, TypeOK
<1>6. ASSUME NEW m \in Managers, NEW d \in Divisions, NEW isConfirmed \in BOOLEAN,
             NEW value \in Standings, UpdateManager(m, d, value, isConfirmed)
      PROVE  PointerFollowsMembership'
  BY <1>6 DEF UpdateManager, PointerFollowsMembership, TypeOK
<1> QED
  BY <1>1, <1>2, <1>3, <1>4, <1>5, <1>6
  DEF Next, vars, people, GenerateSchedule, GenerateByApi, ImportDraw, DrawCup,
      DetectCase, ClearCase, DecideCase, Rescore, SetFinalized, Settle

\* Whatever is imported, replaced, exchanged or set through the API, and in whichever
\* order: a manager whose division the API has not written since the exchange is shown
\* in the division of his latest membership.
THEOREM DivisionFollowsMembership == Spec => []PointerFollowsMembership
<1>1. Init => TypeOK /\ PointerFollowsMembership
  BY DEF Init, TypeOK, Divisions, Standings, Present, PointerFollowsMembership
<1> QED BY <1>1, StepKeepsTypes, StepKeepsPointer, PTL DEF Spec

\* Every command keeps the fixtures between managers on file, each of them once a
\* Gameweek: the matches of a schedule come from one draw at a time, and managers
\* leave the table only with all matches.
LEMMA StepKeepsFixtures ==
  TypeOK /\ FixturesAreSound /\ [Next]_vars => FixturesAreSound'
<1> SUFFICES ASSUME TypeOK, FixturesAreSound, [Next]_vars PROVE FixturesAreSound'
  OBVIOUS
<1> DEFINE Of(match) == {match.home, match.away}
           Sound(rows, ids, field) ==
             /\ \A match \in rows : match.schedule \in ids /\ Of(match) \subseteq field
             /\ \A s, t \in rows : s.schedule = t.schedule /\ s.week = t.week
                  /\ Of(s) \cap Of(t) # {} => s = t
<1>1. Sound(matches, schedules, Present)
  BY DEF FixturesAreSound, FixturesAreOfTheRoster, OneMatchAWeek
<1>2. ASSUME Sound(matches', schedules', Present') PROVE FixturesAreSound'
  BY <1>2 DEF FixturesAreSound, FixturesAreOfTheRoster, OneMatchAWeek
<1>3. ASSUME UNCHANGED fixtures, Present \subseteq Present' PROVE FixturesAreSound'
  BY <1>1, <1>2, <1>3 DEF fixtures
<1>4. ASSUME NEW f \in Files, ImportRoster(f) PROVE FixturesAreSound'
  <2>1. Present \subseteq Present'
    BY <1>4, FilesHaveDivisions DEF ImportRoster, Imported, Present
  <2> QED BY <1>3, <1>4, <2>1 DEF ImportRoster
<1>5. ASSUME NEW f \in Files, ReplaceRoster(f) PROVE FixturesAreSound'
  BY <1>2, <1>5 DEF ReplaceRoster
<1>6. Active \subseteq Present
  BY DEF Active
<1>7. ASSUME NEW id \in Schedules, NEW replace \in BOOLEAN, GenerateSchedule(id, replace)
      PROVE  FixturesAreSound'
  <2> DEFINE rows == Drawn(id, Ordered(Active, ByEntry))
  <2>1. /\ \A match \in rows : match.schedule = id /\ Of(match) \subseteq Active
        /\ \A s, t \in rows : s.week = t.week /\ Of(s) \cap Of(t) # {} => s = t
    BY <1>7, DrawnRowsAreSound, SeatingsAreKeyed DEF GenerateSchedule
  <2>2. matches' = rows /\ schedules' = {id} /\ Present' = Present
    BY <1>7, AscendingIsSeating DEF GenerateSchedule, membership, Present
  <2> HIDE DEF rows, Of
  <2> QED BY <1>2, <1>6, <2>1, <2>2
<1>8. ASSUME NEW id \in Schedules, GenerateByApi(id) PROVE FixturesAreSound'
  <2> DEFINE rows == Drawn(id, Ordered(Active, ByDivision))
  <2>1. /\ \A match \in rows : match.schedule = id /\ Of(match) \subseteq Active
        /\ \A s, t \in rows : s.week = t.week /\ Of(s) \cap Of(t) # {} => s = t
    BY <1>8, DrawnRowsAreSound, SeatingsAreKeyed DEF GenerateByApi
  <2>2. /\ matches' = matches \cup rows /\ schedules' = schedules \cup {id}
        /\ id \notin schedules /\ Present' = Present
    BY <1>8 DEF GenerateByApi, ByDivision, membership, Present
  <2> HIDE DEF rows, Of
  <2> QED BY <1>1, <1>2, <1>6, <2>1, <2>2
<1>9. ASSUME NEW id \in Schedules, NEW draw \in Draws, NEW allowSettled \in BOOLEAN,
             ImportDraw(id, draw, allowSettled)
      PROVE  FixturesAreSound'
  <2> DEFINE rows == {[schedule |-> id, week |-> d[1], home |-> d[2], away |-> d[3],
                       status |-> "scheduled"] : d \in draw}
             rest == {match \in matches : match.schedule # id}
  <2>1. /\ \A match \in rows : match.schedule = id /\ Of(match) \subseteq Present
        /\ \A s, t \in rows : s.week = t.week /\ Of(s) \cap Of(t) # {} => s = t
    BY <1>9, AdoptedRowsAreSound DEF ImportDraw
  <2>2. /\ matches' = rest \cup rows /\ schedules' = schedules
        /\ id \in schedules /\ Present' = Present
    BY <1>9 DEF ImportDraw, Adopted, membership, Present
  <2> HIDE DEF rows, Of
  <2> QED BY <1>1, <1>2, <2>1, <2>2
<1>10. ASSUME NEW match \in matches, NEW status \in Statuses, Settle(match, status)
       PROVE  FixturesAreSound'
  <2> DEFINE after == [match EXCEPT !.status = status]
  <2>1. /\ after.schedule = match.schedule /\ after.week = match.week
        /\ Of(after) = Of(match)
    BY <1>10, SettledMatch DEF TypeOK
  <2>2. /\ matches' = (matches \ {match}) \cup {after} /\ schedules' = schedules
        /\ Present' = Present
    BY <1>10 DEF Settle, membership, Present
  <2>3. ASSUME NEW s \in matches \ {match}, s.schedule = match.schedule,
               s.week = match.week
        PROVE  Of(s) \cap Of(match) = {}
    BY <1>1, <2>3
  <2> HIDE DEF after, Of
  <2>4. \A s \in matches' : s = after \/ s \in matches \ {match}
    BY <2>2
  <2>5. \A s \in matches' : s.schedule \in schedules /\ Of(s) \subseteq Present
    BY <1>1, <2>1, <2>4
  <2>6. ASSUME NEW s \in matches', NEW t \in matches', s.schedule = t.schedule,
               s.week = t.week, Of(s) \cap Of(t) # {}
        PROVE  s = t
    <3>1. CASE s = after /\ t \in matches \ {match}
      BY <2>1, <2>3, <2>6, <3>1
    <3>2. CASE t = after /\ s \in matches \ {match}
      BY <2>1, <2>3, <2>6, <3>2
    <3>3. CASE s \in matches \ {match} /\ t \in matches \ {match}
      BY <1>1, <2>6, <3>3
    <3> QED BY <2>4, <3>1, <3>2, <3>3
  <2> QED BY <1>2, <2>2, <2>5, <2>6
<1>11. CASE ApplySwap
  <2>1. Present \subseteq Present'
    BY <1>11, NoRowAssumption DEF ApplySwap, Divisions, Present
  <2> QED BY <1>3, <1>11, <2>1 DEF ApplySwap
<1>12. CASE UNCHANGED <<membership, fixtures>>
  BY <1>3, <1>12 DEF membership, Present
<1>13. ASSUME NEW m \in Managers, NEW d \in Divisions,
              UNCHANGED fixtures, division' = [division EXCEPT ![m] = d]
       PROVE  FixturesAreSound'
  <2>1. Present \subseteq Present'
    BY <1>13, NoRowAssumption DEF Present, TypeOK
  <2> QED BY <1>3, <1>13, <2>1
<1>14. ASSUME NEW m \in Managers, NEW d \in Divisions, NEW isConfirmed \in BOOLEAN,
              CreateManager(m, d, isConfirmed)
       PROVE  FixturesAreSound'
  BY <1>13, <1>14 DEF CreateManager
<1>15. ASSUME NEW m \in Managers, NEW d \in Divisions, NEW isConfirmed \in BOOLEAN,
              NEW value \in Standings, UpdateManager(m, d, value, isConfirmed)
       PROVE  FixturesAreSound'
  BY <1>13, <1>15 DEF UpdateManager
<1> HIDE DEF Of, Sound
<1> QED
  BY <1>4, <1>5, <1>7, <1>8, <1>9, <1>10, <1>11, <1>12, <1>14, <1>15
  DEF Next, vars, DrawCup, DetectCase, ClearCase, DecideCase, Rescore, SetFinalized

\* Whatever is imported, drawn, adopted, replaced and settled, in whichever order:
\* every match is between managers who are there, and nobody has two in a Gameweek
\* of a schedule.
THEOREM FixturesStaySound == Spec => []FixturesAreSound
<1>1. Init => TypeOK /\ FixturesAreSound
  BY DEF Init, TypeOK, Divisions, Present, FixturesAreSound, FixturesAreOfTheRoster, OneMatchAWeek
<1> QED BY <1>1, StepKeepsTypes, StepKeepsFixtures, PTL DEF Spec

-----------------------------------------------------------------------------
(* The exchange. *)

\* Only the exchange writes the first memberships of Season 2.
LEMMA OnlyTheSwapOpensSeasonTwo ==
  ASSUME Next, second = [m \in Managers |-> NoRow], second' # second
  PROVE  ApplySwap
<1>1. ASSUME NEW f \in Files, ReplaceRoster(f) PROVE FALSE
  <2>1. \A m \in Managers : (IF m \in Obsolete(f) THEN NoRow ELSE second[m]) = second[m]
    OBVIOUS
  <2>2. second' = [m \in Managers |-> IF m \in Obsolete(f) THEN NoRow ELSE second[m]]
    BY <1>1 DEF ReplaceRoster, Discarded
  <2> QED BY <2>1, <2>2
<1> QED
  BY <1>1
  DEF Next, membership, ImportRoster, GenerateSchedule, GenerateByApi, ImportDraw,
      DrawCup, CreateManager, UpdateManager, DetectCase, ClearCase, DecideCase, Rescore,
      SetFinalized, Settle

\* The exchange leaves the divisions their sizes, and moves those alone whose
\* results put them there: nobody goes up who was not strictly ahead of everybody
\* who stays behind in LOW, nobody down who was not strictly behind all who stay
\* in HIGH.
THEOREM SwapIsFair == Spec => ExchangeIsFair
<1> DEFINE up == In("LOW") \cap In("HIGH")'
           down == In("HIGH") \cap In("LOW")'
           FairSwap ==
             second = [m \in Managers |-> NoRow] /\ second' # second =>
               /\ Cardinality(up) = Count /\ Cardinality(down) = Count
               /\ \A m \in up : \A n \in In("LOW") \ up : Beats(Key[m], Key[n])
               /\ \A m \in down : \A n \in In("HIGH") \ down : Beats(Key[n], Key[m])
<1>1. Init => TypeOK
  BY DEF Init, TypeOK, Divisions, Present
<1>2. ASSUME TypeOK, ApplySwap
      PROVE  /\ Cardinality(up) = Count /\ Cardinality(down) = Count
             /\ \A m \in up : \A n \in In("LOW") \ up : Beats(Key[m], Key[n])
             /\ \A m \in down : \A n \in In("HIGH") \ down : Beats(Key[n], Key[m])
  <2>1. up = Swap.promoted /\ down = Swap.relegated
    <3>1. Swap.promoted \subseteq In("LOW") /\ Swap.relegated \subseteq In("HIGH")
      BY <1>2, SwapMovesTheDivisions
    <3>2. \A m \in Managers : division'[m] = IF m \in Swap.promoted THEN "HIGH"
                                             ELSE IF m \in Swap.relegated THEN "LOW"
                                             ELSE division[m]
      BY <1>2 DEF ApplySwap
    <3> QED BY <3>1, <3>2 DEF In
  <2> QED BY <1>2, <2>1, SwapMovesTheDivisions
<1>3. TypeOK /\ [Next]_vars => [FairSwap]_vars
  BY <1>2, OnlyTheSwapOpensSeasonTwo
<1>4. Spec => [][FairSwap]_vars
  BY <1>1, <1>3, StepKeepsTypes, PTL DEF Spec
<1> QED BY <1>4, PTL DEF ExchangeIsFair
=============================================================================
