-------------------------------- MODULE Cup --------------------------------
(***************************************************************************)
(* One Cup: its qualification table, the draw, and the administrators'     *)
(* requests that settle a round and move its winners on (services/cups.py).*)
(*                                                                         *)
(* Week 0 is the qualification window, taken as one Gameweek, week r the   *)
(* Gameweek of round r.  What the synchroniser writes, a whole Gameweek's  *)
(* scores at a time, and the Gameweeks' flags come from GameweekPipeline,  *)
(* the violations from Discipline.                                         *)
(***************************************************************************)
EXTENDS LeagueRules, CupBracket

CONSTANTS
  Managers,   \* managers, as numbers
  Division,   \* [Managers -> {"HIGH", "LOW"}]
  Published,  \* the bracket of this Cup
  Sheets,     \* what a Gameweek's scores may be: [Managers -> row or NoRow], a
              \* row being [net, facts]: net points, and the tie-break measures
              \* TotW, captain, goals and cards as one number
  NoRow       \* no such row in the database, and nobody

Ties      == DOMAIN Published.round
Rounds    == 1..Published.last
Weeks     == 0..Published.last
Sides     == {1, 2}
Unscored  == [m \in Managers |-> NoRow]
Tie       == [sides : [Sides -> Managers \cup {NoRow}], winner : Managers \cup {NoRow},
              scores : [Sides -> Int] \cup {NoRow},
              status : {"scheduled", "provisional", "final"}]
NoTie     == [sides |-> [i \in Sides |-> NoRow], winner |-> NoRow, scores |-> NoRow,
              status |-> "scheduled"]

ASSUME PublishedAssumption == Published.last \in Nat /\ IsBracket(Published)
                              /\ IsWritten(Published) /\ EntersFromTheTop(Published)
ASSUME ManagersAssumption  == /\ IsFiniteSet(Managers) /\ Managers \subseteq Nat
                              /\ NoRow \notin Managers
                              /\ Division \in [Managers -> {"HIGH", "LOW"}]

ASSUME SheetsAssumption    ==
  /\ Sheets \subseteq [Managers -> [net : Int, facts : Int] \cup {NoRow}]
  /\ NoRow \notin [net : Int, facts : Int]

VARIABLES
  sheet,    \* manager_gameweek_scores
  closed,   \* the finalized Gameweeks
  excluded, \* managers with a confirmed violation inside the window
  reached,  \* the highest disciplinary threshold on record, 2 removes from the
            \* Cup, 3 from the competition
  listed,   \* managers whose status is neither removed nor deleted
  drawn,    \* is there a Cup
  ties      \* cup_matches

season == <<sheet, closed, excluded, reached, listed>>
vars   == <<season, drawn, ties>>

Init ==
  /\ sheet = [w \in Weeks |-> Unscored]
  /\ closed = {} /\ excluded = {}
  /\ reached = [m \in Managers |-> 0] /\ listed = Managers
  /\ drawn = FALSE
  /\ ties = [t \in Ties |-> NoTie]

-----------------------------------------------------------------------------
(* Measures. *)

Net(m, w)   == IF sheet[w][m] = NoRow THEN 0 ELSE sheet[w][m].net
Facts(m, w) == IF sheet[w][m] = NoRow THEN 0 ELSE sheet[w][m].facts

\* Cumulative up to and including a week.
Through(measure, r) ==
  LET sum[w \in 0..r] == measure[w] + (IF w = 0 THEN 0 ELSE sum[w - 1]) IN sum[r]

\* A manager's key in a tie of round r.  No score counts as nothing.
TieKey(m, r) == <<Net(m, r), Through([w \in 0..r |-> Facts(m, w)], r),
                  Through([w \in 0..r |-> Net(m, w)], r)>>

\* A violation takes its Gameweek out of the window for the Cup, not for Classic.
QualificationKey(m) ==
  IF m \in excluded THEN <<0, 0, Net(m, 0)>> ELSE <<Net(m, 0), Facts(m, 0), Net(m, 0)>>

-----------------------------------------------------------------------------
(* The draw. *)

\* A division's table leaves out those who are removed from the competition.
Table(d) ==
  Ranks({m \in listed : Division[m] = d},
        [m \in Managers |-> QualificationKey(m)])

\* A slip: of several who share a place one is taken.
AnyHolder(place) ==
  LET table == Table(place[2]) IN {m \in DOMAIN table : table[m] = place[3]}

\* The manager who alone holds a place, if there is one.
Holders(place) ==
  LET table == Table(place[2])
      level == {m \in DOMAIN table : table[m] = place[3]}
  IN IF Cardinality(level) = 1 THEN level ELSE {}

Draw(allowProvisional) ==
  LET places == {side \in UNION {{Published.sides[t][i] : i \in Sides} : t \in Ties} :
                   IsSeed(side)}
      Entrant(side) == IF IsSeed(side) THEN CHOOSE m \in Managers : m \in Holders(side)
                                       ELSE NoRow
  IN /\ ~drawn
     /\ 0 \in closed \/ allowProvisional
     /\ \A place \in places : Holders(place) # {}
     /\ drawn' = TRUE
     /\ ties' = [t \in Ties |-> [NoTie EXCEPT !.sides =
                  [i \in Sides |-> Entrant(Published.sides[t][i])]]]
     /\ UNCHANGED season

-----------------------------------------------------------------------------
(* A round. *)

Keys(r)  == [m \in Managers |-> TieKey(m, r)]
Waits(t) == NoRow \in {ties[t].sides[i] : i \in Sides}

\* The better key wins and the match scores are written down beside the result;
\* a tie that is level after the whole key stays undecided.
Decided(t, r, key) ==
  LET a == ties[t].sides[1]  b == ties[t].sides[2] IN
  IF key[a] = key[b] THEN [ties[t] EXCEPT !.status = "provisional"]
  ELSE [ties[t] EXCEPT !.winner = IF Beats(key[a], key[b]) THEN a ELSE b,
                       !.scores = [i \in Sides |-> Net(ties[t].sides[i], r)],
                       !.status = "final"]

\* A slip: a tie is settled again whenever its round is.
SettledAgain(t, r) == IF Waits(t) THEN ties[t] ELSE Decided(t, r, Keys(r))

\* A slip: the facts come before the match score.
SettledOnFacts(t, r) ==
  IF ties[t].winner # NoRow \/ Waits(t) THEN ties[t]
  ELSE Decided(t, r, [m \in Managers |-> Tail(TieKey(m, r))])

\* Only a tie with two sides and no winner is decided.
Settled(t, r) ==
  IF ties[t].winner # NoRow \/ Waits(t) THEN ties[t] ELSE Decided(t, r, Keys(r))

Loser(tie) == IF tie.winner = NoRow THEN NoRow
              ELSE IF tie.sides[1] = tie.winner THEN tie.sides[2] ELSE tie.sides[1]

\* Who goes to a side: the winner or the loser of the tie it names.
Comer(side, round) == IF side[1] = "winner" THEN round[side[2]].winner
                                            ELSE Loser(round[side[2]])

\* A slip: only the ties decided by this request send their winner on.
PlacedOnce(round, r) ==
  [t \in Ties |-> [round[t] EXCEPT !.sides = [i \in Sides |->
     LET side == Published.sides[t][i] IN
     IF round[t].sides[i] # NoRow \/ IsSeed(side) THEN round[t].sides[i]
     ELSE IF Published.round[side[2]] # r \/ ties[side[2]].status # "scheduled" THEN NoRow
     ELSE Comer(side, round)]]]

\* The empty sides that wait for a tie of round r.
Placed(round, r) ==
  [t \in Ties |-> [round[t] EXCEPT !.sides = [i \in Sides |->
     LET side == Published.sides[t][i] IN
     IF round[t].sides[i] # NoRow \/ IsSeed(side) THEN round[t].sides[i]
     ELSE IF Published.round[side[2]] # r THEN NoRow
     ELSE Comer(side, round)]]]

\* A slip: nobody asks whether the Gameweek is finalized.
AdvanceLive(r) ==
  /\ drawn
  /\ \E round \in {[t \in Ties |-> IF Published.round[t] = r THEN Settled(t, r)
                                                            ELSE ties[t]]} :
       ties' = Placed(round, r)
  /\ UNCHANGED <<season, drawn>>

Advance(r) ==
  /\ drawn /\ r \in closed
  /\ \E round \in {[t \in Ties |-> IF Published.round[t] = r THEN Settled(t, r)
                                                            ELSE ties[t]]} :
       ties' = Placed(round, r)
  /\ UNCHANGED <<season, drawn>>

-----------------------------------------------------------------------------
(* The season around the Cup. *)

\* A scoring pass writes a Gameweek, closed or not.
Rescore(w, scores) ==
  /\ sheet' = [sheet EXCEPT ![w] = scores]
  /\ UNCHANGED <<closed, excluded, reached, listed, drawn, ties>>

\* The gate or an administrator, either way.
SetFinalized(w, value) ==
  /\ value # (w \in closed)
  /\ closed' = IF value THEN closed \cup {w} ELSE closed \ {w}
  /\ UNCHANGED <<sheet, excluded, reached, listed, drawn, ties>>

\* A review leaves a manager with a total, of units inside the window or not.
\* A threshold stays on record, and the third removes him when it is recorded.
Review(m, inWindow, total) ==
  /\ inWindow => total > 0
  /\ reached' = [reached EXCEPT ![m] = IF total > @ THEN total ELSE @]
  /\ excluded' = IF inWindow THEN excluded \cup {m} ELSE excluded \ {m}
  /\ listed' = IF total = 3 /\ reached[m] < 3 THEN listed \ {m} ELSE listed
  /\ UNCHANGED <<sheet, closed, drawn, ties>>

\* The API sets a manager's status, whatever is on record against him.
UpdateManager(m, in) ==
  /\ listed' = IF in THEN listed \cup {m} ELSE listed \ {m}
  /\ UNCHANGED <<sheet, closed, excluded, reached, drawn, ties>>

Next ==
  \/ \E allowProvisional \in BOOLEAN : Draw(allowProvisional)
  \/ \E r \in Rounds : Advance(r)
  \/ \E w \in Weeks : \/ \E scores \in Sheets : Rescore(w, scores)
                      \/ \E value \in BOOLEAN : SetFinalized(w, value)
  \/ \E m \in Managers, inWindow \in BOOLEAN, total \in 0..3 : Review(m, inWindow, total)
  \/ \E m \in Managers, in \in BOOLEAN : UpdateManager(m, in)

Spec == Init /\ [][Next]_vars

-----------------------------------------------------------------------------
(* What must hold. *)

TypeOK ==
  /\ sheet \in [Weeks -> Sheets \cup {Unscored}]
  /\ closed \subseteq Weeks /\ excluded \subseteq Managers
  /\ reached \in [Managers -> 0..3] /\ listed \subseteq Managers
  /\ drawn \in BOOLEAN
  /\ ties \in [Ties -> Tie]

\* In whichever order rounds are advanced, and however often: behind every
\* decided tie the winner, or for the third place the loser, stands where the
\* bracket sends him, and nobody stands anywhere else.
BracketIsFollowed ==
  \A t \in Ties, i \in Sides :
    LET side == Published.sides[t][i] IN
    ~IsSeed(side) => ties[t].sides[i] = Comer(side, ties)

Standing(t) == {ties[t].sides[i] : i \in Sides} \ {NoRow}

\* Nobody is in two ties of one round, and nobody who lost plays on but for the
\* third place.
LosersAreOut ==
  \A t, u \in Ties : t # u => \A m \in Standing(t) \cap Standing(u) :
    /\ Published.round[t] # Published.round[u]
    /\ Published.round[t] < Published.round[u] =>
         ties[t].winner = m \/ \E i \in Sides : Published.sides[u][i] = <<"loser", t>>

\* The scores written down beside a result explain it, whatever was rescored
\* since: no winner had fewer points.
ScoresExplainResult ==
  \A t \in Ties : ties[t].winner # NoRow =>
    \A i \in Sides : ties[t].sides[i] # ties[t].winner =>
                       ties[t].scores[i] <= ties[t].scores[3 - i]

\* The entrants are the best of both divisions' tables: nobody who entered was
\* behind somebody of his division who did not.
\* (At the draw; the table may change after it.)
EntrantsAreTheBest ==
  [][~drawn /\ drawn' =>
       LET entrants == (UNION {{ties'[t].sides[i] : i \in Sides} : t \in Ties}) \ {NoRow} IN
       \A m \in entrants, n \in listed \ entrants :
         Division[n] = Division[m] =>
           Beats(QualificationKey(m), QualificationKey(n))]_vars

\* Once somebody stands in a tie he stays there, a result stays as it was
\* written, and none is written while its Gameweek is open.
ResultsStand ==
  [][\A t \in Ties :
       /\ \A i \in Sides : ties[t].sides[i] # NoRow => ties'[t].sides[i] = ties[t].sides[i]
       /\ ties[t].winner # NoRow => ties'[t] = ties[t]
       /\ ties'[t].winner # ties[t].winner => Published.round[t] \in closed]_vars

\* Whenever a Cup is drawn, both published brackets are brackets and seed every
\* place where the rules say.
PublishedAsRuled ==
  [][~drawn /\ drawn' =>
       \A b \in {Season1, Season2} :
         IsBracket(b) /\ IsWritten(b) /\ FeedsForward(b) /\ FollowsTheRules(b)]_vars

-----------------------------------------------------------------------------
(* What the rulebook says, and the code does not do. *)

\* Somebody who has reached the second threshold is removed from the Cup: his
\* remaining ties go to an opponent who has not.
RemovedFromCupIsOut ==
  [][\A t \in Ties : ties[t].winner = NoRow /\ ties'[t].winner # NoRow =>
       reached[ties'[t].winner] < 2 \/ reached[Loser(ties'[t])] >= 2]_vars
=============================================================================
