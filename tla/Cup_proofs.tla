----------------------------- MODULE Cup_proofs -----------------------------
(* What a Cup keeps, for every bracket, field and sheet of scores. *)
EXTENDS Cup, LeagueRules_proofs

Entrant == Managers \cup {NoRow}

\* Nothing stands in a Cup that is not drawn, a decided tie has two sides of
\* which one won, and an undecided one has no result.
DrawnFirst   == ~drawn => ties = [t \in Ties |-> NoTie]
WinnerPlayed == \A t \in Ties : ties[t].winner # NoRow =>
                  /\ \A i \in Sides : ties[t].sides[i] # NoRow
                  /\ ties[t].winner \in {ties[t].sides[1], ties[t].sides[2]}
                  /\ ties[t].scores \in [Sides -> Int]

IInv == TypeOK /\ DrawnFirst /\ WinnerPlayed /\ BracketIsFollowed

\* Of two sides somebody stands on, the earlier is of a tie he won, or lost to
\* come to the later.
OnePath ==
  \A t, u \in Ties, i, j \in Sides :
    /\ t # u \/ i # j
    /\ ties[t].sides[i] # NoRow /\ ties[t].sides[i] = ties[u].sides[j]
    => /\ Published.round[t] # Published.round[u]
       /\ Published.round[t] < Published.round[u] =>
            ties[t].winner = ties[t].sides[i] \/ Published.sides[u][j] = <<"loser", t>>

\* A side of a bracket that is not a place waits for a tie of the bracket.
LEMMA FeederIsTie ==
  ASSUME NEW t \in Ties, NEW i \in Sides, ~IsSeed(Published.sides[t][i])
  PROVE  /\ Published.sides[t][i][2] \in Ties
         /\ Published.round[Published.sides[t][i][2]] + 1 = Published.round[t]
<1> DEFINE s == <<t, i>>
<1>1. s \in Slots(Published) /\ s[1] = t /\ s[2] = i
  BY DEF Slots, Ties, Sides
<1> QED BY <1>1, PublishedAssumption DEF IsBracket, Ties

\* A net score on a sheet is an integer.
LEMMA NetType ==
  ASSUME TypeOK, NEW m \in Managers, NEW w \in Weeks
  PROVE  Net(m, w) \in Int
<1>1. sheet[w] \in [Managers -> [net : Int, facts : Int] \cup {NoRow}]
  BY SheetsAssumption DEF TypeOK, Unscored
<1> QED BY <1>1 DEF Net

\* Every round has its Gameweek.
LEMMA RoundIsWeek == \A r \in Rounds : r \in Weeks
  BY PublishedAssumption DEF Rounds, Weeks

\* A place of a table is held by managers.
LEMMA HoldersAreManagers ==
  ASSUME TypeOK PROVE \A place : Holders(place) \subseteq Managers
  BY DEF TypeOK, Holders, Table, Ranks

-----------------------------------------------------------------------------
(* Settling. *)

\* What settling does to one tie: nothing to its sides, nothing to a decided
\* tie, and a result only for one that has two sides, for one of them.
LEMMA SettledTie ==
  ASSUME IInv, NEW r \in Rounds, NEW t \in Ties
  PROVE  LET tie == Settled(t, r) IN
         /\ tie \in Tie
         /\ tie.sides = ties[t].sides
         /\ ties[t].winner # NoRow => tie = ties[t]
         /\ tie.winner # NoRow =>
              /\ \A i \in Sides : tie.sides[i] # NoRow
              /\ tie.winner \in {tie.sides[1], tie.sides[2]}
              /\ tie.scores \in [Sides -> Int]
<1> DEFINE a == ties[t].sides[1]  b == ties[t].sides[2]
           scores == [i \in Sides |-> Net(ties[t].sides[i], r)]
           winner == IF Beats(Keys(r)[a], Keys(r)[b]) THEN a ELSE b
<1>1. ties[t] \in Tie
  BY DEF IInv, TypeOK
<1>2. CASE ties[t].winner # NoRow \/ Waits(t)
  BY <1>1, <1>2 DEF IInv, WinnerPlayed, Settled
<1>3. CASE ~(ties[t].winner # NoRow \/ Waits(t))
  <2>1. \A i \in Sides : ties[t].sides[i] \in Managers
    BY <1>1, <1>3 DEF Waits, Tie
  <2>2. a \in Managers /\ b \in Managers
    BY <2>1 DEF Sides
  <2>3. scores \in [Sides -> Int]
    BY <2>1, NetType, RoundIsWeek DEF IInv
  <2>4. winner \in {a, b} /\ winner \in Managers
    BY <2>2
  <2>5. Settled(t, r) = IF Keys(r)[a] = Keys(r)[b]
                        THEN [ties[t] EXCEPT !.status = "provisional"]
                        ELSE [ties[t] EXCEPT !.winner = winner, !.scores = scores,
                                             !.status = "final"]
    BY <1>3 DEF Settled, Decided
  <2> HIDE DEF winner, scores
  <2>6. CASE Keys(r)[a] = Keys(r)[b]
    BY <1>1, <1>3, <2>5, <2>6 DEF Tie
  <2>7. CASE Keys(r)[a] # Keys(r)[b]
    <3> DEFINE tie == [ties[t] EXCEPT !.winner = winner, !.scores = scores,
                                      !.status = "final"]
    <3>1. tie.sides = ties[t].sides /\ tie.winner = winner /\ tie.scores = scores
      BY <1>1 DEF Tie
    <3>2. tie \in Tie
      BY <1>1, <2>3, <2>4 DEF Tie
    <3>3. Settled(t, r) = tie
      BY <2>5, <2>7
    <3> HIDE DEF tie
    <3> QED BY <1>3, <2>1, <2>3, <2>4, <3>1, <3>2, <3>3, ManagersAssumption
  <2> QED BY <2>6, <2>7
<1> QED BY <1>2, <1>3

\* The first measure of two keys decides, or is level.
LEMMA BeatsOnPoints ==
  ASSUME NEW p \in Int, NEW q \in Int, NEW x, NEW y, NEW v, NEW w
  PROVE  /\ Beats(<<p, x, y>>, <<q, v, w>>) => p >= q
         /\ ~Beats(<<p, x, y>>, <<q, v, w>>) => p <= q
<1> DEFINE k == <<p, x, y>>  l == <<q, v, w>>
<1>1. DOMAIN k = 1..3 /\ k[1] = p /\ l[1] = q
  OBVIOUS
<1>2. ASSUME Beats(k, l) PROVE p >= q
  <2>1. PICK i \in DOMAIN k : k[i] > l[i] /\ \A j \in 1..(i - 1) : k[j] = l[j]
    BY <1>2 DEF Beats
  <2>2. CASE i = 1
    BY <1>1, <2>1, <2>2
  <2>3. CASE i # 1
    <3>1. 1 \in 1..(i - 1)
      BY <1>1, <2>3
    <3> QED BY <1>1, <2>1, <3>1
  <2> QED BY <2>2, <2>3
<1>3. ASSUME ~Beats(k, l) PROVE p <= q
  <2>1. 1 \in DOMAIN k /\ \A j \in 1..(1 - 1) : k[j] = l[j]
    BY <1>1
  <2>2. ~(k[1] > l[1])
    BY <1>3, <2>1 DEF Beats
  <2> QED BY <1>1, <2>2
<1> QED BY <1>2, <1>3

Explained(tie) == \A i \in Sides : tie.sides[i] # tie.winner =>
                                    tie.scores[i] <= tie.scores[3 - i]

\* A tie that is decided now has scores beside it that explain the result.
LEMMA DecidedIsExplained ==
  ASSUME IInv, NEW r \in Rounds, NEW t \in Ties,
         ties[t].winner = NoRow, Settled(t, r).winner # NoRow
  PROVE  Explained(Settled(t, r))
<1> DEFINE a == ties[t].sides[1]  b == ties[t].sides[2]
           scores == [i \in Sides |-> Net(ties[t].sides[i], r)]
           tie == [ties[t] EXCEPT !.winner = IF Beats(Keys(r)[a], Keys(r)[b]) THEN a ELSE b,
                                  !.scores = scores, !.status = "final"]
<1>1. ties[t] \in Tie
  BY DEF IInv, TypeOK
<1>2. ~Waits(t)
  BY DEF Settled
<1>3. a \in Managers /\ b \in Managers
  BY <1>1, <1>2 DEF Waits, Tie, Sides
<1>4. Settled(t, r) = IF Keys(r)[a] = Keys(r)[b]
                      THEN [ties[t] EXCEPT !.status = "provisional"] ELSE tie
  BY <1>2 DEF Settled, Decided
<1>5. [ties[t] EXCEPT !.status = "provisional"].winner = NoRow
  BY <1>1 DEF Tie
<1>6. Settled(t, r) = tie
  BY <1>4, <1>5
<1>7. tie.sides = ties[t].sides /\ tie.scores = scores
      /\ tie.winner = IF Beats(Keys(r)[a], Keys(r)[b]) THEN a ELSE b
  BY <1>1 DEF Tie
<1>8. Net(a, r) \in Int /\ Net(b, r) \in Int
  BY <1>3, NetType, RoundIsWeek DEF IInv
<1>9. /\ Beats(Keys(r)[a], Keys(r)[b]) => Net(a, r) >= Net(b, r)
      /\ ~Beats(Keys(r)[a], Keys(r)[b]) => Net(a, r) <= Net(b, r)
  BY <1>3, <1>8, BeatsOnPoints DEF Keys, TieKey
<1>10. scores[1] = Net(a, r) /\ scores[2] = Net(b, r)
  BY DEF Sides
<1> HIDE DEF scores, tie
<1>11. ASSUME NEW i \in Sides, tie.sides[i] # tie.winner
       PROVE  tie.scores[i] <= tie.scores[3 - i]
  <2>1. CASE i = 1
    BY <1>7, <1>8, <1>9, <1>10, <1>11, <2>1
  <2>2. CASE i = 2
    BY <1>7, <1>8, <1>9, <1>10, <1>11, <2>2
  <2> QED BY <2>1, <2>2 DEF Sides
<1> QED BY <1>6, <1>11 DEF Explained

-----------------------------------------------------------------------------
(* Moving on. *)

\* The ties after a round is settled and before anybody moves.
After(r) == [t \in Ties |-> IF Published.round[t] = r THEN Settled(t, r) ELSE ties[t]]

\* A tie after its round is settled; elsewhere it is left as it was.
LEMMA AfterTie ==
  ASSUME IInv, NEW r \in Rounds, NEW t \in Ties
  PROVE  /\ After(r)[t] \in Tie
         /\ After(r)[t].sides = ties[t].sides
         /\ ties[t].winner # NoRow => After(r)[t] = ties[t]
         /\ Published.round[t] # r => After(r)[t] = ties[t]
         /\ After(r)[t].winner # NoRow =>
              /\ \A i \in Sides : After(r)[t].sides[i] # NoRow
              /\ After(r)[t].winner \in {After(r)[t].sides[1], After(r)[t].sides[2]}
              /\ After(r)[t].scores \in [Sides -> Int]
<1>1. CASE Published.round[t] = r
  BY <1>1, SettledTie DEF After
<1>2. CASE Published.round[t] # r
  BY <1>2 DEF After, IInv, TypeOK, WinnerPlayed
<1> QED BY <1>1, <1>2

\* From an earlier tie an entrant comes, or nobody yet.
LEMMA ComerIsEntrant ==
  ASSUME NEW round, NEW side, round[side[2]] \in Tie
  PROVE  /\ Comer(side, round) \in Entrant
         /\ round[side[2]].winner = NoRow => Comer(side, round) = NoRow
  BY DEF Comer, Loser, Tie, Entrant, Sides

\* What a request does to one tie: it keeps everybody where he stands, and fills
\* the empty sides that wait for a tie of the round.
LEMMA AdvancedTie ==
  ASSUME IInv, NEW r \in Rounds, Advance(r), NEW t \in Ties
  PROVE  /\ ties'[t] \in Tie
         /\ ties'[t].winner = After(r)[t].winner
         /\ ties'[t].scores = After(r)[t].scores
         /\ \A i \in Sides : ties'[t].sides[i] =
              IF ties[t].sides[i] # NoRow \/ IsSeed(Published.sides[t][i])
              THEN ties[t].sides[i]
              ELSE IF Published.round[Published.sides[t][i][2]] # r THEN NoRow
              ELSE Comer(Published.sides[t][i], After(r))
         /\ ties[t].winner # NoRow => ties'[t] = ties[t]
<1> DEFINE old == After(r)[t]
           sides == [i \in Sides |->
              LET side == Published.sides[t][i] IN
              IF old.sides[i] # NoRow \/ IsSeed(side) THEN old.sides[i]
              ELSE IF Published.round[side[2]] # r THEN NoRow
              ELSE Comer(side, After(r))]
<1>1. ties'[t] = [old EXCEPT !.sides = sides]
  BY DEF Advance, Placed, After
<1>2. old \in Tie /\ old.sides = ties[t].sides /\ old.sides \in [Sides -> Entrant]
  BY AfterTie DEF Tie, Entrant
<1>3. sides \in [Sides -> Entrant]
  <2> SUFFICES ASSUME NEW i \in Sides, ~IsSeed(Published.sides[t][i])
               PROVE  Comer(Published.sides[t][i], After(r)) \in Entrant
    BY <1>2 DEF Entrant
  <2> QED BY FeederIsTie, AfterTie, ComerIsEntrant
<1>4. ties'[t].sides = sides /\ ties'[t].winner = old.winner
      /\ ties'[t].scores = old.scores
  BY <1>1, <1>2 DEF Tie
<1>5. ties'[t] \in Tie
  BY <1>1, <1>2, <1>3 DEF Tie, Entrant
<1>6. ASSUME ties[t].winner # NoRow PROVE ties'[t] = ties[t]
  <2>1. \A i \in Sides : ties[t].sides[i] # NoRow
    BY <1>6 DEF IInv, WinnerPlayed
  <2>2. sides = old.sides
    BY <1>2, <2>1
  <2>3. old = ties[t]
    BY <1>6, AfterTie
  <2>4. [old EXCEPT !.sides = sides] = old
    <3> HIDE DEF old, sides
    <3> QED BY <1>2, <2>2 DEF Tie
  <2> QED BY <1>1, <2>3, <2>4
<1> QED BY <1>2, <1>4, <1>5, <1>6

\* Whoever waits for a tie of the round does so outside the round, so the ties
\* that send somebody on keep their own sides.
LEMMA SendersKeepSides ==
  ASSUME IInv, NEW r \in Rounds, Advance(r), NEW t \in Ties, Published.round[t] = r
  PROVE  ties'[t].sides = ties[t].sides
<1>1. ties[t].sides \in [Sides -> Entrant] /\ ties'[t].sides \in [Sides -> Entrant]
  BY AdvancedTie DEF IInv, TypeOK, Tie, Entrant
<1>2. ASSUME NEW i \in Sides PROVE ties'[t].sides[i] = ties[t].sides[i]
  <2>1. CASE ties[t].sides[i] # NoRow \/ IsSeed(Published.sides[t][i])
    BY <2>1, AdvancedTie
  <2>2. CASE ties[t].sides[i] = NoRow /\ ~IsSeed(Published.sides[t][i])
    <3>1. Published.round[Published.sides[t][i][2]] + 1 = r
      BY <2>2, FeederIsTie
    <3>2. Published.round[Published.sides[t][i][2]] # r
      BY <3>1 DEF Rounds
    <3> QED BY <2>2, <3>2, AdvancedTie
  <2> QED BY <2>1, <2>2
<1> QED BY <1>1, <1>2

\* A request leaves every side that waits for somebody as the bracket wants it.
LEMMA AdvanceFollowsBracket ==
  ASSUME IInv, NEW r \in Rounds, Advance(r)
  PROVE  BracketIsFollowed'
<1> SUFFICES ASSUME NEW t \in Ties, NEW i \in Sides, ~IsSeed(Published.sides[t][i])
             PROVE  ties'[t].sides[i] = Comer(Published.sides[t][i], ties')
  BY DEF BracketIsFollowed
<1> DEFINE side == Published.sides[t][i]  f == side[2]
<1>1. f \in Ties
  BY FeederIsTie
<1>2. ties[t].sides[i] = Comer(side, ties)
  BY DEF IInv, BracketIsFollowed
<1>3. ties[f] \in Tie /\ After(r)[f] \in Tie /\ ties'[f] \in Tie
  BY <1>1, AfterTie, AdvancedTie DEF IInv, TypeOK
<1>4. ties[f].winner = NoRow => Comer(side, ties) = NoRow
  BY <1>3, ComerIsEntrant
<1>5. CASE ties[f].winner # NoRow
  <2>1. ties'[f] = ties[f] /\ After(r)[f] = ties[f]
    BY <1>1, <1>5, AdvancedTie, AfterTie
  <2>2. Comer(side, ties') = Comer(side, ties) /\ Comer(side, After(r)) = Comer(side, ties)
    BY <2>1 DEF Comer
  <2>3. Comer(side, ties) # NoRow
    BY <1>1, <1>5 DEF Comer, Loser, IInv, WinnerPlayed, Sides
  <2> QED BY <1>2, <2>2, <2>3, AdvancedTie
<1>6. CASE ties[f].winner = NoRow /\ Published.round[f] = r
  <2>1. ties'[f].sides = After(r)[f].sides /\ ties'[f].winner = After(r)[f].winner
    BY <1>1, <1>6, SendersKeepSides, AfterTie, AdvancedTie
  <2>2. Comer(side, ties') = Comer(side, After(r))
    BY <2>1 DEF Comer, Loser
  <2> QED BY <1>2, <1>4, <1>6, <2>2, AdvancedTie
<1>7. CASE ties[f].winner = NoRow /\ Published.round[f] # r
  <2>1. ties'[f].winner = NoRow
    BY <1>1, <1>7, AdvancedTie, AfterTie
  <2>2. Comer(side, ties') = NoRow
    BY <1>3, <2>1, ComerIsEntrant
  <2> QED BY <1>2, <1>4, <1>7, <2>2, AdvancedTie
<1> QED BY <1>5, <1>6, <1>7

-----------------------------------------------------------------------------
(* The invariant. *)

\* A tie nobody is in yet has nobody as its winner.
LEMMA EmptyTie == NoTie \in Tie /\ NoTie.winner = NoRow
  BY DEF NoTie, Tie, Sides

\* The invariant holds before the draw.
LEMMA InitInvariant == Init => IInv
<1> SUFFICES ASSUME Init PROVE IInv
  OBVIOUS
<1>1. TypeOK
  <2>1. sheet \in [Weeks -> Sheets \cup {Unscored}]
    BY DEF Init
  <2>2. reached \in [Managers -> 0..3]
    BY 0 \in 0..3 DEF Init
  <2>3. drawn \in BOOLEAN
    BY DEF Init
  <2>4. ties \in [Ties -> Tie]
    BY EmptyTie DEF Init
  <2> QED BY <2>1, <2>2, <2>3, <2>4 DEF Init, TypeOK
<1>2. DrawnFirst /\ WinnerPlayed
  BY EmptyTie DEF Init, DrawnFirst, WinnerPlayed
<1>3. BracketIsFollowed
  BY FeederIsTie DEF Init, BracketIsFollowed, Comer, Loser, NoTie
<1> QED BY <1>1, <1>2, <1>3 DEF IInv

\* Drawing the bracket keeps it.
LEMMA DrawKeepsInvariant ==
  ASSUME IInv, NEW allowProvisional \in BOOLEAN, Draw(allowProvisional)
  PROVE  IInv'
<1> DEFINE places == {side \in UNION {{Published.sides[t][i] : i \in Sides} : t \in Ties} :
                        IsSeed(side)}
           Holder(side) == IF IsSeed(side) THEN CHOOSE m \in Managers : m \in Holders(side)
                                           ELSE NoRow
<1>1. ASSUME NEW t \in Ties, NEW i \in Sides
      PROVE  Holder(Published.sides[t][i]) \in Entrant
  <2>1. IsSeed(Published.sides[t][i]) => Holders(Published.sides[t][i]) # {}
    BY DEF Draw
  <2> QED BY <2>1, HoldersAreManagers DEF Entrant, IInv
<1>2. ties' = [t \in Ties |-> [NoTie EXCEPT !.sides =
                                [i \in Sides |-> Holder(Published.sides[t][i])]]]
  BY DEF Draw
<1> HIDE DEF Holder
<1>3. \A t \in Ties : /\ ties'[t].sides = [i \in Sides |-> Holder(Published.sides[t][i])]
                      /\ ties'[t].winner = NoRow /\ ties'[t] \in Tie
  BY <1>1, <1>2 DEF NoTie, Tie, Entrant
<1>4. TypeOK'
  BY <1>2, <1>3 DEF IInv, TypeOK, Draw, season
<1>5. DrawnFirst' /\ WinnerPlayed'
  BY <1>3 DEF DrawnFirst, WinnerPlayed, Draw
<1>6. BracketIsFollowed'
  <2> SUFFICES ASSUME NEW t \in Ties, NEW i \in Sides, ~IsSeed(Published.sides[t][i])
               PROVE  ties'[t].sides[i] = Comer(Published.sides[t][i], ties')
    BY DEF BracketIsFollowed
  <2>1. ties'[t].sides[i] = NoRow
    BY <1>3 DEF Holder
  <2>2. ties'[Published.sides[t][i][2]].winner = NoRow
    BY <1>3, FeederIsTie
  <2> QED BY <2>1, <2>2 DEF Comer, Loser
<1> QED BY <1>4, <1>5, <1>6 DEF IInv

\* Advancing a round keeps it.
LEMMA AdvanceKeepsInvariant ==
  ASSUME IInv, NEW r \in Rounds, Advance(r)
  PROVE  IInv'
<1>1. TypeOK'
  <2>1. ties' = [t \in Ties |-> ties'[t]]
    BY DEF Advance, Placed
  <2> QED BY <2>1, AdvancedTie DEF IInv, TypeOK, Advance, season
<1>2. DrawnFirst'
  BY DEF Advance, DrawnFirst
<1>3. WinnerPlayed'
  <2> SUFFICES ASSUME NEW t \in Ties, ties'[t].winner # NoRow
               PROVE  /\ \A i \in Sides : ties'[t].sides[i] # NoRow
                      /\ ties'[t].winner \in {ties'[t].sides[1], ties'[t].sides[2]}
                      /\ ties'[t].scores \in [Sides -> Int]
    BY DEF WinnerPlayed
  <2>1. /\ \A i \in Sides : ties[t].sides[i] # NoRow
        /\ ties'[t].winner \in {ties[t].sides[1], ties[t].sides[2]}
        /\ ties'[t].scores \in [Sides -> Int]
    BY AfterTie, AdvancedTie
  <2>2. \A i \in Sides : ties'[t].sides[i] = ties[t].sides[i]
    BY <2>1, AdvancedTie
  <2> QED BY <2>1, <2>2 DEF Sides
<1> QED BY <1>1, <1>2, <1>3, AdvanceFollowsBracket DEF IInv

\* So every step keeps it.
LEMMA StepInvariant == IInv /\ [Next]_vars => IInv'
<1> SUFFICES ASSUME IInv, [Next]_vars PROVE IInv'
  OBVIOUS
<1>1. ASSUME NEW p \in BOOLEAN, Draw(p) PROVE IInv'
  BY <1>1, DrawKeepsInvariant
<1>2. ASSUME NEW r \in Rounds, Advance(r) PROVE IInv'
  BY <1>2, AdvanceKeepsInvariant
<1>3. ASSUME UNCHANGED <<drawn, ties>>, TypeOK' PROVE IInv'
  BY <1>3 DEF IInv, DrawnFirst, WinnerPlayed, BracketIsFollowed, Comer
<1>4. ASSUME NEW w \in Weeks, NEW scores \in Sheets, Rescore(w, scores) PROVE IInv'
  BY <1>3, <1>4 DEF Rescore, IInv, TypeOK
<1>5. ASSUME NEW w \in Weeks, NEW value \in BOOLEAN, SetFinalized(w, value) PROVE IInv'
  BY <1>3, <1>5 DEF SetFinalized, IInv, TypeOK
<1>6. ASSUME NEW m \in Managers, NEW inWindow \in BOOLEAN, NEW n \in 0..3,
             Review(m, inWindow, n)
      PROVE  IInv'
  BY <1>3, <1>6 DEF Review, IInv, TypeOK
<1>7. ASSUME NEW m \in Managers, NEW in \in BOOLEAN, UpdateManager(m, in)
      PROVE  IInv'
  BY <1>3, <1>7 DEF UpdateManager, IInv, TypeOK
<1>8. CASE UNCHANGED vars
  BY <1>3, <1>8 DEF vars, season, IInv, TypeOK
<1> QED BY <1>1, <1>2, <1>4, <1>5, <1>6, <1>7, <1>8 DEF Next

\* The invariant the theorems rest on.
THEOREM Invariant == Spec => []IInv
  BY InitInvariant, StepInvariant, PTL DEF Spec

\* Every table keeps its shape, for any bracket, field and sheet of scores.
THEOREM TypeCorrect == Spec => []TypeOK
  BY Invariant, PTL DEF IInv

\* In whichever order rounds are advanced, and however often, the winners, and
\* for the third place the losers, stand exactly where the bracket sends them.
THEOREM BracketStands == Spec => []BracketIsFollowed
  BY Invariant, PTL DEF IInv

\* However often a Gameweek is rescored, reopened and closed again, somebody who
\* stands in a tie stays there, a result stays as it was written, and none is
\* written while its Gameweek is open.
THEOREM ResultsAreKept == Spec => ResultsStand
<1> DEFINE Kept == \A t \in Ties :
              /\ \A i \in Sides : ties[t].sides[i] # NoRow => ties'[t].sides[i] = ties[t].sides[i]
              /\ ties[t].winner # NoRow => ties'[t] = ties[t]
              /\ ties'[t].winner # ties[t].winner => Published.round[t] \in closed
<1>1. IInv /\ [Next]_vars => [Kept]_vars
  <2> SUFFICES ASSUME IInv, Next PROVE Kept
    OBVIOUS
  <2>1. ASSUME NEW p \in BOOLEAN, Draw(p) PROVE Kept
    <3>1. ties = [t \in Ties |-> NoTie]
      BY <2>1 DEF Draw, IInv, DrawnFirst
    <3>2. \A t \in Ties : ties'[t].winner = NoRow
      BY <2>1 DEF Draw, NoTie
    <3> QED BY <3>1, <3>2 DEF NoTie
  <2>2. ASSUME NEW r \in Rounds, Advance(r) PROVE Kept
    <3>1. r \in closed
      BY <2>2 DEF Advance
    <3> QED BY <2>2, <3>1, AfterTie, AdvancedTie
  <2>3. CASE UNCHANGED ties
    BY <2>3
  <2> QED BY <2>1, <2>2, <2>3 DEF Next, Rescore, SetFinalized, Review, UpdateManager
<1>2. Spec => [][Kept]_vars
  BY <1>1, Invariant, PTL DEF Spec
<1> QED BY <1>2 DEF ResultsStand

\* No winner had fewer points on the scores written down beside the result.
THEOREM ResultsAreExplained == Spec => []ScoresExplainResult
<1>1. Init => ScoresExplainResult
  BY DEF Init, ScoresExplainResult, NoTie
<1>2. IInv /\ ScoresExplainResult /\ [Next]_vars => ScoresExplainResult'
  <2> SUFFICES ASSUME IInv, ScoresExplainResult, [Next]_vars,
                      NEW t \in Ties, ties'[t].winner # NoRow
               PROVE  Explained(ties'[t])
    BY DEF ScoresExplainResult, Explained
  <2>1. CASE ties'[t] = ties[t]
    BY <2>1 DEF ScoresExplainResult, Explained
  <2>2. ASSUME NEW p \in BOOLEAN, Draw(p) PROVE FALSE
    BY <2>2 DEF Draw, NoTie
  <2>3. ASSUME NEW r \in Rounds, Advance(r), ties'[t] # ties[t]
        PROVE  Explained(ties'[t])
    <3>1. ties[t].winner = NoRow /\ Published.round[t] = r
      BY <2>3, AfterTie, AdvancedTie
    <3>2. After(r)[t] = Settled(t, r)
      BY <3>1 DEF After
    <3>3. Explained(Settled(t, r))
      BY <2>3, <3>1, <3>2, AdvancedTie, DecidedIsExplained
    <3>4. ties'[t].sides = ties[t].sides
      BY <2>3, <3>1, SendersKeepSides
    <3> QED BY <2>3, <3>2, <3>3, <3>4, AfterTie, AdvancedTie DEF Explained
  <2> QED BY <2>1, <2>2, <2>3 DEF Next, vars, Rescore, SetFinalized, Review, UpdateManager
<1> QED BY <1>1, <1>2, Invariant, PTL DEF Spec

-----------------------------------------------------------------------------
(* Everybody's way through the bracket. *)

\* No two sides of a bracket are for the same one.
LEMMA SidesDiffer ==
  ASSUME NEW t \in Ties, NEW i \in Sides, NEW u \in Ties, NEW j \in Sides,
         Published.sides[t][i] = Published.sides[u][j]
  PROVE  t = u /\ i = j
<1> DEFINE S == Slots(Published)
           f == [s \in S |-> Published.sides[s[1]][s[2]]]
<1>1. IsFiniteSet(S)
  <2>1. IsFiniteSet({1, 2})
    <3>1. {1, 2} = 1..2 /\ 1 \in Int /\ 2 \in Int
      OBVIOUS
    <3>2. IsFiniteSet(1..2)
      BY <3>1, FS_Interval
    <3> QED BY <3>1, <3>2
  <2>2. IsFiniteSet(DOMAIN Published.round)
    BY PublishedAssumption DEF IsWritten
  <2> QED BY <2>1, <2>2, FS_Product DEF Slots
<1>2. f \in Surjection(S, Named(Published))
  BY DEF Named, Surjection
<1>3. Cardinality(S) = Cardinality(Named(Published))
  BY PublishedAssumption DEF IsBracket
<1>4. f \in Injection(S, Named(Published))
  BY <1>1, <1>2, <1>3, FS_SurjSameCardinalityImpliesInj
<1>5. <<t, i>> \in S /\ <<u, j>> \in S /\ f[<<t, i>>] = f[<<u, j>>]
  BY DEF Slots, Ties, Sides
<1>6. <<t, i>> = <<u, j>>
  BY <1>4, <1>5 DEF Injection, IsInjective
<1> QED BY <1>6

\* How a side is written.
LEMMA SideForm ==
  ASSUME NEW t \in Ties, NEW i \in Sides
  PROVE  LET side == Published.sides[t][i] IN
         /\ Published.round[t] \in Rounds
         /\ IsSeed(side) => side = <<"seed", side[2], side[3]>>
         /\ ~IsSeed(side) => /\ side = <<"winner", side[2]>> \/ side = <<"loser", side[2]>>
                             /\ side[1] = "loser" => Published.round[t] = Published.last
<1> DEFINE s == <<t, i>>
<1>1. s \in Slots(Published) /\ s[1] = t /\ s[2] = i
  BY DEF Slots, Ties, Sides
<1> QED BY <1>1, PublishedAssumption DEF IsWritten, Ties, Rounds

\* One manager holds at most one place of the two tables.
LEMMA OnePlace ==
  ASSUME NEW t \in Ties, NEW i \in Sides, NEW u \in Ties, NEW j \in Sides,
         IsSeed(Published.sides[t][i]), IsSeed(Published.sides[u][j]),
         NEW m \in Holders(Published.sides[t][i]), m \in Holders(Published.sides[u][j])
  PROVE  t = u /\ i = j
<1> DEFINE p == Published.sides[t][i]  q == Published.sides[u][j]
<1>1. ASSUME NEW place, m \in Holders(place)
      PROVE  Division[m] = place[2] /\ Table(place[2])[m] = place[3]
  <2>1. m \in DOMAIN Table(place[2]) /\ Table(place[2])[m] = place[3]
    BY <1>1 DEF Holders
  <2> QED BY <2>1 DEF Table, Ranks
<1>2. p[2] = q[2] /\ p[3] = q[3]
  BY <1>1
<1>3. p = q
  BY <1>2, SideForm
<1> QED BY <1>3, SidesDiffer

\* A side that a request fills is filled with a side of the tie it waits for,
\* which had not been decided.
LEMMA ComesFrom ==
  ASSUME IInv, NEW r \in Rounds, Advance(r), NEW u \in Ties, NEW j \in Sides,
         ties[u].sides[j] = NoRow, ties'[u].sides[j] # NoRow
  PROVE  LET side == Published.sides[u][j] IN
         /\ ~IsSeed(side) /\ side[2] \in Ties
         /\ Published.round[side[2]] = r /\ Published.round[u] = r + 1
         /\ ties[side[2]].winner = NoRow
         /\ ties'[u].sides[j] = Comer(side, ties')
         /\ ties'[side[2]].winner # NoRow
         /\ \E k \in Sides : ties[side[2]].sides[k] = ties'[u].sides[j]
<1> DEFINE side == Published.sides[u][j]  f == side[2]
<1>1. /\ ~IsSeed(side) /\ Published.round[f] = r
      /\ ties'[u].sides[j] = Comer(side, After(r))
  BY AdvancedTie
<1>2. f \in Ties /\ Published.round[u] = r + 1
  BY <1>1, FeederIsTie
<1>3. After(r)[f] \in Tie /\ After(r)[f].sides = ties[f].sides
  BY <1>2, AfterTie
<1>4. ties[f].winner = NoRow
  <2> SUFFICES ASSUME ties[f].winner # NoRow PROVE FALSE
    OBVIOUS
  <2>1. ties[u].sides[j] = Comer(side, ties)
    BY <1>1 DEF IInv, BracketIsFollowed
  <2>2. Comer(side, ties) # NoRow
    BY <1>2 DEF Comer, Loser, IInv, WinnerPlayed, Sides
  <2> QED BY <2>1, <2>2
<1>5. After(r)[f].winner # NoRow
  BY <1>1, <1>3, ComerIsEntrant
<1>6. After(r)[f].winner \in {ties[f].sides[1], ties[f].sides[2]}
  BY <1>2, <1>3, <1>5, AfterTie
<1>7. \E k \in Sides : ties[f].sides[k] = ties'[u].sides[j]
  BY <1>1, <1>3, <1>5, <1>6 DEF Comer, Loser, Sides
<1>8. ties'[f].winner = After(r)[f].winner
  BY <1>2, AdvancedTie
<1>9. ties'[u].sides[j] = Comer(side, ties')
  BY <1>1, AdvanceFollowsBracket DEF BracketIsFollowed
<1> QED BY <1>1, <1>2, <1>4, <1>5, <1>7, <1>8, <1>9

\* Whoever comes to a side has been nowhere that late, and won wherever he was.
LEMMA NewcomerPath ==
  ASSUME IInv, OnePath, NEW r \in Rounds, Advance(r),
         NEW u \in Ties, NEW j \in Sides,
         ties[u].sides[j] = NoRow, ties'[u].sides[j] # NoRow,
         NEW t \in Ties, NEW i \in Sides, ties[t].sides[i] = ties'[u].sides[j]
  PROVE  /\ Published.round[t] < Published.round[u]
         /\ ties'[t].winner = ties'[u].sides[j] \/ Published.sides[u][j] = <<"loser", t>>
<1> DEFINE side == Published.sides[u][j]  f == side[2]  m == ties'[u].sides[j]
<1>1. /\ ~IsSeed(side) /\ f \in Ties
      /\ Published.round[f] = r /\ Published.round[u] = r + 1
      /\ ties[f].winner = NoRow /\ m = Comer(side, ties')
      /\ ties'[f].winner # NoRow
  BY ComesFrom
<1>2. PICK k \in Sides : ties[f].sides[k] = m
  BY ComesFrom
<1>3. side = <<"winner", f>> \/ side = <<"loser", f>>
  BY <1>1, SideForm
<1>4. Published.round[t] \in Int /\ r \in Int /\ Published.round[u] <= Published.last
  BY SideForm, PublishedAssumption DEF Rounds
<1>5. CASE t = f
  <2>1. Published.round[t] < Published.round[u]
    BY <1>1, <1>4, <1>5
  <2>2. ties'[t].winner = m \/ side = <<"loser", t>>
    <3> HIDE DEF side, f, m
    <3> QED BY <1>1, <1>3, <1>5 DEF Comer
  <2> QED BY <2>1, <2>2
<1>6. CASE t # f
  <2>1. Published.round[t] # r
    BY <1>1, <1>2, <1>6 DEF OnePath
  <2>2. CASE Published.round[t] < r
    <3>1. ties[t].winner = m \/ Published.sides[f][k] = <<"loser", t>>
      <4>1. m # NoRow /\ m = ties[t].sides[i]
        OBVIOUS
      <4> HIDE DEF side, f, m
      <4> QED BY <1>1, <1>2, <1>6, <2>2, <4>1 DEF OnePath
    <3>2. Published.sides[f][k] # <<"loser", t>>
      <4> SUFFICES ASSUME Published.sides[f][k] = <<"loser", t>> PROVE FALSE
        OBVIOUS
      <4>1. ~IsSeed(Published.sides[f][k]) /\ Published.sides[f][k][1] = "loser"
        BY DEF IsSeed
      <4>2. Published.round[f] = Published.last
        BY <1>1, <4>1, SideForm
      <4> QED BY <1>1, <1>4, <4>2
    <3>3. ties'[t] = ties[t]
      BY <3>1, <3>2, AdvancedTie
    <3>4. Published.round[t] < Published.round[u]
      BY <1>1, <1>4, <2>2
    <3> QED BY <3>1, <3>2, <3>3, <3>4
  <2>3. CASE Published.round[t] > r
    <3>1. Published.sides[t][i] = <<"loser", f>>
      BY <1>1, <1>2, <1>6, <2>3 DEF OnePath
    <3>2. ~IsSeed(Published.sides[t][i]) /\ Published.sides[t][i][2] = f
      BY <3>1 DEF IsSeed
    <3>3. ties[t].sides[i] = Comer(Published.sides[t][i], ties)
      BY <3>2 DEF IInv, BracketIsFollowed
    <3>4. Comer(Published.sides[t][i], ties) = NoRow
      BY <1>1, <3>2 DEF Comer, Loser
    <3> QED BY <3>3, <3>4
  <2> QED BY <1>4, <2>1, <2>2, <2>3
<1> QED BY <1>5, <1>6

\* Two sides that one request fills are for two managers.
LEMMA NewcomersDiffer ==
  ASSUME IInv, OnePath, NEW r \in Rounds, Advance(r),
         NEW t \in Ties, NEW i \in Sides, ties[t].sides[i] = NoRow, ties'[t].sides[i] # NoRow,
         NEW u \in Ties, NEW j \in Sides, ties[u].sides[j] = NoRow,
         ties'[t].sides[i] = ties'[u].sides[j]
  PROVE  t = u /\ i = j
<1> DEFINE p == Published.sides[t][i]  q == Published.sides[u][j]  m == ties'[t].sides[i]
<1>1. /\ ~IsSeed(p) /\ p[2] \in Ties /\ Published.round[p[2]] = r
      /\ m = Comer(p, ties') /\ ties'[p[2]].winner # NoRow
      /\ \E k \in Sides : ties[p[2]].sides[k] = m
  BY ComesFrom
<1>2. /\ ~IsSeed(q) /\ q[2] \in Ties /\ Published.round[q[2]] = r
      /\ m = Comer(q, ties')
      /\ \E k \in Sides : ties[q[2]].sides[k] = m
  BY ComesFrom
<1>3. p[2] = q[2]
  <2>1. PICK k \in Sides : ties[p[2]].sides[k] = m
    BY <1>1
  <2>2. PICK l \in Sides : ties[q[2]].sides[l] = m
    BY <1>2
  <2> HIDE DEF p, q, m
  <2> SUFFICES ASSUME p[2] # q[2] PROVE FALSE
    OBVIOUS
  <2>3. m # NoRow
    BY DEF m
  <2>4. Published.round[p[2]] # Published.round[q[2]]
    BY <1>1, <1>2, <2>1, <2>2, <2>3 DEF OnePath
  <2> QED BY <1>1, <1>2, <2>4
<1> DEFINE f == p[2]
<1>4. /\ ties'[f].sides[1] # ties'[f].sides[2]
      /\ ties'[f].winner \in {ties'[f].sides[1], ties'[f].sides[2]}
  <2>1. ties'[f].sides = ties[f].sides
    BY <1>1, SendersKeepSides
  <2>2. WinnerPlayed'
    BY AdvanceKeepsInvariant DEF IInv
  <2>3. ties'[f].sides[1] # NoRow /\ ties'[f].winner \in {ties'[f].sides[1], ties'[f].sides[2]}
    BY <1>1, <2>2 DEF WinnerPlayed, Sides
  <2>4. ties[f].sides[1] # ties[f].sides[2]
    <3> SUFFICES ASSUME ties[f].sides[1] = ties[f].sides[2] PROVE FALSE
      OBVIOUS
    <3> HIDE DEF f
    <3>1. /\ f \in Ties /\ 1 \in Sides /\ 2 \in Sides /\ 1 # 2
          /\ ties[f].sides[1] # NoRow
      <4>1. f \in Ties
        BY <1>1 DEF f
      <4>2. ties[f].sides[1] # NoRow
        BY <2>1, <2>3
      <4> QED BY <4>1, <4>2 DEF Sides
    <3> QED BY <3>1 DEF OnePath
  <2> QED BY <2>1, <2>3, <2>4
<1>5. p \in {<<"winner", f>>, <<"loser", f>>} /\ q \in {<<"winner", f>>, <<"loser", f>>}
  <2>1. p = <<"winner", p[2]>> \/ p = <<"loser", p[2]>>
    BY <1>1, SideForm
  <2>2. q = <<"winner", q[2]>> \/ q = <<"loser", q[2]>>
    BY <1>2, SideForm
  <2> HIDE DEF p, q
  <2> QED BY <1>3, <2>1, <2>2
<1>6. p = q
  <2>1. Loser(ties'[f]) # ties'[f].winner
    BY <1>1, <1>4 DEF Loser
  <2> HIDE DEF p, q, m, f
  <2> QED BY <1>1, <1>2, <1>5, <2>1 DEF Comer
<1> QED BY <1>6, SidesDiffer

\* Advancing keeps everybody on one path.
LEMMA AdvanceKeepsPath ==
  ASSUME IInv, OnePath, NEW r \in Rounds, Advance(r)
  PROVE  OnePath'
<1> SUFFICES ASSUME NEW t \in Ties, NEW u \in Ties, NEW i \in Sides, NEW j \in Sides,
                    t # u \/ i # j, ties'[t].sides[i] # NoRow,
                    ties'[t].sides[i] = ties'[u].sides[j]
             PROVE  /\ Published.round[t] # Published.round[u]
                    /\ Published.round[t] < Published.round[u] =>
                         \/ ties'[t].winner = ties'[t].sides[i]
                         \/ Published.sides[u][j] = <<"loser", t>>
  BY DEF OnePath
<1>1. /\ ties[t].sides[i] # NoRow => ties'[t].sides[i] = ties[t].sides[i]
      /\ ties[u].sides[j] # NoRow => ties'[u].sides[j] = ties[u].sides[j]
      /\ ties[t].winner # NoRow => ties'[t] = ties[t]
  BY AdvancedTie
<1>2. Published.round[t] \in Int /\ Published.round[u] \in Int
  BY SideForm DEF Rounds
<1>3. CASE ties[t].sides[i] # NoRow /\ ties[u].sides[j] # NoRow
  BY <1>1, <1>3 DEF OnePath
<1>4. CASE ties[t].sides[i] # NoRow /\ ties[u].sides[j] = NoRow
  <2>1. /\ Published.round[t] < Published.round[u]
        /\ ties'[t].winner = ties'[u].sides[j] \/ Published.sides[u][j] = <<"loser", t>>
    BY <1>1, <1>4, NewcomerPath
  <2> QED BY <1>2, <2>1
<1>5. CASE ties[t].sides[i] = NoRow /\ ties[u].sides[j] # NoRow
  <2>1. Published.round[u] < Published.round[t]
    BY <1>1, <1>5, NewcomerPath
  <2> QED BY <1>2, <2>1
<1>6. CASE ties[t].sides[i] = NoRow /\ ties[u].sides[j] = NoRow
  BY <1>6, NewcomersDiffer
<1> QED BY <1>3, <1>4, <1>5, <1>6

\* The draw puts nobody on two sides.
LEMMA DrawKeepsPath ==
  ASSUME TypeOK, NEW allowProvisional \in BOOLEAN, Draw(allowProvisional)
  PROVE  OnePath'
<1> DEFINE Holder(side) == IF IsSeed(side) THEN CHOOSE m \in Managers : m \in Holders(side)
                                           ELSE NoRow
<1>1. ASSUME NEW t \in Ties, NEW i \in Sides
      PROVE  /\ ties'[t].sides[i] = Holder(Published.sides[t][i])
             /\ IsSeed(Published.sides[t][i]) => Holders(Published.sides[t][i]) # {}
  <2>1. ties' = [k \in Ties |-> [NoTie EXCEPT !.sides =
                                  [l \in Sides |-> Holder(Published.sides[k][l])]]]
    BY DEF Draw
  <2>2. IsSeed(Published.sides[t][i]) => Holders(Published.sides[t][i]) # {}
    BY DEF Draw
  <2> HIDE DEF Holder
  <2>3. ties'[t].sides = [l \in Sides |-> Holder(Published.sides[t][l])]
    BY <2>1 DEF NoTie
  <2> QED BY <2>2, <2>3
<1>2. ASSUME NEW t \in Ties, NEW i \in Sides, ties'[t].sides[i] # NoRow
      PROVE  IsSeed(Published.sides[t][i]) /\ ties'[t].sides[i] \in Holders(Published.sides[t][i])
  BY <1>1, <1>2, HoldersAreManagers
<1> QED BY <1>2, OnePlace DEF OnePath

\* However often rounds are advanced, nobody is in two ties of one round, and
\* nobody who lost plays on but for the third place.
THEOREM NobodyPlaysOn == Spec => []LosersAreOut
<1>1. Init => OnePath
  BY DEF Init, OnePath, NoTie
<1>2. IInv /\ OnePath /\ [Next]_vars => OnePath'
  <2> SUFFICES ASSUME IInv, OnePath, [Next]_vars PROVE OnePath'
    OBVIOUS
  <2>1. ASSUME NEW p \in BOOLEAN, Draw(p) PROVE OnePath'
    BY <2>1, DrawKeepsPath DEF IInv
  <2>2. ASSUME NEW r \in Rounds, Advance(r) PROVE OnePath'
    BY <2>2, AdvanceKeepsPath
  <2>3. ASSUME UNCHANGED ties PROVE OnePath'
    BY <2>3 DEF OnePath
  <2> QED BY <2>1, <2>2, <2>3 DEF Next, vars, Rescore, SetFinalized, Review, UpdateManager
<1>3. OnePath => LosersAreOut
  <2> SUFFICES ASSUME OnePath, NEW t \in Ties, NEW u \in Ties, t # u,
                      NEW m \in Standing(t) \cap Standing(u)
               PROVE  /\ Published.round[t] # Published.round[u]
                      /\ Published.round[t] < Published.round[u] =>
                           \/ ties[t].winner = m
                           \/ \E i \in Sides : Published.sides[u][i] = <<"loser", t>>
    BY DEF LosersAreOut
  <2>1. PICK i \in Sides, j \in Sides :
          ties[t].sides[i] = m /\ ties[u].sides[j] = m /\ m # NoRow
    BY DEF Standing
  <2> QED BY <2>1 DEF OnePath
<1> QED BY <1>1, <1>2, <1>3, Invariant, PTL DEF Spec

-----------------------------------------------------------------------------
(* Who enters. *)

Qualification == [m \in Managers |-> QualificationKey(m)]
Ranked(d)     == {m \in listed : Division[m] = d}

\* The table of a division ranks its managers on merit.
LEMMA TableIsOnMerit ==
  ASSUME TypeOK, NEW d
  PROVE  /\ Table(d) = Ranks(Ranked(d), Qualification)
         /\ DOMAIN Table(d) = Ranked(d)
         /\ MeritDecides(Ranked(d), Qualification, Table(d))
<1>1. Table(d) = Ranks(Ranked(d), Qualification)
  BY DEF Table, Ranked, Qualification
<1>2. DOMAIN Table(d) = Ranked(d)
  BY <1>1 DEF Ranks
<1>3. IsFiniteSet(Ranked(d)) /\ Ranked(d) \subseteq Nat
  <2>1. Ranked(d) \subseteq Managers  BY DEF Ranked, TypeOK
  <2> QED BY <2>1, ManagersAssumption, FS_Subset
<1>4. Keyed(Ranked(d), Qualification)
  <2>1. ASSUME NEW m \in Managers PROVE Net(m, 0) \in Int /\ Facts(m, 0) \in Int
    <3>1. 0 \in Weeks  BY PublishedAssumption DEF Weeks
    <3>2. sheet[0] \in [Managers -> [net : Int, facts : Int] \cup {NoRow}]
      BY <3>1, SheetsAssumption DEF TypeOK, Unscored
    <3> QED BY <3>2 DEF Net, Facts
  <2>2. \A m \in Ranked(d) : Qualification[m] \in [1..3 -> Int]
    BY <2>1 DEF Ranked, TypeOK, Qualification, QualificationKey
  <2>3. 3 \in Nat  OBVIOUS
  <2> QED BY <2>2, <2>3 DEF Keyed
<1>5. MeritDecides(Ranked(d), Qualification, Table(d))
  BY <1>1, <1>3, <1>4, RanksDecide
<1> QED BY <1>1, <1>2, <1>5

\* Everybody who enters holds a place, and everybody who holds a place enters.
LEMMA EntrantsHoldPlaces ==
  ASSUME TypeOK, NEW allowProvisional \in BOOLEAN, Draw(allowProvisional),
         NEW entrants,
         entrants = (UNION {{ties'[t].sides[i] : i \in Sides} : t \in Ties}) \ {NoRow}
  PROVE  /\ \A m \in entrants : \E place \in Named(Published) :
              IsSeed(place) /\ m \in Holders(place)
         /\ \A place \in Named(Published) : IsSeed(place) =>
              \E m \in Managers : Holders(place) = {m} /\ m \in entrants
<1> DEFINE Holder(side) == IF IsSeed(side) THEN CHOOSE m \in Managers : m \in Holders(side)
                                           ELSE NoRow
<1>1. ASSUME NEW t \in Ties, NEW i \in Sides
      PROVE  /\ ties'[t].sides[i] = Holder(Published.sides[t][i])
             /\ IsSeed(Published.sides[t][i]) => Holders(Published.sides[t][i]) # {}
  <2>1. ties' = [k \in Ties |-> [NoTie EXCEPT !.sides =
                                  [l \in Sides |-> Holder(Published.sides[k][l])]]]
    BY DEF Draw
  <2>2. IsSeed(Published.sides[t][i]) => Holders(Published.sides[t][i]) # {}
    BY DEF Draw
  <2> HIDE DEF Holder
  <2>3. ties'[t].sides = [l \in Sides |-> Holder(Published.sides[t][l])]
    BY <2>1 DEF NoTie
  <2> QED BY <2>2, <2>3
<1>2. \A place \in Named(Published) : \E t \in Ties, i \in Sides :
        place = Published.sides[t][i]
  BY DEF Named, Slots, Ties, Sides
<1>3. \A t \in Ties, i \in Sides : Published.sides[t][i] \in Named(Published)
  <2> SUFFICES ASSUME NEW t \in Ties, NEW i \in Sides
               PROVE  Published.sides[t][i] \in Named(Published)
    OBVIOUS
  <2>1. <<t, i>> \in Slots(Published)  BY DEF Slots, Ties, Sides
  <2> QED BY <2>1 DEF Named
<1>4. ASSUME NEW place, Holders(place) # {}
      PROVE  \E m \in Managers : Holders(place) = {m}
  <2> DEFINE level == {m \in DOMAIN Table(place[2]) : Table(place[2])[m] = place[3]}
  <2>1. Cardinality(level) = 1 /\ Holders(place) = level
    BY <1>4 DEF Holders
  <2>2. level \subseteq Managers
    BY <2>1, HoldersAreManagers
  <2> HIDE DEF level
  <2>3. \E m : level = {m}
    BY <2>1, <2>2, ManagersAssumption, FS_Subset, FS_Singleton
  <2> QED BY <2>1, <2>2, <2>3
<1>5. ASSUME NEW m \in entrants
      PROVE  \E place \in Named(Published) : IsSeed(place) /\ m \in Holders(place)
  <2>1. PICK t \in Ties, i \in Sides : m = ties'[t].sides[i] /\ m # NoRow
    OBVIOUS
  <2>2. m = Holder(Published.sides[t][i])  BY <1>1, <2>1
  <2>3. IsSeed(Published.sides[t][i]) /\ Holders(Published.sides[t][i]) # {}
    BY <1>1, <2>1, <2>2
  <2>4. m \in Holders(Published.sides[t][i])  BY <2>2, <2>3, <1>4
  <2> QED BY <1>3, <2>3, <2>4
<1>6. ASSUME NEW place \in Named(Published), IsSeed(place)
      PROVE  \E m \in Managers : Holders(place) = {m} /\ m \in entrants
  <2>1. PICK t \in Ties, i \in Sides : place = Published.sides[t][i]  BY <1>2
  <2>2. PICK m \in Managers : Holders(place) = {m}  BY <1>1, <1>4, <1>6, <2>1
  <2>3. Holder(place) = m  BY <1>6, <2>2
  <2>4. ties'[t].sides[i] = m /\ m # NoRow  BY <1>1, <2>1, <2>3, ManagersAssumption
  <2> QED BY <2>2, <2>4
<1> QED BY <1>5, <1>6

\* For fields of every size: whoever stays out of the Cup was, when it was drawn,
\* strictly behind everybody of his division who entered.
THEOREM TheBestEnter == Spec => EntrantsAreTheBest
<1> DEFINE entrants == (UNION {{ties'[t].sides[i] : i \in Sides} : t \in Ties}) \ {NoRow}
           Best == ~drawn /\ drawn' =>
                     LET entered == (UNION {{ties'[t].sides[i] : i \in Sides} : t \in Ties})
                                    \ {NoRow}
                     IN \A m \in entered, n \in listed \ entered :
                          Division[n] = Division[m] =>
                            Beats(QualificationKey(m), QualificationKey(n))
<1>1. ASSUME TypeOK, NEW p \in BOOLEAN, Draw(p),
             NEW m \in entrants, NEW n \in listed \ entrants,
             Division[n] = Division[m]
      PROVE  Beats(QualificationKey(m), QualificationKey(n))
  <2> DEFINE d == Division[m]
  <2> HIDE DEF entrants
  <2>0. /\ \A x \in entrants : \E place \in Named(Published) :
             IsSeed(place) /\ x \in Holders(place)
        /\ \A place \in Named(Published) : IsSeed(place) =>
             \E x \in Managers : Holders(place) = {x} /\ x \in entrants
    BY <1>1, EntrantsHoldPlaces DEF entrants
  <2>1. PICK place \in Named(Published) : IsSeed(place) /\ m \in Holders(place)
    BY <2>0
  <2>2. m \in DOMAIN Table(place[2]) /\ Table(place[2])[m] = place[3]
    BY <2>1 DEF Holders
  <2>3. m \in Ranked(place[2]) /\ place[2] = d
    BY <1>1, <2>2, TableIsOnMerit, ZenonT(60) DEF Ranked
  <2>4. /\ MeritDecides(Ranked(d), Qualification, Table(d))
        /\ DOMAIN Table(d) = Ranked(d)
    BY <1>1, TableIsOnMerit
  <2>5. n \in Ranked(d)
    BY <1>1 DEF Ranked
  <2>6. /\ Table(d)[m] \in Nat \ {0} /\ Table(d)[n] \in Nat \ {0}
        /\ Table(d)[n] <= Table(d)[m] <=> ~Beats(Qualification[m], Qualification[n])
    BY <2>3, <2>4, <2>5 DEF MeritDecides
  <2>7. SUFFICES ASSUME Table(d)[n] <= Table(d)[m] PROVE FALSE
    BY <1>1, <2>3, <2>5, <2>6 DEF Qualification, Ranked, TypeOK
  <2> DEFINE his == <<"seed", d, Table(d)[n]>>
  <2>8. his \in Named(Published)
    <3>1. Table(d)[n] \in 1..place[3]  BY <2>2, <2>3, <2>6, <2>7
    <3> QED BY <2>1, <2>3, <3>1, PublishedAssumption DEF EntersFromTheTop
  <2>9. IsSeed(his) /\ his[2] = d /\ his[3] = Table(d)[n]
    BY DEF IsSeed
  <2> HIDE DEF his
  <2>10. PICK x \in Managers : Holders(his) = {x} /\ x \in entrants
    BY <2>0, <2>8, <2>9
  <2>11. n \in Holders(his)
    <3>1. n \in DOMAIN Table(his[2]) /\ Table(his[2])[n] = his[3]
      BY <2>4, <2>5, <2>9
    <3> QED BY <2>10, <3>1 DEF Holders
  <2>12. n = x /\ n \notin entrants  BY <2>10, <2>11
  <2> QED BY <2>10, <2>12
<1>2. IInv /\ [Next]_vars => [Best]_vars
  <2> SUFFICES ASSUME IInv, Next, ~drawn, drawn' PROVE Best  OBVIOUS
  <2>1. PICK p \in BOOLEAN : Draw(p)
    BY DEF Next, Advance, Rescore, SetFinalized, Review, UpdateManager
  <2> QED BY <1>1, <2>1 DEF IInv
<1>3. Spec => [][Best]_vars
  BY <1>2, Invariant, PTL DEF Spec
<1> QED BY <1>3, PTL DEF EntrantsAreTheBest
=============================================================================
