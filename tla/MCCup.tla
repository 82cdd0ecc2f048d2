------------------------------- MODULE MCCup -------------------------------
(* Five of six managers: a qualifying tie, two semi-finals, and the last round. *)
EXTENDS Cup

MCDivision == <<"HIGH", "HIGH", "HIGH", "LOW", "LOW", "LOW">>
MCPublished ==
  Bracket(<<"Q1", "SF", "F">>,
          <<<<<<L(2), L(3)>>>>,
            <<<<H(1), W("Q1", 1)>>, <<H(2), L(1)>>>>,
            <<<<W("SF", 1), W("SF", 2)>>>>>>)

Row(net, facts) == [net |-> net, facts |-> facts]
\* Everybody of a division apart; and an order turned round, with two level across
\* the last place of HIGH, with pairs level on points that the facts tell apart and
\* a pair that they do not, and one manager without a score.
MCSheets ==
  {<<Row(3, 0), Row(2, 0), Row(1, 0), Row(3, 0), Row(2, 0), Row(1, 0)>>,
   <<Row(1, 0), Row(2, 0), Row(1, 0), Row(2, 0), NoRow, Row(1, 1)>>}

\* Bounds the run: Gameweeks are scored one after the other and closed once they
\* are; one thing is out of the ordinary, an open Gameweek before a closed one or,
\* up to the first round, one manager's violations or status.
Violators == excluded \cup (Managers \ listed) \cup {m \in Managers : reached[m] > 0}
Bounded ==
  /\ \A w \in Rounds : sheet[w] # Unscored => sheet[w - 1] # Unscored
  /\ \A w \in closed : sheet[w] # Unscored
  /\ \E v \in Weeks : closed \cup {v} \in {0..w : w \in Weeks}
  /\ Violators # {} => /\ Violators \in {{1}, {5}}
                       /\ sheet[2] = Unscored
                       /\ closed \in {{}, {0}, {0, 1}}

BoundedSpec == Init /\ [][Next /\ Bounded']_vars
=============================================================================
