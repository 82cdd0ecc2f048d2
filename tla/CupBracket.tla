----------------------------- MODULE CupBracket -----------------------------
(***************************************************************************)
(* The brackets of the two Cups (domain/cup_bracket.py) and what makes a   *)
(* bracket one.  A tie is <<round name, number>>; each of its two sides is *)
(* a place of a qualification table, <<"seed", division, rank>>, or the    *)
(* winner or the loser of an earlier tie, <<"winner", tie>>.               *)
(***************************************************************************)
EXTENDS Integers, Sequences, FiniteSets, TLC

H(rank)      == <<"seed", "HIGH", rank>>
L(rank)      == <<"seed", "LOW", rank>>
W(name, i)   == <<"winner", <<name, i>>>>

IsSeed(side) == side[1] = "seed"

\* The rounds on their Gameweeks, and in the last of them the match for the
\* third place between those who lost in the one before.
Bracket(names, pairs) ==
  LET last  == Len(names)
      third == <<"3RD", 1>>
      ties  == UNION {{<<names[r], i>> : i \in DOMAIN pairs[r]} : r \in 1..last}
      RoundOf(t) == CHOOSE r \in 1..last : names[r] = t[1]
      Loser(i)   == <<"loser", <<names[last - 1], i>>>>
  IN [last  |-> last,
      round |-> [t \in ties |-> RoundOf(t)] @@ (third :> last),
      sides |-> [t \in ties |-> pairs[RoundOf(t)][t[2]]]
                @@ (third :> <<Loser(1), Loser(2)>>)]

Names == <<"Q1", "Q2", "R16", "QF", "SF", "F">>

QuarterFinals == [i \in 1..4 |-> <<W("R16", i), W("R16", i + 4)>>]

\* A slip: both semi-finals wait for the winner of the first quarter-final.
SemiFinalsFromFirst == [i \in 1..2 |-> <<W("QF", 1), W("QF", i + 2)>>]

SemiFinals    == [i \in 1..2 |-> <<W("QF", i), W("QF", i + 2)>>]
Final         == <<<<W("SF", 1), W("SF", 2)>>>>

\* Each winner of the first qualifying round meets one who enters in the second.
Second(entrants) == [i \in 1..12 |-> <<W("Q1", i), entrants[i]>>]

\* The first four ties of the round of 16 are between winners, the others
\* against one who enters there.
Sixteen(entrants) ==
  [i \in 1..8 |-> <<W("Q2", i), IF i <= 4 THEN W("Q2", i + 8) ELSE entrants[i - 4]>>]

Season1 == Bracket(Names,
  <<<<<<H(11), L(22)>>, <<H(12), L(21)>>, <<L(7), L(20)>>, <<L(8), L(19)>>,
      <<H(13), L(18)>>, <<H(14), L(17)>>, <<L(9), L(16)>>, <<L(10), L(15)>>,
      <<H(15), L(14)>>, <<H(16), L(13)>>, <<L(11), H(18)>>, <<L(12), H(17)>>>>,
    Second(<<L(6), L(5), L(4), L(3), L(2), H(10), H(9), H(8), H(7), H(6), H(5), H(4)>>),
    Sixteen(<<L(1), H(3), H(2), H(1)>>), QuarterFinals, SemiFinals, Final>>)

Season2 == Bracket(Names,
  <<<<<<L(7), L(22)>>, <<L(8), L(21)>>, <<H(11), L(20)>>, <<H(12), L(19)>>,
      <<L(9), L(18)>>, <<L(10), L(17)>>, <<H(13), L(16)>>, <<H(14), L(15)>>,
      <<L(11), H(18)>>, <<L(12), H(17)>>, <<H(15), L(14)>>, <<H(16), L(13)>>>>,
    Second(<<H(10), L(6), H(9), H(8), L(5), L(4), H(7), H(6), L(3), L(2), H(5), H(4)>>),
    Sixteen(<<H(3), L(1), H(2), H(1)>>), QuarterFinals, SemiFinals, Final>>)

-----------------------------------------------------------------------------
(* What must hold of a bracket. *)

Slots(b) == (DOMAIN b.round) \X {1, 2}
Named(b) == {b.sides[s[1]][s[2]] : s \in Slots(b)}

\* Nobody enters twice, no winner or loser is placed twice, and whoever has to
\* win or lose a tie first has done so in the round before.
IsBracket(b) ==
  /\ Cardinality(Named(b)) = Cardinality(Slots(b))
  /\ \A s \in Slots(b) : LET side == b.sides[s[1]][s[2]] IN
       IsSeed(side) \/ /\ side[2] \in DOMAIN b.round
                       /\ b.round[side[2]] + 1 = b.round[s[1]]

\* A side is written one way, a tie belongs to a round, and who has lost a tie
\* plays again in the last round at most.
IsWritten(b) ==
  /\ IsFiniteSet(DOMAIN b.round)
  /\ \A t \in DOMAIN b.round : b.round[t] \in 1..b.last
  /\ \A s \in Slots(b) : LET side == b.sides[s[1]][s[2]] IN
       IF IsSeed(side) THEN side = <<"seed", side[2], side[3]>>
       ELSE /\ side \in {<<"winner", side[2]>>, <<"loser", side[2]>>}
            /\ side[1] = "loser" => b.round[s[1]] = b.last

\* Of either table the places above one that enters have entered too.
EntersFromTheTop(b) == LET named == Named(b) IN
  \A side \in named : IsSeed(side) =>
    \A rank \in 1..side[3] : <<"seed", side[2], rank>> \in named

\* Every winner goes on but the last ones'.
FeedsForward(b) == LET named == Named(b) IN
  \A t \in DOMAIN b.round : b.round[t] = b.last \/ <<"winner", t>> \in named

\* The round each place enters at, as the rules of both Cups have it.
EntersAt(division, rank) ==
  IF division = "HIGH" THEN IF rank <= 3 THEN 3 ELSE IF rank <= 10 THEN 2 ELSE 1
                       ELSE IF rank <= 1 THEN 3 ELSE IF rank <= 6 THEN 2 ELSE 1

FollowsTheRules(b) ==
  {<<b.sides[s[1]][s[2]], b.round[s[1]]>> : s \in {s \in Slots(b) : IsSeed(b.sides[s[1]][s[2]])}}
  = {<<H(rank), EntersAt("HIGH", rank)>> : rank \in 1..18}
    \cup {<<L(rank), EntersAt("LOW", rank)>> : rank \in 1..22}
=============================================================================
