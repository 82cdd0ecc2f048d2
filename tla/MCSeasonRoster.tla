--------------------------- MODULE MCSeasonRoster ---------------------------
(* Two divisions of two, one of whom may be replaced before he plays. *)
EXTENDS SeasonRoster, TLC

CONSTANTS s1, s2

MCSchedules == {s1, s2}
Interchangeable == Permutations(MCSchedules)

\* The real roster, one with another entry, and one with two managers moved.
RealRoster  == <<"HIGH", "HIGH", "LOW", "LOW">>
Substitute  == [m \in {1, 2, 3, 5} |-> IF m <= 2 THEN "HIGH" ELSE "LOW"]
Moved       == <<"HIGH", "LOW", "HIGH", "LOW">>

MCManagers  == 1..5
\* A file imported before it is complete.
Partial     == <<"HIGH", "HIGH", "LOW">>

MCFiles     == {RealRoster, Substitute, Moved, Partial}
MCCupPlaces == [d \in Divisions |-> 1]
MCDraws     == {{<<1, 1, 2>>, <<1, 4, 3>>, <<2, 1, 4>>}}
MCKeys      == {<<1, 0>>, <<1, 1>>}
MCZero      == <<0, 0>>

\* Bounds the run: two managers scored, and two of the Cup drawn, a match played and a
\* second schedule; or one manager out of line (not active and confirmed, with a case,
\* or with a division that came through the API) and two of all those.
Inactive == Present \ Active
Accused  == {m \in Managers : cases[m] # "none"}
Recorded == {m \in Managers : scores[m] # NoRow}

Count1(set) == IF set = {} THEN 0 ELSE 1
OutOfLine == Count1(Inactive) + Count1(Accused) + Count1(byHand)
AtOnce == Count1(cup) + (IF Cardinality(schedules) < 2 THEN 0 ELSE 1)
          + Cardinality({match \in matches : Scored(match)})
FewAtOnce == /\ byHand \subseteq {2, 5} /\ Inactive \subseteq {4} /\ Accused \subseteq {4}
             /\ \A m \in Inactive \ confirmed : standing[m] = "active"
             /\ Recorded \subseteq {2, 3}
             /\ OutOfLine <= 1 /\ AtOnce <= 2
             /\ OutOfLine = 1 => Cardinality(Recorded) + AtOnce <= 2

BoundedSpec == Init /\ [][Next /\ FewAtOnce']_vars
=============================================================================
