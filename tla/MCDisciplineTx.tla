--------------------------- MODULE MCDisciplineTx ---------------------------
(* Small instances of DisciplineTx: one manager, reviews that may overlap. *)
EXTENDS DisciplineTx, TLC

CONSTANTS a, r1, r2

MCManagers == {a}
TwoWeeks   == {1, 2}
ThreeWeeks == {1, 2, 3}

Two == {r1, r2}
Interchangeable == Permutations(Two)

MCCosts == {8, 16, 20}

\* Over the limit, and withdrawn in week 1.
Withdrawals == {[c \in Cases |-> 20], [c \in Cases |-> IF c[2] = 1 THEN 8 ELSE 20]}

NoRestatement == {[c \in Cases |-> 20]}

\* Bounds the run: detection overlaps one review, and two reviews overlap each
\* other, but the three do not come at once.
TwoAtOnce == Cardinality({r \in Requests : request[r].pc # "idle"})
             + (IF tick.pc = "idle" THEN 0 ELSE 1) <= 2
=============================================================================
