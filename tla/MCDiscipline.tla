---------------------------- MODULE MCDiscipline ----------------------------
(* A small instance of Discipline. *)
EXTENDS Discipline

CONSTANT a

OneManager  == {a}
MCGameweeks == {1, 2}

\* Every level one Gameweek may raise, with a cost on each side of a boundary.
AllLevels == {8, 9, 16, 17, 28}
=============================================================================
