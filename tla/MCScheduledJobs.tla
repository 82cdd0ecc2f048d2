-------------------------- MODULE MCScheduledJobs --------------------------
(* Small instances of ScheduledJobs. *)
EXTENDS ScheduledJobs

CONSTANTS a, b, w1, w2

League    == 1..2
TwoAudits == {w1, w2}
TwoNames  == {a, b}

\* Bounds the run: manager 2 is registered as FPL shows him and manager 1 takes
\* either name or blanks it; the first Gameweek is finalized once.
FewRenames == onFpl[2] = a /\ registered[2] = a

BoundedInit == JobsInit /\ FewRenames
BoundedJobs == /\ BoundedInit
               /\ [][JobsNext /\ FewRenames' /\ (finalized => finalized')]_jobVars
               /\ AuditsKeepComing
=============================================================================
