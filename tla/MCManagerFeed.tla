--------------------------- MODULE MCManagerFeed ---------------------------
(* Small instances of ManagerFeed. *)
EXTENDS ManagerFeed

CONSTANTS p, q, w1, w2

League    == 1..3
TwoTicks  == {w1, w2}
TwoSquads == {p, q}

\* Bounds the run: FPL restates the squad of manager 2 alone, only manager 3
\* is ever removed, and only his squad ever comes misshapen.
FewChanges ==
  /\ \A m \in {1, 3} : published[m] = p
  /\ \A m \in {1, 2} : m \in active /\ Malformed \notin evidence[m]

BoundedInit == FeedInit /\ FewChanges
BoundedFeed == BoundedInit /\ [][FeedNext /\ FewChanges']_feedVars /\ TicksKeepComing
=============================================================================
