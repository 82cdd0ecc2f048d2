------------------------- MODULE MCGameweekPipeline -------------------------
(* Small instances of GameweekPipeline and LeaguePages. *)
EXTENDS LeaguePages

CONSTANTS a, b

MCManagers == {a, b}
MCBenched  == {b}
HomeAndAway == [g \in Gameweeks |-> IF g % 2 = 1 THEN {<<a, b>>} ELSE {<<b, a>>}]

\* Every request answered.
AllRead == [bootstrap |-> "read", fixtures |-> "read", live |-> "read",
            squads |-> MCManagers, badSquads |-> {},
            history |-> MCManagers, badHistory |-> {}]

Clean == {AllRead}

\* At most one thing goes wrong in a tick; a manager whose entry cannot be read
\* answers neither for his squad nor for his history.
OneFailure ==
  {AllRead,
   [AllRead EXCEPT !.bootstrap = "failed"],
   [AllRead EXCEPT !.fixtures = "failed"],
   [AllRead EXCEPT !.live = "failed"],
   [AllRead EXCEPT !.squads = {a}, !.history = {a}],
   [AllRead EXCEPT !.history = {a}],
   [AllRead EXCEPT !.squads = {a}]}

\* Payloads of an unexpected shape as well.
OneFailureOrQuarantine ==
  OneFailure \cup {[AllRead EXCEPT !.live = "quarantined"],
                   [AllRead EXCEPT !.squads = {a}, !.badSquads = {b}],
                   [AllRead EXCEPT !.history = {a}, !.badHistory = {b}]}

\* Bounds the run: nobody's standing but b's changes, and only between active and
\* out, since with one manager beside him a suspended b is read like an active one
\* and counted like one who is out.
OnlyOneLeaves == standing[a] = "active" /\ standing[b] # "suspended"

\* Bounds the run: one kind of quarantined run is on file at a time; beside it a
\* removal from H2H or another standing, not both, and beside one without a Gameweek
\* neither.
OneQuarantine ==
  /\ Cardinality(quarantined) <= 1
  /\ quarantined # {} => forfeits = {} \/ standing[b] = "active"
  /\ NoRow \in quarantined => forfeits = {} /\ standing[b] = "active"

BoundedFairSpec ==
  Init /\ [][Next /\ OnlyOneLeaves' /\ OneQuarantine']_vars
  /\ WF_vars(\E g \in Gameweeks : FullTick(g, EveryAnswer))
=============================================================================
