----------------------------- MODULE FplStatus -----------------------------
(***************************************************************************)
(* The Gameweek the site greets its visitors with, and its state           *)
(* (services/fpl.py): read from the tables the synchroniser fills or, while *)
(* they are empty, from FPL's own flags, by two functions that must tell   *)
(* every visitor the same.                                                 *)
(*                                                                         *)
(* A season is [1..n -> [dated, due, finished, stage]]: whether the table   *)
(* has the deadline, whether the deadline is past, FPL's finished flag and  *)
(* how far the fixtures are.                                                *)
(***************************************************************************)
EXTENDS Integers, FiniteSets

Latest(weeks)   == CHOOSE g \in weeks : \A h \in weeks : h <= g
Earliest(weeks) == CHOOSE g \in weeks : \A h \in weeks : g <= h

\* A slip: live until FPL has checked the data.
LiveUntilChecked(week, finished, stage, nothingBefore) ==
  IF finished THEN "final"
  ELSE IF stage # "upcoming" THEN "live"
  ELSE IF week = 1 /\ nothingBefore THEN "preseason" ELSE "upcoming"

StateOf(week, finished, stage, nothingBefore) ==
  IF finished THEN "final"
  ELSE IF stage = "played" THEN "provisional"
  ELSE IF stage = "live" THEN "live"
  ELSE IF week = 1 /\ nothingBefore THEN "preseason" ELSE "upcoming"

-----------------------------------------------------------------------------
(* From the tables. *)

Dated(season)    == {g \in DOMAIN season : season[g].dated}
Underway(season) == {g \in Dated(season) : season[g].due /\ ~season[g].finished}
ToCome(season)   == {g \in Dated(season) : ~season[g].due}

\* A slip: the first Gameweek that is not finished.
FirstOpen(season) ==
  IF Underway(season) # {} THEN Earliest(Underway(season))
  ELSE IF ToCome(season) # {} THEN Earliest(ToCome(season)) ELSE Latest(DOMAIN season)

\* The latest Gameweek that has begun and is not finished; failing that the next
\* one, failing that the last.
OnDisplay(season) ==
  IF Underway(season) # {} THEN Latest(Underway(season))
  ELSE IF ToCome(season) # {} THEN Earliest(ToCome(season)) ELSE Latest(DOMAIN season)

FromTables(season) ==
  LET week == OnDisplay(season) IN
  [week  |-> week,
   state |-> StateOf(week, season[week].finished, season[week].stage,
                     \A h \in DOMAIN season : ~season[h].finished)]

-----------------------------------------------------------------------------
(* From FPL: flags is [current, next, previous], each a set of Gameweeks. *)

Unreadable == [week |-> 0, state |-> "unreadable"]

\* After the season FPL clears both marks.
Marked(season, flags) ==
  IF flags.current # {} THEN flags.current
  ELSE IF flags.next # {} THEN flags.next ELSE {Latest(DOMAIN season)}

FromFpl(season, flags) ==
  IF Cardinality(Marked(season, flags)) > 1 THEN Unreadable
  ELSE LET week == CHOOSE m \in Marked(season, flags) : TRUE IN
       [week  |-> week,
        state |-> StateOf(week, season[week].finished, season[week].stage,
                          \A h \in DOMAIN season :
                            h < week => ~season[h].finished /\ h \notin flags.previous)]

-----------------------------------------------------------------------------

\* FPL marks as current the Gameweek of the latest deadline, as next the one of
\* the first deadline to come, as previous the one before the current; once every
\* Gameweek is finished it clears the marks or leaves the last one current.
Flags(season) ==
  LET begun == {g \in DOMAIN season : season[g].due}
      ahead == DOMAIN season \ begun
      usual == [current  |-> IF begun = {} THEN {} ELSE {Latest(begun)},
                next     |-> IF ahead = {} THEN {} ELSE {Earliest(ahead)},
                previous |-> IF Cardinality(begun) < 2 THEN {} ELSE {Latest(begun) - 1}]
  IN {usual} \cup (IF \A g \in DOMAIN season : season[g].finished
                   THEN {[usual EXCEPT !.current = {}]} ELSE {})

\* Deadlines pass in turn, nothing kicks off before them and nothing is finished
\* before it is played; the table has every deadline.
SeasonsAt(n, past, done) ==
  {[g \in 1..n |-> [dated |-> TRUE, due |-> g <= past, finished |-> g \in done,
                    stage |-> stages[g]]] :
     stages \in {s \in [1..n -> {"upcoming", "live", "played"}] :
                   \A g \in 1..n : /\ g > past => s[g] = "upcoming"
                                   /\ g \in done => s[g] = "played"}}

Seasons(n) ==
  UNION {UNION {SeasonsAt(n, past, done) : done \in SUBSET (1..past)} : past \in 0..n}

Disagreements ==
  {visit \in UNION {{<<s, flags>> : flags \in Flags(s)} : s \in UNION {Seasons(n) : n \in 1..3}} :
     LET tables   == FromTables(visit[1])
         official == FromFpl(visit[1], visit[2])
     IN tables # official /\ (official.state = "final" => tables.week = official.week)}

\* Whichever function answers, the visitor reads the same, through the whole of
\* a Gameweek and after the last; between FPL's finished flag and the next
\* deadline the tables already announce the Gameweek to come.
StatusAgrees == Disagreements = {}
=============================================================================
