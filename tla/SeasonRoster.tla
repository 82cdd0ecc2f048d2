---------------------------- MODULE SeasonRoster ----------------------------
(***************************************************************************)
(* Who takes part, in which division, and against whom: the organisers'    *)
(* commands of cli/ and the admin API that create, replace and move        *)
(* managers and draw the H2H fixtures, between the scores and results that *)
(* the season's Gameweeks (GameweekPipeline) and the Cups bring.           *)
(*                                                                         *)
(* Every command is one database transaction that commits whole or, where  *)
(* the code raises, not at all; a dry run changes nothing and is left out. *)
(* A manager is named by his FPL entry.  All of a manager's Gameweek       *)
(* scores of Season 1 are one ranking key.                                 *)
(***************************************************************************)
EXTENDS LeagueRules

CONSTANTS
  Managers,   \* FPL entries, as numbers
  Files,      \* the roster files organisers may import, [some entries -> division]
  Draws,      \* the draws FPL may publish: sets of <<week, home, away>>
  Keys,       \* the ranking keys scores may come to
  ZeroKey,    \* the key of a manager without a score
  HighSize, LowSize,  \* the rulebook's divisions, 20 and 26
  Count,      \* how many change places, 6
  CupPlaces,  \* the ranks of each division that enter the Cup, 18 and 22
  Rounds,     \* rounds of a generated draw, 35
  Schedules,  \* bound on the H2H schedules that may exist together
  NoRow       \* no such row in the database

Divisions == {"HIGH", "LOW"}

\* managers.active_status: suspended stands for locked and pending review too, which
\* nothing here tells apart.
Standings == {"active", "suspended", "removed", "deleted"}
Statuses  == {"scheduled", "provisional", "final", "walkover"}
Match     == [schedule : Schedules, week : Nat \ {0}, home : Managers,
              away : Managers, status : Statuses]

ASSUME ManagersAssumption  == IsFiniteSet(Managers) /\ Managers \subseteq Nat
ASSUME FilesAssumption     == \A f \in Files : DOMAIN f \subseteq Managers
                                               /\ \A m \in DOMAIN f : f[m] \in Divisions
ASSUME SizesAssumption     == /\ {HighSize, LowSize, Count, Rounds} \subseteq Nat \ {0}
                              /\ CupPlaces \in [Divisions -> Nat]
\* A key has the measures of the tie-break chain, whoever's it is.
ASSUME KeysAssumption      == /\ ZeroKey \in Seq(Int)
                              /\ Keys \subseteq [1..Len(ZeroKey) -> Int]
\* FPL pairs an entry once a Gameweek.
ASSUME DrawsAssumption     ==
  \A draw \in Draws :
    /\ draw \subseteq (Nat \ {0}) \X Nat \X Nat
    /\ \A d, e \in draw : d[1] = e[1] /\ {d[2], d[3]} \cap {e[2], e[3]} # {} => d = e
ASSUME NoRowAssumption     == NoRow \notin Divisions \cup Standings /\ NoRow \notin Keys

VARIABLES
  division,   \* managers.division, NoRow for one who is not in the table
  opening,    \* division_memberships of Season 1
  second,     \* division_memberships of Season 2
  standing,   \* managers.active_status
  confirmed,  \* managers whose registration_status is confirmed
  cases,      \* violations: has a manager a case, and has one been decided
  byHand,     \* history: whose division came through the API since the exchange
  scores,     \* the key a manager's Gameweek scores come to
  closed,     \* is Gameweek 19 finalized
  schedules,  \* h2h_schedules
  matches,    \* h2h_matches
  cup         \* the managers drawn in a Cup tie

membership == <<division, opening, second>>
fixtures   == <<schedules, matches>>
people     == <<standing, confirmed, cases, byHand>>
played     == <<scores, closed, cup>>
vars       == <<membership, people, fixtures, played>>

Present == {m \in Managers : division[m] # NoRow}
In(d)   == {m \in Managers : division[m] = d}
Active  == {m \in Present : m \in confirmed /\ standing[m] = "active"}

\* A manager's key in the Season 1 table; no score at all counts as nothing.
Key == [m \in Managers |-> IF scores[m] = NoRow THEN ZeroKey ELSE scores[m]]

Scored(match) == match.status # "scheduled"

Init ==
  /\ division = [m \in Managers |-> NoRow]
  /\ opening = [m \in Managers |-> NoRow]
  /\ second = [m \in Managers |-> NoRow]
  /\ standing = [m \in Managers |-> NoRow]
  /\ cases = [m \in Managers |-> "none"]
  /\ confirmed = {} /\ byHand = {} /\ cup = {} /\ closed = FALSE
  /\ scores = [m \in Managers |-> NoRow]
  /\ schedules = {} /\ matches = {}

-----------------------------------------------------------------------------
(* Rosters. *)

\* A file that disagrees with a manager already imported is refused.
Agrees(f) == \A m \in DOMAIN f \cap Present : division[m] = f[m]

Balanced(f) == /\ Cardinality({m \in DOMAIN f : f[m] = "HIGH"}) = HighSize
               /\ Cardinality({m \in DOMAIN f : f[m] = "LOW"}) = LowSize

\* Managers and their opening memberships where there are none yet.
Imported(f, current) == [m \in Managers |-> IF m \in DOMAIN f /\ current[m] = NoRow
                                            THEN f[m] ELSE current[m]]

\* Who comes with a file is active and confirmed; who is there stays what he is.
Welcomed(f) ==
  /\ standing' = [m \in Managers |-> IF m \in DOMAIN f \ Present THEN "active"
                                     ELSE IF division'[m] = NoRow THEN NoRow
                                     ELSE standing[m]]
  /\ confirmed' = {m \in confirmed : division'[m] # NoRow} \cup (DOMAIN f \ Present)

\* A slip: the file's division is written over the one on file.
ImportOver(f) ==
  /\ division' = [m \in Managers |-> IF m \in DOMAIN f THEN f[m] ELSE division[m]]
  /\ opening' = Imported(f, opening)
  /\ Welcomed(f)
  /\ UNCHANGED <<second, cases, byHand, fixtures, played>>

ImportRoster(f) ==
  /\ Agrees(f)
  /\ division' = Imported(f, division)
  /\ opening' = Imported(f, opening)
  /\ Welcomed(f)
  /\ UNCHANGED <<second, cases, byHand, fixtures, played>>

\* What makes a manager undeletable: a score, a case, decided or not, a played match
\* or a tie.
Evidence(m) ==
  \/ scores[m] # NoRow \/ cases[m] # "none" \/ m \in cup
  \/ \E match \in matches : Scored(match) /\ m \in {match.home, match.away}

Obsolete(f) == Present \ DOMAIN f

Blocked(f) == \E m \in Obsolete(f) : Evidence(m)

\* The rows of those who stay and of those who come, without those who go.
Replaced(f, current) ==
  Imported(f, [m \in Managers |-> IF m \in Obsolete(f) THEN NoRow ELSE current[m]])

\* Everything on file of those who go; of scores and cases they have none.
Discarded(f) ==
  /\ second' = [m \in Managers |-> IF m \in Obsolete(f) THEN NoRow ELSE second[m]]
  /\ byHand' = byHand \ Obsolete(f)
  /\ UNCHANGED <<cases, scores>>

\* A slip: the fixtures outlive the roster they were drawn from.
ReplaceManagersOnly(f) ==
  /\ Balanced(f) /\ Agrees(f) /\ ~Blocked(f)
  /\ division' = Replaced(f, division) /\ opening' = Replaced(f, opening)
  /\ Welcomed(f) /\ Discarded(f)
  /\ UNCHANGED <<fixtures, closed, cup>>

\* A slip: the memberships outlive their managers.
ReplaceBareManagers(f) ==
  /\ Balanced(f) /\ Agrees(f) /\ ~Blocked(f)
  /\ division' = Replaced(f, division) /\ opening' = Imported(f, opening)
  /\ Welcomed(f) /\ Discarded(f)
  /\ schedules' = {} /\ matches' = {} /\ cup' = {}
  /\ UNCHANGED closed

\* The schedules and the Cups go with the old roster, whoever played in them.
ReplaceRoster(f) ==
  /\ Balanced(f) /\ Agrees(f) /\ ~Blocked(f)
  /\ division' = Replaced(f, division) /\ opening' = Replaced(f, opening)
  /\ Welcomed(f) /\ Discarded(f)
  /\ schedules' = {} /\ matches' = {} /\ cup' = {}
  /\ UNCHANGED closed

\* The API registers an entry that is not there, without a membership.
CreateManager(m, d, isConfirmed) ==
  /\ m \notin Present
  /\ division' = [division EXCEPT ![m] = d]
  /\ standing' = [standing EXCEPT ![m] = "active"]
  /\ confirmed' = IF isConfirmed THEN confirmed \cup {m} ELSE confirmed
  /\ byHand' = byHand \cup {m}
  /\ UNCHANGED <<opening, second, cases, fixtures, played>>

\* The API sets division, status and registration, beside ledger and memberships.
UpdateManager(m, d, value, isConfirmed) ==
  /\ m \in Present
  /\ division' = [division EXCEPT ![m] = d]
  /\ standing' = [standing EXCEPT ![m] = value]
  /\ confirmed' = IF isConfirmed THEN confirmed \cup {m} ELSE confirmed \ {m}
  /\ byHand' = IF d = division[m] THEN byHand ELSE byHand \cup {m}
  /\ UNCHANGED <<opening, second, cases, fixtures, played>>

-----------------------------------------------------------------------------
(* Fixtures. *)

\* The draw the circle method makes of the active roster.
Drawn(id, order) ==
  {[schedule |-> id, week |-> d.round + 1, home |-> d.home, away |-> d.away,
    status |-> "scheduled"] : d \in RoundRobin(order, Rounds)}

Drawable == /\ Cardinality(Active) % 2 = 0
            /\ Rounds < Cardinality(Active)

\* A slip: only a final match counts as played.
GenerateUnlessFinal(id, replace) ==
  /\ Drawable
  /\ schedules # {} => replace /\ \A match \in matches : match.status # "final"
  /\ schedules' = {id} /\ matches' = Drawn(id, Ascending(Active))
  /\ UNCHANGED <<membership, people, played>>

\* The command discards what is there if it was told to and nothing was played.
GenerateSchedule(id, replace) ==
  /\ Drawable
  /\ schedules # {} => replace /\ \A match \in matches : ~Scored(match)
  /\ schedules' = {id} /\ matches' = Drawn(id, Ascending(Active))
  /\ UNCHANGED <<membership, people, played>>

\* The admin endpoint draws one more, whatever is there, with HIGH first.
GenerateByApi(id) ==
  /\ Drawable /\ Cardinality(Active) = HighSize + LowSize
  /\ id \notin schedules
  /\ LET order == Ordered(Active, [m \in Active |->
                                    IF division[m] = "HIGH" THEN <<1>> ELSE <<0>>])
     IN matches' = matches \cup Drawn(id, order)
  /\ schedules' = schedules \cup {id}
  /\ UNCHANGED <<membership, people, played>>

\* A slip: the generated pairings stay.
AdoptedOnTop(id, draw) ==
  matches \cup
  {[schedule |-> id, week |-> d[1], home |-> d[2], away |-> d[3],
    status |-> "scheduled"] : d \in draw}

\* FPL's own draw takes the place of one schedule's.
Adopted(id, draw) ==
  {match \in matches : match.schedule # id} \cup
  {[schedule |-> id, week |-> d[1], home |-> d[2], away |-> d[3],
    status |-> "scheduled"] : d \in draw}

ImportDraw(id, draw, allowSettled) ==
  /\ id \in schedules /\ draw # {}
  /\ \A d \in draw : {d[2], d[3]} \subseteq {m \in Present : standing[m] # "deleted"}
  /\ allowSettled \/ \A match \in matches :
                       match.schedule = id => match.status # "final"
  /\ matches' = Adopted(id, draw)
  /\ UNCHANGED <<membership, people, schedules, played>>

-----------------------------------------------------------------------------
(* The exchange after Season 1. *)

Swap == Exchange(In("HIGH"), In("LOW"), Key, Count)

\* A slip: shared ranks do not stop it.
SwapRegardless ==
  /\ closed
  /\ Cardinality(In("HIGH")) >= Count /\ Cardinality(In("LOW")) >= Count
  /\ \A m \in Managers : second[m] = NoRow
  /\ division' = [m \in Managers |-> IF m \in Swap.promoted THEN "HIGH"
                                     ELSE IF m \in Swap.relegated THEN "LOW"
                                     ELSE division[m]]
  /\ second' = division' /\ byHand' = {}
  /\ UNCHANGED <<opening, standing, confirmed, cases, fixtures, played>>

\* Everybody in the table gets a Season 2 membership, once, whatever his status.
ApplySwap ==
  /\ closed
  /\ Cardinality(In("HIGH")) >= Count /\ Cardinality(In("LOW")) >= Count
  /\ Swap.contested = {}
  /\ \A m \in Managers : second[m] = NoRow
  /\ division' = [m \in Managers |-> IF m \in Swap.promoted THEN "HIGH"
                                     ELSE IF m \in Swap.relegated THEN "LOW"
                                     ELSE division[m]]
  /\ second' = division' /\ byHand' = {}
  /\ UNCHANGED <<opening, standing, confirmed, cases, fixtures, played>>

-----------------------------------------------------------------------------
(* The season around them, as the other components write it. *)

\* A scoring pass, the first or a later one.
Rescore(m, key) ==
  /\ m \in Present
  /\ scores' = [scores EXCEPT ![m] = key]
  /\ UNCHANGED <<membership, people, fixtures, closed, cup>>

\* The gate closes Gameweek 19, an administrator reopens it.
SetFinalized(value) ==
  /\ closed # value
  /\ closed' = value
  /\ UNCHANGED <<membership, people, fixtures, scores, cup>>

\* Settlement reaches a match, once or again: on two scores, live ones counted as
\* provisional, or by a walkover, which is module Discipline's to decide.
Settle(match, status) ==
  /\ status \notin {match.status, "scheduled"}
  /\ \/ scores[match.home] # NoRow /\ scores[match.away] # NoRow
     \/ status = "walkover"
  /\ matches' = (matches \ {match}) \cup {[match EXCEPT !.status = status]}
  /\ UNCHANGED <<membership, people, schedules, played>>

\* Detection raises a case of a manager who has none.
DetectCase(m) ==
  /\ m \in Present /\ cases[m] = "none"
  /\ cases' = [cases EXCEPT ![m] = "detected"]
  /\ UNCHANGED <<membership, standing, confirmed, byHand, fixtures, played>>

\* Detection clears one that nobody has decided.
ClearCase(m) ==
  /\ cases[m] = "detected"
  /\ cases' = [cases EXCEPT ![m] = "none"]
  /\ UNCHANGED <<membership, standing, confirmed, byHand, fixtures, played>>

\* A case is decided, and the third confirmed unit removes its manager.
DecideCase(m) ==
  /\ cases[m] # "none"
  /\ cases' = [cases EXCEPT ![m] = "decided"]
  /\ standing' \in {standing, [standing EXCEPT ![m] = "removed"]}
  /\ UNCHANGED <<membership, confirmed, byHand, fixtures, played>>

\* A Cup is drawn, module Cup: its places, each held by one manager alone.
DrawCup ==
  LET Entrants(d) ==
        LET rank == Ranks({m \in In(d) : standing[m] \notin {"removed", "deleted"}}, Key)
        IN {m \in DOMAIN rank : rank[m] <= CupPlaces[d]
                               /\ \A n \in DOMAIN rank : rank[n] = rank[m] => n = m}
  IN /\ cup = {}
     /\ \A d \in Divisions : Cardinality(Entrants(d)) = CupPlaces[d]
     /\ cup' = Entrants("HIGH") \cup Entrants("LOW")
     /\ UNCHANGED <<membership, people, fixtures, scores, closed>>

Next ==
  \/ \E f \in Files : ImportRoster(f) \/ ReplaceRoster(f)
  \/ \E id \in Schedules :
       \/ \E replace \in BOOLEAN : GenerateSchedule(id, replace)
       \/ GenerateByApi(id)
       \/ \E draw \in Draws, allowSettled \in BOOLEAN :
            ImportDraw(id, draw, allowSettled)
  \/ ApplySwap \/ DrawCup
  \/ \E m \in Managers :
       \/ \E d \in Divisions, isConfirmed \in BOOLEAN :
            \/ CreateManager(m, d, isConfirmed)
            \/ \E value \in Standings : UpdateManager(m, d, value, isConfirmed)
       \/ DetectCase(m) \/ ClearCase(m) \/ DecideCase(m)
       \/ \E key \in Keys : Rescore(m, key)
  \/ \E value \in BOOLEAN : SetFinalized(value)
  \/ \E match \in matches, status \in Statuses : Settle(match, status)

Spec == Init /\ [][Next]_vars

-----------------------------------------------------------------------------
(* What must hold. *)

\* Every table has its shape, and every row is of a manager who is there.
TypeOK ==
  /\ division \in [Managers -> Divisions \cup {NoRow}]
  /\ opening \in [Managers -> Divisions \cup {NoRow}]
  /\ second \in [Managers -> Divisions \cup {NoRow}]
  /\ standing \in [Managers -> Standings \cup {NoRow}]
  /\ cases \in [Managers -> {"none", "detected", "decided"}]
  /\ scores \in [Managers -> Keys \cup {NoRow}]
  /\ \A m \in Managers :
       /\ standing[m] = NoRow <=> m \notin Present
       /\ m \notin Present => /\ opening[m] = NoRow /\ second[m] = NoRow
                             /\ scores[m] = NoRow /\ cases[m] = "none"
  /\ confirmed \cup byHand \cup cup \subseteq Present
  /\ closed \in BOOLEAN
  /\ schedules \subseteq Schedules /\ matches \subseteq Match

\* The division a manager is shown in is that of his latest membership, unless it
\* came through the API since; the exchange brings everybody back into line.
PointerFollowsMembership ==
  \A m \in Managers \ byHand :
    division[m] = IF second[m] # NoRow THEN second[m] ELSE opening[m]

\* Fixtures are between managers who are there.
FixturesAreOfTheRoster ==
  \A match \in matches : /\ match.schedule \in schedules
                         /\ {match.home, match.away} \subseteq Present

\* Within a schedule nobody plays twice in a Gameweek, whichever of the two
\* draws it holds.
OneMatchAWeek ==
  \A s, t \in matches :
    s.schedule = t.schedule /\ s.week = t.week
      /\ {s.home, s.away} \cap {t.home, t.away} # {} => s = t

\* What the H2H draw on file promises to whoever reads it.
FixturesAreSound == FixturesAreOfTheRoster /\ OneMatchAWeek

\* The circle method is fair to every even field up to eight.
CircleIsFair ==
  \A n \in {2, 4, 6, 8} : LET ids == [i \in 1..n |-> i]
                          IN IsFairDraw(ids, n - 1, RoundRobin(ids, n - 1))

\* The first draw that is generated is fair to the active roster, as the method is to
\* larger ones.
EveryDrawIsFair ==
  [][schedules = {} /\ schedules' # {} =>
       /\ IsFairDraw(Ascending(Active), Rounds,
                     {[round |-> match.week - 1, home |-> match.home, away |-> match.away] :
                        match \in matches'})
       /\ CircleIsFair]_vars

\* A played match disappears only with the roster it was drawn for or when
\* FPL's draw is adopted: no generation discards one.
GenerationKeepsResults ==
  [][\/ \A match \in matches : Scored(match) =>
          \E after \in matches' : [after EXCEPT !.status = match.status] = match
                                  /\ Scored(after)
     \/ \E f \in Files : ReplaceRoster(f)
     \/ \E id \in Schedules, draw \in Draws : ImportDraw(id, draw, TRUE)]_vars

\* The exchange leaves both divisions the size they were, and everybody who
\* goes up was strictly ahead of everybody in LOW who does not, and the other
\* way round in HIGH.
ExchangeIsFair ==
  [][second = [m \in Managers |-> NoRow] /\ second' # second =>
       LET up == In("LOW") \cap In("HIGH")'  down == In("HIGH") \cap In("LOW")' IN
       /\ Cardinality(up) = Count /\ Cardinality(down) = Count
       /\ \A m \in up : \A n \in In("LOW") \ up : Beats(Key[m], Key[n])
       /\ \A m \in down : \A n \in In("HIGH") \ down : Beats(Key[n], Key[m])]_vars
=============================================================================
