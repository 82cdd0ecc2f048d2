---------------------------- MODULE FplPayloads ----------------------------
(***************************************************************************)
(* What the program makes of FPL's answers before anything is stored: one  *)
(* request and its retries (integrations/fpl.py), the payloads whose shape *)
(* can change what is scored (integrations/fpl_parsers.py), the pages of a *)
(* drawn schedule (cli/import_h2h_schedule.py) and the chips a manager has *)
(* left (domain/chips.py).  All of it is pure: each property compares an   *)
(* algorithm with what its callers rely on, over every small input.        *)
(***************************************************************************)
EXTENDS Integers, Sequences, FiniteSets, SequencesExt

CONSTANT Missing \* an optional field that is not there, or is not of its type

-----------------------------------------------------------------------------
(* One request. *)

Answer == {"json", "not json", "too long", "no response", "busy", "refused"}

\* Only an answer that came back with a status code can be hopeless.
Status(answer) ==
  CASE answer \in {"no response", "not json"} -> Missing
    [] answer \in {"json", "too long"} -> 200
    [] answer = "busy" -> 503
    [] answer = "refused" -> 404

RetryableStatusCodes == {429, 500, 502, 503, 504}

\* A slip: only a busy server is asked again.
OnlyWhenBusy(answer) == Status(answer) \in RetryableStatusCodes

Retryable(answer) == Status(answer) = Missing \/ Status(answer) \in RetryableStatusCodes

Attempts(configured) == IF configured < 1 THEN 1 ELSE configured

\* The attempt that settles the request, when its answers are those of the sequence.
LastAttempt(answers, configured) ==
  CHOOSE k \in 1..Attempts(configured) :
    /\ answers[k] = "json" \/ ~Retryable(answers[k]) \/ k = Attempts(configured)
    /\ \A j \in 1..(k - 1) : answers[j] # "json" /\ Retryable(answers[j])

\* The payload, or the error the caller is given.
Get(answers, configured) == answers[LastAttempt(answers, configured)]

GivenUp ==
  {<<configured, answers>> \in (0..3) \X [1..3 -> Answer] :
     (Get(answers, configured) # "json") <=>
       \E k \in 1..Attempts(configured) :
         answers[k] = "json" /\ \A j \in 1..(k - 1) : answers[j] \notin {"too long", "refused"}}

\* A request fails only for an answer FPL means, or after every attempt: whatever
\* comes before the first good answer is survived if asking again can help.
ReadsAreRetried == GivenUp = {}

-----------------------------------------------------------------------------
(* A squad. *)

HasNoDuplicates(list, Key(_)) == \A i, j \in DOMAIN list : Key(list[i]) = Key(list[j]) => i = j

Element(pick)  == pick.element
Position(pick) == pick.position

\* A slip: never mind the squad positions.
WhateverPositions(picks) ==
  /\ picks # <<>>
  /\ HasNoDuplicates(picks, Element)
  /\ Cardinality({i \in DOMAIN picks : picks[i].captain}) = 1
  /\ Cardinality({i \in DOMAIN picks : picks[i].vice}) = 1

\* What is not quarantined.
PicksAccepted(picks) ==
  /\ picks # <<>>
  /\ HasNoDuplicates(picks, Element) /\ HasNoDuplicates(picks, Position)
  /\ Cardinality({i \in DOMAIN picks : picks[i].captain}) = 1
  /\ Cardinality({i \in DOMAIN picks : picks[i].vice}) = 1

\* Who wears the armband: the first of the best in the order FPL lists them.
Better(p, q) ==
  \/ p.multiplier > q.multiplier
  \/ /\ p.multiplier = q.multiplier
     /\ \/ p.captain /\ ~q.captain
        \/ /\ p.captain <=> q.captain
           /\ p.position < q.position

Armband(picks) ==
  LET raised == {i \in DOMAIN picks : picks[i].multiplier > 1}
  IN IF raised = {} THEN Missing
     ELSE picks[CHOOSE i \in raised : \A j \in raised :
                  \/ Better(picks[i], picks[j])
                  \/ ~Better(picks[j], picks[i]) /\ i <= j].element

Ambiguous ==
  LET Pick   == [element : 1..2, position : 1..2, multiplier : {0, 2, 3},
                 captain : BOOLEAN, vice : BOOLEAN]
      Trio   == [position : 1..3, multiplier : {0, 2}, captain : BOOLEAN, vice : BOOLEAN]
      Lists  == {<<p>> : p \in Pick} \cup (Pick \X Pick) \cup
                {[i \in 1..3 |-> [element |-> i, position |-> trio[i].position,
                                  multiplier |-> trio[i].multiplier,
                                  captain |-> trio[i].captain, vice |-> trio[i].vice]] :
                   trio \in {t \in [1..3 -> Trio] :
                              /\ Cardinality({i \in 1..3 : t[i].captain}) = 1
                              /\ Cardinality({i \in 1..3 : t[i].vice}) = 1}}
  IN {picks \in {l \in Lists : PicksAccepted(l)} :
        \/ Armband(picks) # Armband(Reverse(picks))
        \/ Cardinality({picks[i].element : i \in DOMAIN picks}) # Len(picks)}

\* Whatever multipliers FPL publishes, the captain of a squad that was accepted
\* does not depend on the order it lists its players in, and the page's table of
\* players (one row per element) leaves nobody out.
ArmbandIsTheSquads == Ambiguous = {}

-----------------------------------------------------------------------------
(* The live feed: a player's total, and the fixtures that explain it. *)

Total(list) ==
  LET sum[k \in 0..Len(list)] == IF k = 0 THEN 0 ELSE sum[k - 1] + list[k] IN sum[Len(list)]

\* A fixture block lists <<identifier, value, points>>; the last of an identifier counts.
Counts(figures, k) ==
  figures[k][1] # Missing /\ \A j \in (k + 1)..Len(figures) : figures[j][1] # figures[k][1]

\* A slip: the points of the columns the table has.
NamedPoints(figures) ==
  Total([k \in DOMAIN figures |-> IF Counts(figures, k) /\ figures[k][1] = "minutes" THEN figures[k][3] ELSE 0])

\* Identifiers nobody knows yet score all the same.
BlockPoints(figures) ==
  Total([k \in DOMAIN figures |-> IF Counts(figures, k) THEN figures[k][3] ELSE 0])

BlockMinutes(figures) ==
  Total([k \in DOMAIN figures |-> IF Counts(figures, k) /\ figures[k][1] = "minutes" THEN figures[k][2] ELSE 0])

\* A block without a fixture has no row to go to.
ExplainRows(explain) ==
  LET rows == SelectSeq(explain, LAMBDA block : block.fixture # Missing)
  IN [k \in DOMAIN rows |-> [fixture |-> rows[k].fixture, points |-> BlockPoints(rows[k].stats),
                             minutes |-> BlockMinutes(rows[k].stats)]]

RowPoints(explain) == Total([k \in DOMAIN ExplainRows(explain) |-> ExplainRows(explain)[k].points])

\* Points FPL does not explain are named, never turned into an invented row.
IsUnresolved(total, minutes, explain) ==
  ExplainRows(explain) = <<>> /\ (total # 0 \/ (minutes # Missing /\ minutes # 0))

\* FPL's own total of a player, of what it lists for him.
Explained(explain) ==
  Total([i \in DOMAIN explain |->
    Total([k \in DOMAIN explain[i].stats |-> explain[i].stats[k][3]])])

Lost ==
  LET Stat    == {"minutes", "newly scored", Missing} \X {0, 1} \X {-1, 2}
      Once(s) == \A i, j \in DOMAIN s : s[i][1] = s[j][1] => i = j
      Lists   == {<<>>} \cup {<<s>> : s \in Stat} \cup {s \in Stat \X Stat : Once(s)}
      Block   == [fixture : {1, Missing}, stats : {s \in Lists : \A i \in DOMAIN s : s[i][1] # Missing}]
      Whole(e) == \A i, j \in DOMAIN e : (e[i].fixture = Missing) <=> (e[j].fixture = Missing)
  IN {explain \in {<<>>} \cup {<<x>> : x \in Block} \cup {e \in Block \X Block : Whole(e)} :
        /\ RowPoints(explain) # Explained(explain)
        /\ ~IsUnresolved(Explained(explain), Missing, explain)}

\* No point FPL gives a player is lost on the way: his rows add up to his total,
\* or he is named as unresolved - as long as FPL lists each identifier once in a
\* fixture and gives every fixture of a player its number, or none.
PointsAreAccountedFor == Lost = {}

-----------------------------------------------------------------------------
(* The pages of a draw. *)

\* What an item of a page stands for: a match, nothing (a bye, an empty seat) or a
\* payload that makes no sense (an entry against itself, a Gameweek of none).
Items == {"match", "bye", "empty seat", "nonsense"}

Kept(page) == SelectSeq(page.results, LAMBDA item : item = "match")
Quarantined(page) == \E i \in DOMAIN page.results : page.results[i] = "nonsense"

\* A slip: the draw ends at the first page that brings no match.
EndsWhenEmpty(page) == Kept(page) = <<>> \/ ~page.next

LastPage(page) == ~page.next

\* The pages read, up to MaxPages: the draw, or the error that stops the import.
FetchDraw(pages, maxPages) ==
  LET Stops(k) == Quarantined(pages[k]) \/ LastPage(pages[k])
      read == {k \in 1..maxPages : \A j \in 1..(k - 1) : ~Stops(j)}
      last == CHOOSE k \in read : \A j \in read : j <= k
  IN IF Quarantined(pages[last]) THEN [error |-> "quarantined"]
     ELSE IF ~LastPage(pages[last]) THEN [error |-> "too many pages"]
     ELSE [drawn |-> FlattenSeq([k \in 1..last |-> Kept(pages[k])])]

CutShort ==
  LET Page == [results : UNION {[1..n -> Items] : n \in 0..1}, next : BOOLEAN]
      Matches(pages, end) ==
        Cardinality({k \in 1..end : Len(pages[k].results) = 1 /\ pages[k].results[1] = "match"})
  IN {<<pages, maxPages>> \in [1..3 -> Page] \X (1..3) :
        LET result == FetchDraw(pages, maxPages)
            ends   == {k \in 1..maxPages : ~pages[k].next /\ \A j \in 1..(k - 1) : pages[j].next}
        IN /\ "drawn" \in DOMAIN result
           /\ \A end \in ends : Len(result.drawn) # Matches(pages, end)}

\* A draw that is accepted is the whole draw, byes and all: no page FPL announced
\* is left unread, and a league of more pages than the guard allows is refused
\* rather than cut short.
DrawIsWhole == CutShort = {}

-----------------------------------------------------------------------------
(* The chips of a manager. A second set comes with the second half. *)

CONSTANTS
  SecondHalfStart, LastWeek,
  ChipsPerHalf     \* one of each per half

ASSUME ChipAssumption ==
  /\ SecondHalfStart \in Nat /\ LastWeek \in Nat /\ SecondHalfStart \in 2..LastWeek
  /\ Missing \notin ChipsPerHalf

HalfRange(week) == IF week < SecondHalfStart THEN 1..(SecondHalfStart - 1) ELSE SecondHalfStart..LastWeek

\* A slip: a chip stays spent for the season.
SpentSoFar(week, chips) == {<<chips[w], w>> : w \in {v \in 1..week : chips[v] # Missing}}

\* Each chip of this half with the first Gameweek it was reported in.
Plays(week, chips) ==
  {<<chips[w], w>> : w \in {v \in HalfRange(week) :
     /\ v <= week /\ chips[v] # Missing
     /\ \A u \in HalfRange(week) : u < v => chips[u] # chips[v]}}

Used(week, chips)      == {p[1] : p \in Plays(week, chips)}
RemainingChips(week, chips) == ChipsPerHalf \ Used(week, chips)

Misjudged ==
  {<<chips, week>> \in [1..LastWeek -> ChipsPerHalf \cup {"unheard of", Missing}] \X (1..LastWeek) :
     \/ RemainingChips(week, chips) #
          (IF week \in {1, SecondHalfStart} THEN ChipsPerHalf
           ELSE RemainingChips(week - 1, chips)) \ {chips[week]}
     \/ \E p, q \in Plays(week, chips) : p[1] = q[1] /\ p # q
     \/ chips[week] # Missing /\ chips[week] \notin Used(week, chips)}

\* From one Gameweek to the next a manager keeps the chips he has not played and
\* gets none back, until the second half gives him the set again; a chip that FPL
\* reports late, twice, or that nobody has heard of, does not upset the rest.
ChipsAreKept == Misjudged = {}
=============================================================================
