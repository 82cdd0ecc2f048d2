----------------------------- MODULE LeagueRules -----------------------------
(***************************************************************************)
(* The league's pure rules: ranking with the shared tie-break chain        *)
(* (domain/rankings.py, domain/tie_breaks.py), the exchange between the    *)
(* divisions (domain/promotion.py), and the H2H draw by the circle method  *)
(* (domain/h2h_schedule.py).  A ranking key is a tuple, higher first.      *)
(***************************************************************************)
EXTENDS Integers, Sequences, FiniteSets, FiniteSetsExt

\* The first measure that differs decides.
Beats(k, l) ==
  \E i \in DOMAIN k : k[i] > l[i] /\ \A j \in 1..(i - 1) : k[j] = l[j]

\* Best first; level managers in the order of their ids.
Ahead(key, n, m) == Beats(key[n], key[m]) \/ (key[n] = key[m] /\ n < m)

\* Sorted: everybody stands behind as many as are ahead of him.
Ordered(S, key) ==
  [i \in 1..Cardinality(S) |->
     CHOOSE m \in S : Cardinality({n \in S : Ahead(key, n, m)}) = i - 1]

\* The members of a set of numbers in ascending order.
Ascending(S) == Ordered(S, [m \in S |-> <<>>])

\* Competition ranks, 1 2 2 4: level managers share the first of their places.
Ranks(S, key) ==
  LET order == Ordered(S, key)
      rank[i \in DOMAIN order] ==
        IF i > 1 /\ key[order[i]] = key[order[i - 1]] THEN rank[i - 1] ELSE i
  IN [m \in S |-> rank[CHOOSE i \in DOMAIN order : order[i] = m]]

\* Ranks held by a manager of the zone and by somebody else of the division.
Contested(division, zone, rank) ==
  {r \in {rank[m] : m \in zone} :
     Cardinality({m \in division : rank[m] = r}) > 1}

\* The bottom of HIGH and the top of LOW change places, unless a rank of either
\* zone is shared.
Exchange(high, low, key, count) ==
  LET highOrder == Ordered(high, key)
      lowOrder  == Ordered(low, key)
      relegated == {highOrder[i] : i \in (Len(highOrder) - count + 1)..Len(highOrder)}
      promoted  == {lowOrder[i] : i \in 1..count}
  IN [promoted |-> promoted, relegated |-> relegated,
      contested |-> Contested(high, relegated, Ranks(high, key))
                    \cup Contested(low, promoted, Ranks(low, key))]

-----------------------------------------------------------------------------
\* A slip: nobody moves round the table.
SeatedStill(ids, rounds) ==
  {[round |-> k, home |-> ids[i], away |-> ids[Len(ids) + 1 - i]] :
     k \in 0..(rounds - 1), i \in 1..(Len(ids) \div 2)}

\* The first stays seated and the others move round: each round pairs the seats
\* that face each other, and the first pairing changes ends every other round.
RoundRobin(ids, rounds) ==
  LET n == Len(ids)
      seats[k \in 0..(rounds - 1)] ==
        IF k = 0 THEN ids
        ELSE <<seats[k - 1][1], seats[k - 1][n]>> \o SubSeq(seats[k - 1], 2, n - 1)
      turned(k, i) == k % 2 = 1 /\ i = 1
  IN {[round |-> k,
       home |-> seats[k][IF turned(k, i) THEN n + 1 - i ELSE i],
       away |-> seats[k][IF turned(k, i) THEN i ELSE n + 1 - i]] :
        k \in 0..(rounds - 1), i \in 1..(n \div 2)}

-----------------------------------------------------------------------------
(* What the rules must come to, whichever way they are computed. *)

\* Everybody plays once in every round, and nobody meets the same opponent twice.
IsFairDraw(ids, rounds, draw) ==
  /\ \A m \in {ids[i] : i \in DOMAIN ids}, k \in 0..(rounds - 1) :
       Cardinality({d \in draw : d.round = k /\ m \in {d.home, d.away}}) = 1
  /\ \A d, e \in draw : {d.home, d.away} = {e.home, e.away} => d = e
  /\ \A d \in draw : d.home # d.away
=============================================================================
