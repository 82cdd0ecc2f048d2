------------------------- MODULE ManagerFeed_proofs -------------------------
(***************************************************************************)
(* What the squads and the queues of ManagerFeed keep, for every league,   *)
(* batch and number of overlapping invocations.  Everything rests on one   *)
(* tick being at work at a time: what it planned to insert stays the next  *)
(* revision until it commits, because nobody else has inserted anything.   *)
(***************************************************************************)
EXTENDS ManagerFeed, LeagueRules_proofs

Busy(w) == worker[w].pc # "idle"

\* What an invocation holds at each of its steps.
Asking(t) == t.pc = "picks" /\ t.asked \subseteq Managers
Storing(t) ==
  /\ t.pc = "history"
  /\ DOMAIN t.revision \subseteq DOMAIN t.answer
  /\ DOMAIN t.answer \subseteq Managers
  /\ \A m \in DOMAIN t.answer : t.answer[m] \in Payloads \cup {NoRow}
  /\ \A m \in DOMAIN t.revision : t.answer[m] \in Squads

WorkersOK ==
  /\ DOMAIN worker = Workers /\ worker = [w \in Workers |-> worker[w]]
  /\ \A w \in Workers : worker[w] = Idle \/ Asking(worker[w]) \/ Storing(worker[w])

OneAtWork == \A v, w \in Workers : Busy(v) /\ Busy(w) => v = w

\* Readings have moments: nobody was read before himself, and whoever was read
\* between two others' readings was read before the one or after the other.
ReadInOrder(order) ==
  /\ \A m, n \in Managers : <<m, n>> \in order => <<n, m>> \notin order
  /\ \A l, m, n \in Managers :
       <<l, n>> \in order => <<l, m>> \in order \/ <<m, n>> \in order

QueuesAreOrders == ReadInOrder(picksRead) /\ ReadInOrder(historyRead)

IInv == FeedTypeOK /\ WorkersOK /\ OneAtWork /\ InsertsAreFresh /\ EachSquadOnce

-----------------------------------------------------------------------------
(* The data. *)

\* A squad that is not among the revisions makes one more of them.
LEMMA AppendFresh ==
  ASSUME NEW s \in Seq(Squads), NEW squad \in Squads, squad \notin Range(s), IsInjective(s)
  PROVE  /\ Append(s, squad) \in Seq(Squads)
         /\ IsInjective(Append(s, squad))
         /\ Range(Append(s, squad)) = Range(s) \cup {squad}
<1> DEFINE t == Append(s, squad)
<1>1. /\ t \in Seq(Squads) /\ Len(t) = Len(s) + 1 /\ Len(s) \in Nat
      /\ \A i \in 1..Len(s) : t[i] = s[i]
      /\ t[Len(s) + 1] = squad
  BY AppendProperties, LenProperties
<1>2. DOMAIN s = 1..Len(s) /\ DOMAIN t = 1..(Len(s) + 1)
  BY <1>1, LenProperties
<1> HIDE DEF t
<1>3. Range(t) = Range(s) \cup {squad}
  <2>1. \A i \in DOMAIN t : t[i] \in Range(s) \cup {squad}
    BY <1>1, <1>2 DEF Range
  <2>2. \A x \in Range(s) : \E i \in DOMAIN t : x = t[i]
    BY <1>1, <1>2 DEF Range
  <2>3. squad = t[Len(s) + 1] /\ Len(s) + 1 \in DOMAIN t
    BY <1>1, <1>2
  <2> QED BY <2>1, <2>2, <2>3 DEF Range
<1>4. IsInjective(t)
  <2>1. SUFFICES ASSUME NEW i \in DOMAIN t, NEW j \in DOMAIN t, t[i] = t[j] PROVE i = j
    BY DEF IsInjective
  <2>2. \A k \in 1..Len(s) : s[k] # squad
    BY <1>2 DEF Range
  <2>3. CASE i = Len(s) + 1 \/ j = Len(s) + 1
    BY <1>1, <1>2, <2>1, <2>2, <2>3
  <2>4. CASE i \in 1..Len(s) /\ j \in 1..Len(s)
    BY <1>1, <1>2, <2>1, <2>4 DEF IsInjective
  <2> QED BY <1>1, <1>2, <2>3, <2>4
<1> QED BY <1>1, <1>3, <1>4 DEF t

\* A batch is of the league.
LEMMA BatchesAreManagers ==
  ASSUME FeedTypeOK
  PROVE  /\ PicksBatch(Limit(BatchSize)) \subseteq Managers
         /\ HistoryBatch(Limit(BatchSize)) \subseteq Managers
BY DEF FeedTypeOK, PicksBatch, HistoryBatch

\* A queue stays a queue of the league.
LEMMA RereadType ==
  ASSUME NEW order, NEW read PROVE Reread(order, read) \subseteq Pairs
BY DEF Reread

-----------------------------------------------------------------------------
(* The queues. *)

Picks   == {p \in Pairs : PicksBefore(p[1], p[2])}
History == {p \in Pairs : DueBefore(historyRead, p[1], p[2])}

\* Whoever was read before anybody else stays so until one of them is read again,
\* and those read together go to the end together.
LEMMA RereadKeepsOrder ==
  ASSUME NEW order, ReadInOrder(order), NEW read
  PROVE  ReadInOrder(Reread(order, read))
<1>1. \A m, n \in Managers : <<m, n>> \in Reread(order, read)
        <=> \/ m \notin read /\ n \in read
            \/ <<m, n>> \in order /\ m \notin read /\ n \notin read
  BY DEF Reread, Pairs
<1>2. \A m, n \in Managers : <<m, n>> \in order => <<n, m>> \notin order
  BY DEF ReadInOrder
<1>3. \A l, m, n \in Managers :
        <<l, n>> \in order => <<l, m>> \in order \/ <<m, n>> \in order
  BY DEF ReadInOrder
<1> DEFINE after == Reread(order, read)
<1>4. \A m, n \in Managers : <<m, n>> \in after => <<n, m>> \notin after
  BY <1>1, <1>2
<1>5. \A l, m, n \in Managers :
        <<l, n>> \in after => <<l, m>> \in after \/ <<m, n>> \in after
  BY <1>1, <1>3
<1> HIDE DEF after
<1>6. ReadInOrder(after)  BY <1>4, <1>5 DEF ReadInOrder
<1> QED BY <1>6 DEF after

\* Whose turn it is is settled between any two managers: the moments of their last
\* readings first, their ids when there is nothing between those.
LEMMA TurnsAreSettled ==
  ASSUME NEW order, ReadInOrder(order)
  PROVE  /\ \A m \in Managers : ~DueBefore(order, m, m)
         /\ \A m, n \in Managers :
              m # n => DueBefore(order, m, n) \/ DueBefore(order, n, m)
         /\ \A l, m, n \in Managers :
              DueBefore(order, l, m) /\ DueBefore(order, m, n)
                => DueBefore(order, l, n)
<1>1. Managers \subseteq Nat
  BY FeedAssumption
<1>2. /\ \A m, n \in Managers : <<m, n>> \in order => <<n, m>> \notin order
      /\ \A l, m, n \in Managers :
           <<l, n>> \in order => <<l, m>> \in order \/ <<m, n>> \in order
  BY DEF ReadInOrder
<1>3. \A m \in Managers : ~DueBefore(order, m, m)
  BY <1>1, <1>2 DEF DueBefore
<1>4. \A m, n \in Managers :
        m # n => DueBefore(order, m, n) \/ DueBefore(order, n, m)
  <2> TAKE m, n \in Managers
  <2>1. m # n => m < n \/ n < m
    BY <1>1
  <2> QED BY <1>2, <2>1 DEF DueBefore
<1>5. ASSUME NEW l \in Managers, NEW m \in Managers, NEW n \in Managers,
             DueBefore(order, l, m), DueBefore(order, m, n)
      PROVE  DueBefore(order, l, n)
  <2>1. l \in Nat /\ m \in Nat /\ n \in Nat
    BY <1>1
  <2>2. \/ <<l, m>> \in order
        \/ <<m, l>> \notin order /\ l < m
    BY <1>5 DEF DueBefore
  <2>3. \/ <<m, n>> \in order
        \/ <<n, m>> \notin order /\ m < n
    BY <1>5 DEF DueBefore
  <2>4. <<n, l>> \notin order
    BY <1>2, <2>2, <2>3
  <2>5. <<l, n>> \in order \/ l < n
    BY <1>2, <2>1, <2>2, <2>3
  <2> QED BY <2>4, <2>5 DEF DueBefore
<1> QED BY <1>3, <1>4, <1>5

\* So the histories are asked for in an order of the league,
LEMMA HistoryIsAnOrder ==
  ASSUME ReadInOrder(historyRead), NEW S, S \subseteq Managers
  PROVE  Orders(History, S)
<1>1. \A m, n \in Managers : <<m, n>> \in History <=> DueBefore(historyRead, m, n)
  BY DEF History, Pairs
<1>2. /\ \A m \in Managers : ~DueBefore(historyRead, m, m)
      /\ \A m, n \in Managers :
           m # n => DueBefore(historyRead, m, n) \/ DueBefore(historyRead, n, m)
      /\ \A l, m, n \in Managers :
           DueBefore(historyRead, l, m) /\ DueBefore(historyRead, m, n)
             => DueBefore(historyRead, l, n)
  BY TurnsAreSettled
<1> HIDE DEF History
<1> QED BY <1>1, <1>2 DEF Orders, IsTransitivelyClosedOn

\* and the squads too, the managers without one first.
LEMMA PicksAreAnOrder ==
  ASSUME ReadInOrder(picksRead), NEW S, S \subseteq Managers
  PROVE  Orders(Picks, S)
<1>1. \A m, n \in Managers : <<m, n>> \in Picks
        <=> \/ m \notin Captured /\ n \in Captured
            \/ (m \in Captured <=> n \in Captured) /\ DueBefore(picksRead, m, n)
  BY DEF Picks, Pairs, PicksBefore
<1>2. /\ \A m \in Managers : ~DueBefore(picksRead, m, m)
      /\ \A m, n \in Managers :
           m # n => DueBefore(picksRead, m, n) \/ DueBefore(picksRead, n, m)
      /\ \A l, m, n \in Managers :
           DueBefore(picksRead, l, m) /\ DueBefore(picksRead, m, n)
             => DueBefore(picksRead, l, n)
  BY TurnsAreSettled
<1>3. /\ \A m \in S : <<m, m>> \notin Picks
      /\ \A m, n \in S : m # n => <<m, n>> \in Picks \/ <<n, m>> \in Picks
  BY <1>1, <1>2
<1>4. \A l, m, n \in S :
        <<l, m>> \in Picks /\ <<m, n>> \in Picks => <<l, n>> \in Picks
  BY <1>1, <1>2
<1> HIDE DEF Picks
<1> QED BY <1>3, <1>4 DEF Orders, IsTransitivelyClosedOn

\* The first of a queue, up to the limit of a batch: never nobody, never too many.
LEMMA BatchOfAnOrder ==
  ASSUME FeedTypeOK, NEW R, Orders(R, active), NEW configured \in Int, NEW batch,
         batch = {m \in active :
                    Cardinality({n \in active : <<n, m>> \in R}) < Limit(configured)}
  PROVE  /\ active # {} => batch # {}
         /\ configured > 0 => Cardinality(batch) <= configured
<1>1. IsFiniteSet(active) /\ IsFiniteSet(Managers) /\ active \subseteq Managers
  BY FS_Subset, FeedAssumption DEF FeedTypeOK
<1>2. /\ Limit(configured) \in Nat
      /\ active # {} => Limit(configured) > 0
      /\ configured > 0 => Limit(configured) = configured
  <2>1. Cardinality(Managers) \in Nat
    BY <1>1, FS_CardinalityType
  <2>2. active # {} => Cardinality(Managers) # 0
    BY <1>1, FS_EmptySet
  <2> QED BY <2>1, <2>2 DEF Limit
<1>3. batch = {m \in active : Place(m, R, active) < Limit(configured)}
  BY DEF Place, SetLessThan
<1>4. PICK limit : limit = Limit(configured)
  OBVIOUS
<1>5. /\ limit \in Nat /\ (active # {} => limit > 0) /\ (configured > 0 => limit = configured)
      /\ batch = {m \in active : Place(m, R, active) < limit}
  BY <1>2, <1>3, <1>4
<1>6. /\ limit > 0 /\ active # {} => batch # {}
      /\ Cardinality(batch) <= limit
  BY <1>1, <1>5, FirstPlaces
<1> QED BY <1>5, <1>6

-----------------------------------------------------------------------------
(* The steps. *)

\* The invariant holds before the first tick.
LEMMA InitInvariant == FeedInit => IInv
<1> SUFFICES ASSUME FeedInit PROVE IInv
  OBVIOUS
<1>1. FeedTypeOK
  BY DEF FeedInit, FeedTypeOK, Idle
<1>2. WorkersOK /\ OneAtWork /\ InsertsAreFresh
  BY DEF FeedInit, WorkersOK, OneAtWork, InsertsAreFresh, Busy, Idle
<1>3. EachSquadOnce
  <2>1. \A m \in Managers : snapshots[m] = <<>> /\ DOMAIN snapshots[m] = {}
    BY DEF FeedInit
  <2> QED BY <2>1 DEF EachSquadOnce, Range, IsInjective
<1> QED BY <1>1, <1>2, <1>3 DEF IInv

\* FPL and the administrators touch neither a tick nor what it writes.
LEMMA OutsideInvariant ==
  ASSUME IInv, UNCHANGED <<evidence, snapshots, worker>>, FeedTypeOK'
  PROVE  IInv'
BY DEF IInv, WorkersOK, OneAtWork, Busy, Asking, Storing, InsertsAreFresh, EachSquadOnce

\* A tick that begins is the only one.
LEMMA StartInvariant ==
  ASSUME IInv, NEW w \in Workers, TickStarts(w)
  PROVE  IInv'
<1>1. /\ worker'[w] = [pc |-> "picks", asked |-> PicksBatch(Limit(BatchSize))]
      /\ \A v \in Workers \ {w} : worker'[v] = worker[v] /\ worker[v].pc = "idle"
      /\ DOMAIN worker' = Workers /\ worker' = [v \in Workers |-> worker'[v]]
  BY DEF TickStarts, IInv, WorkersOK, Free
<1>2. UNCHANGED <<active, published, picksRead, historyRead, evidence, snapshots>>
  BY DEF TickStarts
<1>3. FeedTypeOK'
  BY <1>1, <1>2 DEF IInv, FeedTypeOK
<1>4. WorkersOK'
  <2>1. Asking(worker'[w])
    BY <1>1, BatchesAreManagers DEF Asking, IInv
  <2>2. \A v \in Workers \ {w} : worker'[v] = Idle
    BY <1>1 DEF IInv, WorkersOK, Asking, Storing
  <2> QED BY <1>1, <2>1, <2>2 DEF WorkersOK
<1>5. OneAtWork' /\ InsertsAreFresh'
  BY <1>1 DEF OneAtWork, Busy, InsertsAreFresh
<1>6. EachSquadOnce'
  BY <1>2 DEF IInv, EachSquadOnce
<1> QED BY <1>3, <1>4, <1>5, <1>6 DEF IInv

\* What a tick plans to insert is new and next as it plans it.
LEMMA StoredInvariant ==
  ASSUME IInv, NEW w \in Workers, PicksStored(w)
  PROVE  IInv'
<1>1. PICK answer \in Answered(worker[w].asked) :
        worker' = [worker EXCEPT ![w] =
          [pc |-> "history", asked |-> HistoryBatch(Limit(BatchSize)), answer |-> answer,
           revision |-> [m \in NewSnapshots(answer) |-> Len(snapshots[m]) + 1]]]
  BY DEF PicksStored
<1> DEFINE t == worker'[w]
<1>2. /\ t.pc = "history" /\ t.answer = answer
      /\ t.revision = [m \in NewSnapshots(answer) |-> Len(snapshots[m]) + 1]
      /\ \A v \in Workers \ {w} : worker'[v] = worker[v]
      /\ DOMAIN worker' = Workers /\ worker' = [v \in Workers |-> worker'[v]]
  BY <1>1 DEF IInv, WorkersOK
<1>3. UNCHANGED <<active, published, picksRead, historyRead, evidence, snapshots>> /\ Busy(w)
  BY DEF PicksStored, Busy
<1>4. Asking(worker[w])
  BY DEF PicksStored, IInv, WorkersOK, Storing, Idle
<1>5. /\ DOMAIN answer \subseteq Managers
      /\ \A m \in DOMAIN answer : answer[m] \in Payloads \cup {NoRow}
  BY <1>1, <1>4 DEF Answered, Asking
<1>6. \A m \in NewSnapshots(answer) :
        m \in DOMAIN answer /\ answer[m] \in Squads /\ answer[m] \notin Range(snapshots[m])
  BY DEF NewSnapshots, Parsed
<1>7. FeedTypeOK'
  BY <1>2, <1>3 DEF IInv, FeedTypeOK
<1>8. WorkersOK'
  <2>1. Storing(t)
    BY <1>2, <1>5, <1>6 DEF Storing
  <2> QED BY <1>2, <2>1 DEF IInv, WorkersOK
<1>9. OneAtWork'
  BY <1>2, <1>3 DEF IInv, OneAtWork, Busy
<1>10. InsertsAreFresh'
  <2>1. \A v \in Workers \ {w} : worker'[v].pc = "idle"
    BY <1>2, <1>3 DEF IInv, OneAtWork, Busy
  <2> QED BY <2>1, <1>2, <1>3, <1>6 DEF InsertsAreFresh
<1>11. EachSquadOnce'
  BY <1>3 DEF IInv, EachSquadOnce
<1> QED BY <1>7, <1>8, <1>9, <1>10, <1>11 DEF IInv

\* After a commit nobody is at work, and every revision is a squad of its own.
LEMMA CommitInvariant ==
  ASSUME IInv, NEW w \in Workers, TickCommits(w)
  PROVE  IInv'
<1> DEFINE t == worker[w]
<1>1. /\ t.pc = "history" /\ Busy(w)
      /\ \E answer \in Answered(t.asked) : historyRead' = Reread(historyRead, Heard(answer))
      /\ picksRead' = PicksSeen(t)
      /\ evidence' = [m \in Managers |-> evidence[m] \cup
                        IF m \in Heard(t.answer) THEN {t.answer[m]} ELSE {}]
      /\ snapshots' = [m \in Managers |-> Stored(t, m)]
      /\ UNCHANGED <<active, published>>
  BY DEF TickCommits, Busy
<1>2. /\ \A v \in Workers : worker'[v] = Idle
      /\ DOMAIN worker' = Workers /\ worker' = [v \in Workers |-> worker'[v]]
  <2>1. \A v \in Workers \ {w} : worker[v] = Idle
    BY <1>1 DEF IInv, OneAtWork, Busy, WorkersOK, Asking, Storing
  <2>2. worker' = [worker EXCEPT ![w] = Idle]
    BY DEF TickCommits
  <2> QED BY <2>1, <2>2 DEF IInv, WorkersOK
<1>3. Storing(t)
  BY <1>1 DEF IInv, WorkersOK, Asking, Idle
<1>4. ASSUME NEW m \in Managers
      PROVE  /\ snapshots'[m] \in Seq(Squads) /\ IsInjective(snapshots'[m])
             /\ Range(snapshots'[m]) \subseteq evidence'[m]
  <2>1. /\ snapshots'[m] = Stored(t, m)
        /\ snapshots[m] \in Seq(Squads) /\ IsInjective(snapshots[m])
        /\ Range(snapshots[m]) \subseteq evidence[m] /\ evidence[m] \subseteq evidence'[m]
    BY <1>1 DEF IInv, FeedTypeOK, EachSquadOnce
  <2>2. CASE m \notin DOMAIN t.revision
    BY <2>1, <2>2 DEF Stored
  <2>3. CASE m \in DOMAIN t.revision
    <3>1. t.answer[m] \in Squads /\ m \in DOMAIN t.answer
      BY <1>3, <2>3 DEF Storing
    <3>2. t.answer[m] \notin Range(snapshots[m])
      BY <1>1, <2>3 DEF IInv, InsertsAreFresh
    <3>3. snapshots'[m] = Append(snapshots[m], t.answer[m])
      BY <2>1, <2>3 DEF Stored
    <3>4. m \in Heard(t.answer)
      BY <3>1, FeedAssumption DEF Heard
    <3>5. t.answer[m] \in evidence'[m]
      BY <1>1, <3>4
    <3> QED BY <2>1, <3>1, <3>2, <3>3, <3>5, AppendFresh
  <2> QED BY <2>2, <2>3
<1>5. FeedTypeOK'
  <2>1. evidence' \in [Managers -> SUBSET Payloads]
    <3>1. \A m \in Managers : m \in Heard(t.answer) => t.answer[m] \in Payloads
      BY <1>3 DEF Storing, Heard
    <3> QED BY <1>1, <3>1 DEF IInv, FeedTypeOK
  <2>2. snapshots' \in [Managers -> Seq(Squads)]
    BY <1>1, <1>4
  <2>3. picksRead' \subseteq Pairs /\ historyRead' \subseteq Pairs
    BY <1>1, RereadType DEF PicksSeen
  <2> QED BY <1>1, <1>2, <2>1, <2>2, <2>3 DEF IInv, FeedTypeOK, Idle
<1>6. WorkersOK' /\ OneAtWork' /\ InsertsAreFresh'
  BY <1>2 DEF WorkersOK, OneAtWork, Busy, InsertsAreFresh, Idle
<1>7. EachSquadOnce'
  BY <1>4 DEF EachSquadOnce
<1> QED BY <1>5, <1>6, <1>7 DEF IInv

\* A lost tick leaves nothing.
LEMMA LostInvariant ==
  ASSUME IInv, NEW w \in Workers, TickLost(w)
  PROVE  IInv'
<1>1. /\ worker'[w] = Idle /\ \A v \in Workers \ {w} : worker'[v] = worker[v]
      /\ DOMAIN worker' = Workers /\ worker' = [v \in Workers |-> worker'[v]]
      /\ UNCHANGED <<active, published, picksRead, historyRead, evidence, snapshots>>
  BY DEF TickLost, IInv, WorkersOK
<1>2. FeedTypeOK' /\ EachSquadOnce'
  BY <1>1 DEF IInv, FeedTypeOK, EachSquadOnce, Idle
<1>3. WorkersOK'
  BY <1>1 DEF IInv, WorkersOK
<1>4. OneAtWork' /\ InsertsAreFresh'
  BY <1>1 DEF IInv, OneAtWork, Busy, InsertsAreFresh, Idle
<1> QED BY <1>2, <1>3, <1>4 DEF IInv

\* Every step keeps it.
LEMMA StepInvariant == IInv /\ [FeedNext]_feedVars => IInv'
<1> SUFFICES ASSUME IInv, [FeedNext]_feedVars PROVE IInv'
  OBVIOUS
<1>1. ASSUME NEW m \in Managers, Removes(m) \/ Readmits(m) PROVE IInv'
  BY <1>1, OutsideInvariant DEF Removes, Readmits, IInv, FeedTypeOK
<1>2. ASSUME NEW m \in Managers, NEW s \in Squads, Publishes(m, s) PROVE IInv'
  BY <1>2, OutsideInvariant DEF Publishes, IInv, FeedTypeOK
<1>3. ASSUME NEW w \in Workers,
             TickStarts(w) \/ PicksStored(w) \/ TickCommits(w) \/ TickLost(w)
      PROVE  IInv'
  BY <1>3, StartInvariant, StoredInvariant, CommitInvariant, LostInvariant
<1>4. CASE UNCHANGED feedVars
  BY <1>4, OutsideInvariant DEF feedVars, IInv, FeedTypeOK
<1> QED BY <1>1, <1>2, <1>3, <1>4 DEF FeedNext

-----------------------------------------------------------------------------
(* The results. *)

\* The invariant the theorems rest on.
THEOREM Invariant == FeedSpec => []IInv
BY InitInvariant, StepInvariant, PTL DEF FeedSpec

\* However invocations overlap and are lost, no tick inserts a revision or a
\* squad that is there already, and every revision of a manager is a squad of its
\* own that rests on a payload kept as evidence (services/ingestion.py).
THEOREM SnapshotsStaySound == FeedSpec => []SnapshotsAreSound
<1>1. IInv => SnapshotsAreSound
  BY DEF IInv, SnapshotsAreSound
<1> QED BY <1>1, Invariant, PTL

\* Every step leaves the queues in the order of some moments: only a commit moves
\* anybody, and whoever it moves goes to the end.
LEMMA StepKeepsQueues ==
  ASSUME QueuesAreOrders, [FeedNext]_feedVars
  PROVE  QueuesAreOrders'
<1>1. CASE UNCHANGED <<picksRead, historyRead>>
  BY <1>1 DEF QueuesAreOrders, ReadInOrder
<1>2. ASSUME NEW w \in Workers, TickCommits(w) PROVE QueuesAreOrders'
  <2>1. \E read : picksRead' = Reread(picksRead, read)
    BY <1>2 DEF TickCommits, PicksSeen
  <2>2. \E read : historyRead' = Reread(historyRead, read)
    BY <1>2 DEF TickCommits
  <2> QED BY <2>1, <2>2, RereadKeepsOrder DEF QueuesAreOrders
<1> QED BY <1>1, <1>2 DEF FeedNext, Removes, Readmits, Publishes, TickStarts, PicksStored, TickLost, feedVars

\* However readings fail, batches overlap and managers leave, each queue orders the
\* managers, so the next batch is somebody's turn and no larger than configured,
\* whatever number the batch is set to (config.py, services/ingestion.py).
THEOREM TurnsComeToSomeone == FeedSpec => []SomeoneIsNext
<1>1. FeedInit => QueuesAreOrders
  BY DEF FeedInit, QueuesAreOrders, ReadInOrder
<1>2. QueuesAreOrders /\ [FeedNext]_feedVars => QueuesAreOrders'
  BY StepKeepsQueues
<1>3. IInv /\ QueuesAreOrders => SomeoneIsNext
  <2> SUFFICES ASSUME IInv, QueuesAreOrders PROVE SomeoneIsNext
    OBVIOUS
  <2>1. FeedTypeOK /\ active \subseteq Managers
    BY DEF IInv, FeedTypeOK
  <2>2. Cardinality(Managers) \in Nat
    BY FeedAssumption, FS_CardinalityType
  <2>3. ASSUME NEW configured \in -1..Cardinality(Managers)
        PROVE  LET batch == PicksBatch(Limit(configured)) IN
               /\ active # {} => batch # {}
               /\ configured > 0 => Cardinality(batch) <= configured
    <3>1. PicksBatch(Limit(configured)) =
            {m \in active :
               Cardinality({n \in active : <<n, m>> \in Picks}) < Limit(configured)}
      <4>1. \A m, n \in active : PicksBefore(n, m) <=> <<n, m>> \in Picks
        BY <2>1 DEF Picks, Pairs
      <4>2. \A m \in active :
              {n \in active : PicksBefore(n, m)} = {n \in active : <<n, m>> \in Picks}
        BY <4>1
      <4> QED BY <4>2 DEF PicksBatch
    <3>2. Orders(Picks, active)
      BY <2>1, PicksAreAnOrder DEF QueuesAreOrders
    <3>3. configured \in Int
      BY <2>2
    <3> HIDE DEF Picks
    <3> QED BY <2>1, <3>1, <3>2, <3>3, BatchOfAnOrder
  <2>4. ASSUME NEW configured \in -1..Cardinality(Managers)
        PROVE  LET batch == HistoryBatch(Limit(configured)) IN
               /\ active # {} => batch # {}
               /\ configured > 0 => Cardinality(batch) <= configured
    <3>1. HistoryBatch(Limit(configured)) =
            {m \in active :
               Cardinality({n \in active : <<n, m>> \in History}) < Limit(configured)}
      <4>1. \A m, n \in active : DueBefore(historyRead, n, m) <=> <<n, m>> \in History
        BY <2>1 DEF History, Pairs
      <4>2. \A m \in active : {n \in active : DueBefore(historyRead, n, m)}
                             = {n \in active : <<n, m>> \in History}
        BY <4>1
      <4> QED BY <4>2 DEF HistoryBatch
    <3>2. Orders(History, active)
      BY <2>1, HistoryIsAnOrder DEF QueuesAreOrders
    <3>3. configured \in Int
      BY <2>2
    <3> HIDE DEF History
    <3> QED BY <2>1, <3>1, <3>2, <3>3, BatchOfAnOrder
  <2> QED BY <2>3, <2>4 DEF SomeoneIsNext
<1> QED BY <1>1, <1>2, <1>3, Invariant, PTL DEF FeedSpec
=============================================================================
