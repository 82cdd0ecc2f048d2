---------------------------- MODULE ManagerFeed ----------------------------
(***************************************************************************)
(* The two jobs of a full synchronisation that ask FPL about one manager   *)
(* at a time: squads (services/ingestion.py, _sync_picks) and season       *)
(* histories (_sync_entry_history).  With a batch smaller than the league  *)
(* each job takes the managers whose turn it is; every answer is kept as   *)
(* evidence (services/raw_store.py) before it is parsed; a squad not seen  *)
(* before becomes a new revision of the manager's snapshot.  Ticks are     *)
(* invocations of /cron/sync under an advisory lock (services/cron.py).    *)
(*                                                                         *)
(* Moments are only ever compared, so last_seen_at is kept as the relation *)
(* "was last read before": <<m, n>> is in it when m was read before n, or  *)
(* n has been read and m never.                                            *)
(***************************************************************************)
EXTENDS Integers, Sequences, FiniteSets, Functions

CONSTANTS
  Managers,   \* Manager.id: the ids break ties
  Workers,    \* invocations that may overlap
  Squads,     \* squads FPL may publish for a manager, by payload hash
  Malformed,  \* a payload parse_picks or parse_entry_history refuses
  BatchSize,  \* SYNC_MANAGER_BATCH_SIZE as configured, 0 when left blank
  MaxFailing, \* bounds how many managers one job may fail to read
  NoRow

ASSUME FeedAssumption ==
  /\ Managers \subseteq Nat /\ IsFiniteSet(Managers)
  /\ BatchSize \in Int /\ MaxFailing \in Nat
  /\ Malformed \notin Squads /\ NoRow \notin Squads \cup {Malformed}

VARIABLES
  active,       \* managers a job reads: confirmed and not removed
  published,    \* FPL's squad of each manager (external)
  picksRead,    \* order of the last reads of entry_picks
  historyRead,  \* order of the last reads of entry_history
  evidence,     \* raw_fpl_responses: payloads of entry_picks kept per manager
  snapshots,    \* manager_pick_snapshots, in order of revision
  worker        \* each invocation's transaction

feedVars == <<active, published, picksRead, historyRead, evidence, snapshots, worker>>

Idle    == [pc |-> "idle"]
Payloads == Squads \cup {Malformed}
Pairs   == Managers \X Managers

-----------------------------------------------------------------------------
(* Whose turn it is. *)

\* A slip: a zero is taken at its word.
ZeroIsALimit(configured) == IF configured < 0 THEN Cardinality(Managers) ELSE configured

\* A blank (0), zero or negative batch is no limit at all.
Limit(configured) == IF configured <= 0 THEN Cardinality(Managers) ELSE configured

\* Least recently read first, the never read before everyone, then by id.
DueBefore(order, m, n) ==
  \/ <<m, n>> \in order
  \/ <<n, m>> \notin order /\ m < n

Captured == {m \in Managers : snapshots[m] # <<>>}

\* Managers without a snapshot come first.
PicksBefore(m, n) ==
  \/ m \notin Captured /\ n \in Captured
  \/ (m \in Captured <=> n \in Captured) /\ DueBefore(picksRead, m, n)

PicksBatch(limit) ==
  {m \in active : Cardinality({n \in active : PicksBefore(n, m)}) < limit}

HistoryBatch(limit) ==
  {m \in active : Cardinality({n \in active : DueBefore(historyRead, n, m)}) < limit}

\* The order once the managers of "read" have been observed at one moment.
Reread(order, read) ==
  {p \in Pairs : \/ p[1] \notin read /\ p[2] \in read
                 \/ p \in order /\ p[1] \notin read /\ p[2] \notin read}

-----------------------------------------------------------------------------
(* FPL and the administrators. *)

Publishes(m, s) ==
  /\ published[m] # s
  /\ published' = [published EXCEPT ![m] = s]
  /\ UNCHANGED <<active, picksRead, historyRead, evidence, snapshots, worker>>

Removes(m) ==
  /\ m \in active
  /\ active' = active \ {m}
  /\ UNCHANGED <<published, picksRead, historyRead, evidence, snapshots, worker>>

\* The API sets him back to active, or confirms him.
Readmits(m) ==
  /\ m \notin active
  /\ active' = active \cup {m}
  /\ UNCHANGED <<published, picksRead, historyRead, evidence, snapshots, worker>>

-----------------------------------------------------------------------------
(* One full tick. *)

Free == \A v \in Workers : worker[v].pc = "idle"

\* What each manager of a batch answers: nothing (a request that failed every
\* attempt), a payload of an unexpected shape, or the squad FPL publishes.
Answered(batch) ==
  {answer \in [batch -> Payloads \cup {NoRow}] :
     /\ \A m \in batch : answer[m] \in {NoRow, Malformed, published[m]}
     /\ Cardinality({m \in batch : answer[m] # published[m]}) <= MaxFailing}

Heard(answer)  == {m \in DOMAIN answer : answer[m] # NoRow}
Parsed(answer) == {m \in DOMAIN answer : answer[m] \in Squads}

\* A slip: only the newest revision is looked at.
NewSinceLast(answer) ==
  {m \in Parsed(answer) :
     snapshots[m] = <<>> \/ answer[m] # snapshots[m][Len(snapshots[m])]}

\* A squad whose hash is on any revision of the manager is not stored again.
NewSnapshots(answer) ==
  {m \in Parsed(answer) : answer[m] \notin Range(snapshots[m])}

\* A slip: the lock is not asked for.
TickStartsFreely(w) ==
  /\ worker[w].pc = "idle"
  /\ worker' = [worker EXCEPT ![w] = [pc |-> "picks", asked |-> PicksBatch(Limit(BatchSize))]]
  /\ UNCHANGED <<active, published, picksRead, historyRead, evidence, snapshots>>

\* The lock is taken and the first batch chosen; who finds the lock held is
\* dropped without a trace.
TickStarts(w) ==
  /\ worker[w].pc = "idle"
  /\ Free
  /\ worker' = [worker EXCEPT ![w] = [pc |-> "picks", asked |-> PicksBatch(Limit(BatchSize))]]
  /\ UNCHANGED <<active, published, picksRead, historyRead, evidence, snapshots>>

\* Every answer is in: the new revisions are numbered and inserted, and the
\* second batch is chosen.
PicksStored(w) ==
  /\ worker[w].pc = "picks"
  /\ \E answer \in Answered(worker[w].asked) :
       worker' = [worker EXCEPT ![w] =
         [pc |-> "history", asked |-> HistoryBatch(Limit(BatchSize)), answer |-> answer,
          revision |-> [m \in NewSnapshots(answer) |-> Len(snapshots[m]) + 1]]]
  /\ UNCHANGED <<active, published, picksRead, historyRead, evidence, snapshots>>

\* A slip: the moment of a reading moves only when its answer is new.
PicksSeenWhenNew(t) ==
  Reread(picksRead, {m \in Heard(t.answer) : t.answer[m] \notin evidence[m]})

\* Every answer moves its manager to the back of the queue, parsed or not.
PicksSeen(t) == Reread(picksRead, Heard(t.answer))

Stored(t, m) ==
  IF m \in DOMAIN t.revision THEN Append(snapshots[m], t.answer[m]) ELSE snapshots[m]

\* The histories are in, and the tick commits: every answer heard is evidence.
TickCommits(w) ==
  LET t == worker[w] IN
  /\ t.pc = "history"
  /\ \E answer \in Answered(t.asked) :
       historyRead' = Reread(historyRead, Heard(answer))
  /\ picksRead' = PicksSeen(t)
  /\ evidence' = [m \in Managers |-> evidence[m] \cup
                    IF m \in Heard(t.answer) THEN {t.answer[m]} ELSE {}]
  /\ snapshots' = [m \in Managers |-> Stored(t, m)]
  /\ worker' = [worker EXCEPT ![w] = Idle]
  /\ UNCHANGED <<active, published>>

\* The worker is lost: the transaction rolls back and the lock is free.
TickLost(w) ==
  /\ worker[w].pc # "idle"
  /\ worker' = [worker EXCEPT ![w] = Idle]
  /\ UNCHANGED <<active, published, picksRead, historyRead, evidence, snapshots>>

-----------------------------------------------------------------------------
FeedInit ==
  /\ active = Managers
  /\ published \in [Managers -> Squads]
  /\ picksRead = {} /\ historyRead = {}
  /\ evidence = [m \in Managers |-> {}]
  /\ snapshots = [m \in Managers |-> <<>>]
  /\ worker = [w \in Workers |-> Idle]

FeedNext ==
  \/ \E m \in Managers :
       Removes(m) \/ Readmits(m) \/ \E s \in Squads : Publishes(m, s)
  \/ \E w \in Workers :
       TickStarts(w) \/ PicksStored(w) \/ TickCommits(w) \/ TickLost(w)

FeedSpec == FeedInit /\ [][FeedNext]_feedVars

\* Cron keeps calling, a batch that FPL has been asked for is answered or
\* fails, and not every tick is lost on the way.
TicksKeepComing ==
  /\ WF_feedVars(\E w \in Workers : TickStarts(w))
  /\ SF_feedVars(\E w \in Workers : PicksStored(w))
  /\ SF_feedVars(\E w \in Workers : TickCommits(w))

FairFeed == FeedSpec /\ TicksKeepComing

-----------------------------------------------------------------------------
(* What must hold. *)

FeedTypeOK ==
  /\ active \subseteq Managers
  /\ published \in [Managers -> Squads]
  /\ picksRead \subseteq Pairs /\ historyRead \subseteq Pairs
  /\ evidence \in [Managers -> SUBSET Payloads]
  /\ snapshots \in [Managers -> Seq(Squads)]
  /\ \A w \in Workers : worker[w].pc \in {"idle", "picks", "history"}

\* Two ticks never insert the same revision or the same squad twice: what a
\* tick is about to commit is still the next revision, and still new (the two
\* unique keys of manager_pick_snapshots, and the reason for the lock).
InsertsAreFresh ==
  \A w \in Workers : worker[w].pc = "history" =>
    \A m \in DOMAIN worker[w].revision :
      /\ worker[w].revision[m] = Len(snapshots[m]) + 1
      /\ worker[w].answer[m] \notin Range(snapshots[m])

\* A squad is one revision of its manager, and rests on a payload that was kept.
EachSquadOnce ==
  \A m \in Managers :
    /\ IsInjective(snapshots[m])
    /\ Range(snapshots[m]) \subseteq evidence[m]

\* What is on file of a manager's squads, and what is about to be.
SnapshotsAreSound == InsertsAreFresh /\ EachSquadOnce

\* Whatever number the batch is set to, it is never nobody's turn, and a batch
\* never exceeds it (config.py: "the one outcome this setting must never be
\* able to produce by accident").
SomeoneIsNext ==
  \A configured \in -1..Cardinality(Managers) :
    \A batch \in {PicksBatch(Limit(configured)), HistoryBatch(Limit(configured))} :
      /\ active # {} => batch # {}
      /\ configured > 0 => Cardinality(batch) <= configured

\* Asked for their squad, asked for their history.
AskedForPicks(m)   == \E w \in Workers : worker[w].pc = "picks" /\ m \in worker[w].asked
AskedForHistory(m) == \E w \in Workers : worker[w].pc = "history" /\ m \in worker[w].asked

\* With a batch of more managers than a job ever fails to read, every manager's squad
\* and history come round again and again (config.py, ingestion.py: "so nobody is
\* starved").
EveryoneComesRound ==
  \A m \in Managers :
    /\ []<>(m \notin active \/ AskedForPicks(m))
    /\ []<>(m \notin active \/ AskedForHistory(m))
=============================================================================
