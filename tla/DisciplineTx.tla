---------------------------- MODULE DisciplineTx ----------------------------
(***************************************************************************)
(* Discipline with its database transactions overlapping.  Reviews are     *)
(* HTTP requests, each in a session of its own; the synchronisation runs   *)
(* detection in the middle of its one long transaction.  PostgreSQL runs   *)
(* them at READ COMMITTED: a statement sees what was committed when it     *)
(* began, a row another transaction has written is waited for, and an      *)
(* UPDATE then lands on the row as it has become.  No row has a version,   *)
(* and an UPDATE names only the columns the session has changed.           *)
(***************************************************************************)
EXTENDS Discipline

CONSTANTS
  Requests,     \* review requests that may be in flight together
  Publications  \* the cost tables FPL may publish, [Cases -> Costs]

ASSUME PublicationsAssumption == Publications \subseteq [Cases -> Costs]
ASSUME CaseAssumption         == NoRow \notin Cases

VARIABLES
  tick,     \* the synchronisation's transaction
  request,  \* each review's transaction
  blamed    \* h2h_penalties.violation_id: the case each deduction names

txVars == <<vars, tick, request, blamed>>

Idle == [pc |-> "idle"]

InFlight == {"written", "counted", "planned", "inserted"}

-----------------------------------------------------------------------------
(* The rows a transaction has written and not committed. *)

\* Statements detection emits: for the cases its own, earlier, reading calls for.
Written(t) == {c \in Cases : Detected(t.seen[c], t.costs[c]) # t.seen[c]}
Deleted(t) == {c \in Written(t) : Detected(t.seen[c], t.costs[c]) = NoRow}

LockedByTick == IF tick.pc = "flushed" THEN Written(tick) ELSE {}
LockedBy(r)  == IF request[r].pc \in InFlight THEN {request[r].case} ELSE {}

\* What a correction leaves of a row: it names detected_count alone.
Flushed(t, c) ==
  IF t.seen[c] = NoRow \/ c \in Deleted(t) THEN Detected(t.seen[c], t.costs[c])
  ELSE [violations[c] EXCEPT !.detected = Units(t.costs[c])]

\* What a decision leaves of a row: confirmed_count is named only if it changes.
Own(q) ==
  LET row == violations[q.case] IN
  [violations EXCEPT ![q.case] =
     [row EXCEPT !.status = q.status,
                 !.confirmed = IF q.confirmed = q.was THEN @ ELSE q.confirmed]]

-----------------------------------------------------------------------------
(* The synchronisation. *)

TickReads(publication) ==
  /\ tick.pc = "idle"
  /\ tick' = [pc |-> "read", costs |-> publication, seen |-> violations]
  /\ UNCHANGED <<vars, request, blamed>>

\* A slip: no foreign key from a deduction to its case.
TickFlushesFreely ==
  /\ tick.pc = "read"
  /\ \A r \in Requests : LockedBy(r) \cap Written(tick) = {}
  /\ tick' = [tick EXCEPT !.pc = "flushed"]
  /\ UNCHANGED <<vars, request, blamed>>

\* A case a deduction names cannot be deleted: the tick fails and rolls back.
TickFlushes ==
  /\ tick.pc = "read"
  /\ \A r \in Requests : LockedBy(r) \cap Written(tick) = {}
  /\ tick' = IF \E m \in Managers : blamed[m] \in Deleted(tick)
             THEN Idle ELSE [tick EXCEPT !.pc = "flushed"]
  /\ UNCHANGED <<vars, request, blamed>>

TickCommits ==
  /\ tick.pc = "flushed"
  /\ costs' = tick.costs
  /\ violations' = [c \in Cases |-> IF c \in Written(tick) THEN Flushed(tick, c)
                                    ELSE violations[c]]
  /\ tick' = Idle
  /\ UNCHANGED <<consequences, request, blamed>>

TickFails ==
  /\ tick.pc # "idle"
  /\ tick' = Idle
  /\ UNCHANGED <<vars, request, blamed>>

-----------------------------------------------------------------------------
(* A review. *)

ReviewReads(r, c, review, override) ==
  /\ request[r].pc = "idle"
  /\ violations[c] # NoRow
  /\ \E t \in Transitions :
       /\ t[1] = violations[c].status /\ t[2] = review
       /\ request' = [request EXCEPT ![r] =
            [pc |-> "read", case |-> c, status |-> t[3],
             was |-> violations[c].confirmed,
             confirmed |-> Effective(t[3], violations[c].detected, override)]]
  /\ UNCHANGED <<vars, tick, blamed>>

\* The row may have gone since: the UPDATE matches nothing and the request fails.
ReviewWrites(r) ==
  /\ request[r].pc = "read"
  /\ request[r].case \notin LockedByTick \cup UNION {LockedBy(q) : q \in Requests \ {r}}
  /\ request' = [request EXCEPT ![r] =
       IF violations[request[r].case] = NoRow THEN Idle ELSE [@ EXCEPT !.pc = "written"]]
  /\ UNCHANGED <<vars, tick, blamed>>

ReviewCounts(r) ==
  LET q == request[r] IN
  /\ q.pc = "written"
  /\ request' = [request EXCEPT ![r] =
       [pc |-> "counted", case |-> q.case, status |-> q.status, was |-> q.was,
        confirmed |-> q.confirmed, due |-> Due(Total(Own(q), q.case[1])),
        out |-> FALSE]]
  /\ UNCHANGED <<vars, tick, blamed>>

ReviewPlans(r) ==
  /\ request[r].pc = "counted"
  /\ request' = [request EXCEPT ![r].pc = "planned",
                                ![r].due = @ \ ledger[request[r].case[1]]]
  /\ UNCHANGED <<vars, tick, blamed>>

Contend(p, q) == p.case[1] = q.case[1] /\ p.due \cap q.due # {}

\* A slip: no unique key on (manager, action).
ReviewInsertsFreely(r) ==
  /\ request[r].pc = "planned"
  /\ request' = [request EXCEPT ![r].pc = "inserted"]
  /\ UNCHANGED <<vars, tick, blamed>>

\* The unique key makes the second of two inserters wait, and fail if the
\* first commits.  With its rows in, a review looks whether the manager is out.
ReviewInserts(r) ==
  /\ request[r].pc = "planned"
  /\ \A q \in Requests \ {r} :
       request[q].pc = "inserted" => ~Contend(request[r], request[q])
  /\ request' = [request EXCEPT ![r] =
       IF @.due \cap ledger[@.case[1]] # {} THEN Idle
       ELSE [@ EXCEPT !.pc = "inserted", !.out = request[r].case[1] \in removed]]
  /\ UNCHANGED <<vars, tick, blamed>>

ReviewCommits(r) ==
  LET q == request[r]  m == q.case[1] IN
  /\ q.pc = "inserted"
  /\ violations' = Own(q)
  /\ Apply(m, q.due, q.out)
  /\ blamed' = IF "h2h_table_deduction" \in q.due
               THEN [blamed EXCEPT ![m] = q.case] ELSE blamed
  /\ request' = [request EXCEPT ![r] = Idle]
  /\ UNCHANGED <<costs, tick>>

\* The worker or its connection is lost before the commit.
ReviewFails(r) ==
  /\ request[r].pc # "idle"
  /\ request' = [request EXCEPT ![r] = Idle]
  /\ UNCHANGED <<vars, tick, blamed>>

-----------------------------------------------------------------------------
\* A status set by hand is one short transaction.
StatusIsSet(m) == UpdateManager(m) /\ UNCHANGED <<tick, request, blamed>>

TxInit ==
  /\ Init
  /\ tick = Idle
  /\ request = [r \in Requests |-> Idle]
  /\ blamed = [m \in Managers |-> NoRow]

TxNext ==
  \/ \E publication \in Publications : TickReads(publication)
  \/ TickFlushes \/ TickCommits \/ TickFails
  \/ \E r \in Requests :
       \/ \E c \in Cases, review \in Reviews, override \in 0..MaxOverride :
            ReviewReads(r, c, review, override)
       \/ ReviewWrites(r) \/ ReviewCounts(r) \/ ReviewPlans(r)
       \/ ReviewInserts(r) \/ ReviewCommits(r) \/ ReviewFails(r)
  \/ \E m \in Managers : StatusIsSet(m)

TxSpec == TxInit /\ [][TxNext]_txVars

-----------------------------------------------------------------------------
(* What must hold however transactions overlap. *)

TxTypeOK ==
  /\ TypeOK
  /\ tick.pc \in {"idle", "read", "flushed"}
  /\ \A r \in Requests : request[r].pc \in {"idle", "read"} \cup InFlight
  /\ blamed \in [Managers -> Cases \cup {NoRow}]

\* The deduction a manager carries names one of his own cases, and that case
\* is still there to explain it.
DeductionIsExplained ==
  \A m \in Managers : deductions[m] > 0 =>
    blamed[m] # NoRow /\ blamed[m][1] = m /\ violations[blamed[m]] # NoRow

-----------------------------------------------------------------------------
(* What the code promises, and does not keep once two requests overlap.      *)

\* Whatever is due is applied (apply_threshold_actions), once no review is
\* still under way.
DueOnceQuiet ==
  (\A r \in Requests : request[r].pc = "idle") => DueIsOnRecord
=============================================================================
