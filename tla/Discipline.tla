----------------------------- MODULE Discipline -----------------------------
(***************************************************************************)
(* Excessive transfers, from FPL's published cost to the consequence: a    *)
(* synchronisation raises cases, an administrator decides them, and a      *)
(* decision applies whatever its manager's total has become due for        *)
(* (services/violations.py, services/admin.py, domain/violations.py).      *)
(*                                                                         *)
(* Here every request and every tick runs alone, which is what most of the *)
(* rules below need; DisciplineTx lets their database transactions overlap *)
(* and says what is left of them.  A case is a manager in a Gameweek.      *)
(***************************************************************************)
EXTENDS Integers, FiniteSets

CONSTANTS
  Managers,
  Gameweeks,
  Costs,        \* the transfer costs FPL may publish
  MaxOverride,  \* bound on the count an administrator may override with
  NoRow         \* no such row in the database

Cases == Managers \X Gameweeks

Statuses == {"detected", "pending_review", "approved_exception", "confirmed",
             "rejected", "overridden"}

Reviews == {"request_forgotten_chip_review", "approve_exception",
            "reject_exception", "confirm", "override"}

\* <<status, review, next status>>
Transitions == {<<"detected", "request_forgotten_chip_review", "pending_review">>,
                <<"detected", "confirm", "confirmed">>,
                <<"detected", "override", "overridden">>,
                <<"pending_review", "approve_exception", "approved_exception">>,
                <<"pending_review", "reject_exception", "rejected">>,
                <<"pending_review", "override", "overridden">>,
                <<"confirmed", "override", "overridden">>,
                <<"rejected", "override", "overridden">>}

Violation == [detected : Nat \ {0}, confirmed : Nat, status : Statuses]

ASSUME GameweeksAssumption == IsFiniteSet(Gameweeks)
ASSUME CostsAssumption    == Costs \subseteq Nat
ASSUME OverrideAssumption == MaxOverride \in Nat
ASSUME NoRowAssumption    == NoRow \notin Nat /\ NoRow \notin Violation

VARIABLES
  costs,       \* manager_gameweek_history.transfer_cost, by case
  violations,  \* violations, by case
  ledger,      \* violation_threshold_actions
  deductions,  \* h2h_penalties
  removed,     \* managers with active_status removed
  byHand       \* history: managers whose active_status was ever set by PATCH

consequences == <<ledger, deductions, removed, byHand>>
vars == <<costs, violations, consequences>>

Consequences == INSTANCE ThresholdLedger

\* A slip: a consequence that comes with the unit before its threshold.
DueOneEarly(total) == Consequences!Due(total + 1)

Due(total) == Consequences!Due(total)

-----------------------------------------------------------------------------
(* The rules. *)

\* A slip: the ceiling of the division taken for its floor.
UnitsRoundedDown(cost) == IF cost <= 8 THEN 0 ELSE (cost - 8) \div 8

\* Eight points are allowed; every further eight, or part of eight, is a unit.
Units(cost) == IF cost <= 8 THEN 0 ELSE (cost - 1) \div 8

\* A slip: a rejected claim counts for nothing.
EffectiveIfConfirmed(status, detected, override) ==
  IF status = "confirmed" THEN detected
  ELSE IF status = "overridden" THEN override ELSE 0

\* What a decided case counts for.
Effective(status, detected, override) ==
  IF status \in {"confirmed", "rejected"} THEN detected
  ELSE IF status = "overridden" THEN override ELSE 0

\* Confirmed units of one manager over the whole season.
ConfirmedIn(rows, m) ==
  [g \in Gameweeks |-> IF rows[<<m, g>>] = NoRow THEN 0
                       ELSE rows[<<m, g>>].confirmed]

\* The units themselves, so that the total is how many there are.
ConfirmedUnits(confirmed) == UNION {{g} \X (1..confirmed[g]) : g \in Gameweeks}

Total(rows, m) == Cardinality(ConfirmedUnits(ConfirmedIn(rows, m)))

-----------------------------------------------------------------------------
(* Detection. *)

\* What one pass makes of one case: an open case follows the published cost,
\* and a decided one is left alone.
Detected(row, cost) ==
  IF cost = NoRow \/ (row # NoRow /\ row.status # "detected") THEN row
  ELSE IF Units(cost) = 0 THEN NoRow
  ELSE IF row = NoRow
       THEN [detected |-> Units(cost), confirmed |-> 0, status |-> "detected"]
       ELSE [row EXCEPT !.detected = Units(cost)]

\* A tick mirrors one published or restated cost and detects on the result.
Tick(c, cost) ==
  /\ costs' = [costs EXCEPT ![c] = cost]
  /\ violations' = [k \in Cases |-> Detected(violations[k], costs'[k])]
  /\ UNCHANGED consequences

-----------------------------------------------------------------------------
(* Review. *)

Decided(row, status, override) ==
  [row EXCEPT !.status = status,
              !.confirmed = Effective(status, row.detected, override)]

\* A slip: a deduction for whatever a decision makes due.
AppliedTwice(m, outstanding, out) ==
  /\ ledger' = [ledger EXCEPT ![m] = @ \cup outstanding]
  /\ deductions' = [deductions EXCEPT ![m] = @ + 1]
  /\ removed' = IF "removed_from_competition" \in outstanding /\ ~out
                THEN removed \cup {m} ELSE removed
  /\ UNCHANGED byHand

\* The ledger rows of the actions outstanding, and what two of them bring.  The
\* status is written unless the manager was read as out.
Apply(m, outstanding, out) ==
  /\ ledger' = [ledger EXCEPT ![m] = @ \cup outstanding]
  /\ deductions' = IF "h2h_table_deduction" \in outstanding
                   THEN [deductions EXCEPT ![m] = @ + 1] ELSE deductions
  /\ removed' = IF "removed_from_competition" \in outstanding /\ ~out
                THEN removed \cup {m} ELSE removed
  /\ UNCHANGED byHand

\* A slip: the total taken before the decision is in it.
ReviewOnOldTotal(c, review, override) ==
  /\ violations[c] # NoRow
  /\ \E t \in Transitions :
       /\ t[1] = violations[c].status /\ t[2] = review
       /\ violations' = [violations EXCEPT ![c] = Decided(@, t[3], override)]
  /\ Apply(c[1], Due(Total(violations, c[1])) \ ledger[c[1]], c[1] \in removed)
  /\ UNCHANGED costs

Review(c, review, override) ==
  /\ violations[c] # NoRow
  /\ \E t \in Transitions :
       /\ t[1] = violations[c].status /\ t[2] = review
       /\ violations' = [violations EXCEPT ![c] = Decided(@, t[3], override)]
  /\ Apply(c[1], Due(Total(violations', c[1])) \ ledger[c[1]], c[1] \in removed)
  /\ UNCHANGED costs

\* An organiser sets a manager's status beside the ledger: to removed, or to
\* another, which takes a removed manager back.
UpdateManager(m) ==
  /\ removed' \in {removed \cup {m}, removed \ {m}}
  /\ byHand' = byHand \cup {m}
  /\ UNCHANGED <<costs, violations, ledger, deductions>>

Init ==
  /\ costs = [c \in Cases |-> NoRow]
  /\ violations = [c \in Cases |-> NoRow]
  /\ Consequences!Init

Next ==
  \/ \E c \in Cases :
       \/ \E cost \in Costs : Tick(c, cost)
       \/ \E review \in Reviews, override \in 0..MaxOverride :
            Review(c, review, override)
  \/ \E m \in Managers : UpdateManager(m)

Spec == Init /\ [][Next]_vars

-----------------------------------------------------------------------------
(* What must hold. *)

TypeOK ==
  /\ costs \in [Cases -> Costs \cup {NoRow}]
  /\ violations \in [Cases -> Violation \cup {NoRow}]
  /\ ledger \in [Managers -> SUBSET Consequences!Actions]
  /\ deductions \in [Managers -> 0..1]
  /\ removed \subseteq Managers
  /\ byHand \subseteq Managers

\* n units are what a cost comes to: enough to cover the excess, none to spare.
Covers(n, cost) == cost <= 8 + 8 * n /\ (n > 0 => cost > 8 * n)

\* An open case always shows the units of the cost now published, and where
\* there is no case the cost is allowed.
DetectionIsCurrent ==
  \A c \in Cases : costs[c] # NoRow =>
    \/ violations[c] = NoRow /\ Covers(0, costs[c])
    \/ violations[c] # NoRow /\ violations[c].status # "detected"
    \/ /\ violations[c] # NoRow /\ violations[c].detected > 0
       /\ Covers(violations[c].detected, costs[c])

\* Only an upheld case counts, for what was detected when it was decided or
\* for what the administrator set in its place.
ConfirmedFollowsStatus ==
  \A c \in Cases : violations[c] # NoRow /\ violations[c].status # "overridden" =>
    violations[c].confirmed = IF violations[c].status \in {"confirmed", "rejected"}
                              THEN violations[c].detected ELSE 0

\* What a case counts for follows from what FPL published and what was decided.
CasesFollowTheRules == DetectionIsCurrent /\ ConfirmedFollowsStatus

\* No consequence is left behind: while decisions come one after another, whatever
\* a manager's total is due for is on record, even when one Gameweek takes him over
\* several thresholds.  Of decisions that overlap it is false (DueOnceQuiet).
DueIsOnRecord == \A m \in Managers : Due(Total(violations, m)) \subseteq ledger[m]

\* The -6 is on the table once exactly when the ledger says so, and a manager whose
\* status no organiser has set is out of the competition exactly when it says so.
LedgerHasItsEffects ==
  \A m \in Managers :
    /\ deductions[m] = IF "h2h_table_deduction" \in ledger[m] THEN 1 ELSE 0
    /\ m \notin byHand =>
         (m \in removed <=> "removed_from_competition" \in ledger[m])

\* A consequence is recorded only in a step whose total calls for it.
RecordedOnlyWhenDue ==
  [][\A m \in Managers : \A action \in ledger'[m] \ ledger[m] :
       Total(violations', m) >= Consequences!ThresholdFor[action]]_vars

\* The ledger keeps the promise of ThresholdLedger.
LedgerSpec == Consequences!Spec
=============================================================================
