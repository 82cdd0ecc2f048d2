------------------------ MODULE DisciplineTx_proofs ------------------------
(***************************************************************************)
(* Excessive transfers, for any managers, Gameweeks and costs.             *)
(*                                                                         *)
(* First Discipline, where every request and every tick runs alone: its    *)
(* invariants, its action property, and that its ledger implements         *)
(* ThresholdLedger.  Then what is left of it once its transactions         *)
(* overlap, for any number of reviews and any publication: the ledger      *)
(* still implements ThresholdLedger and has its effects, and the deduction *)
(* a manager carries still names a case that is there.  That whatever is   *)
(* due is recorded is not among it (DueOnceQuiet), nor that a decision     *)
(* stands.                                                                 *)
(***************************************************************************)
EXTENDS DisciplineTx, TLAPS, FunctionTheorems, FiniteSetTheorems

-----------------------------------------------------------------------------
(* One transaction at a time: Discipline.                                   *)

IInv ==
  /\ TypeOK
  /\ DetectionIsCurrent
  /\ ConfirmedFollowsStatus
  /\ DueIsOnRecord
  /\ LedgerHasItsEffects

-----------------------------------------------------------------------------
(* The rules. *)

\* The formula raises the units that cover the excess, none to spare
\* (domain/violations.py transfer_hit_violation_count).
LEMMA UnitsCover ==
  ASSUME NEW cost \in Nat
  PROVE  Units(cost) \in Nat /\ Covers(Units(cost), cost)
<1>1. CASE cost <= 8
  BY <1>1 DEF Units, Covers
<1>2. CASE cost > 8
  <2>1. (cost - 1) \div 8 \in Nat /\ 8 * ((cost - 1) \div 8) <= cost - 1
        /\ cost - 1 < 8 * ((cost - 1) \div 8) + 8
    BY <1>2
  <2>. QED BY <1>2, <2>1 DEF Units, Covers
<1>. QED BY <1>1, <1>2

\* A cost over the limit raises at least one unit.
LEMMA UnitsPositive ==
  ASSUME NEW cost \in Nat, Units(cost) # 0
  PROVE  Units(cost) \in Nat \ {0}
BY UnitsCover

\* What a case counts for is a count.
LEMMA EffectiveType ==
  ASSUME NEW status \in Statuses, NEW detected \in Nat, NEW override \in Nat
  PROVE  Effective(status, detected, override) \in Nat
BY DEF Effective

\* A manager's total is a natural number, so its thresholds are ordered.
LEMMA TotalType ==
  ASSUME NEW rows \in [Cases -> Violation \cup {NoRow}], NEW m \in Managers
  PROVE  Total(rows, m) \in Nat
<1> DEFINE confirmed == ConfirmedIn(rows, m)
           blocks == {{g} \X (1..confirmed[g]) : g \in Gameweeks}
           block == [g \in Gameweeks |-> {g} \X (1..confirmed[g])]
<1>1. \A g \in Gameweeks : confirmed[g] \in Nat
  BY DEF ConfirmedIn, Violation, Cases
<1>2. \A g \in Gameweeks : IsFiniteSet({g} \X (1..confirmed[g]))
  <2>1. ASSUME NEW g \in Gameweeks
        PROVE  IsFiniteSet({g} \X (1..confirmed[g]))
    <3>1. confirmed[g] \in Int /\ 1 \in Int
      BY <1>1
    <3>2. IsFiniteSet(1..confirmed[g]) /\ IsFiniteSet({g})
      BY <3>1, FS_Interval, FS_Singleton
    <3>. QED BY <3>2, FS_Product
  <2>. QED BY <2>1
<1>3. block \in Surjection(Gameweeks, blocks)
  BY DEF Surjection
<1>4. IsFiniteSet(blocks)
  BY <1>3, GameweeksAssumption, FS_Surjection
<1>5. IsFiniteSet(UNION blocks)
  BY <1>2, <1>4, FS_UNION
<1>. QED BY <1>5, FS_CardinalityType DEF Total, ConfirmedUnits

\* Thresholds are cumulative, and three is the last.
LEMMA DueOfTotal ==
  ASSUME NEW total \in Nat
  PROVE  /\ total = 0 => Due(total) = {}
         /\ total > 0 => \E n \in 1..3 : Due(total) = Due(n)
         /\ total > 0 => "h2h_table_deduction" \in Due(total)
<1>1. CASE total = 0
  BY <1>1 DEF Due, Consequences!Due, Consequences!ThresholdFor, Consequences!Actions
<1>2. CASE total > 0
  <2> DEFINE n == IF total < 3 THEN total ELSE 3
  <2>1. n \in 1..3
    BY <1>2
  <2>2. \A action \in Consequences!Actions :
          Consequences!ThresholdFor[action] \in 1..3
    BY DEF Consequences!ThresholdFor, Consequences!Actions
  <2>3. Due(total) = Due(n)
    BY <2>1, <2>2 DEF Due, Consequences!Due
  <2>4. "h2h_table_deduction" \in Due(total)
    BY <1>2 DEF Due, Consequences!Due, Consequences!ThresholdFor, Consequences!Actions
  <2>. QED BY <1>2, <2>1, <2>3, <2>4
<1>. QED BY <1>1, <1>2

-----------------------------------------------------------------------------
(* Detection. *)

\* One pass over one case: its type, what it shows, and that a decided case
\* is left as it is while an undecided one counts for nothing.
LEMMA DetectedCase ==
  ASSUME NEW row \in Violation \cup {NoRow}, NEW cost \in Nat \cup {NoRow}
  PROVE  /\ Detected(row, cost) \in Violation \cup {NoRow}
         /\ row # NoRow /\ row.status # "detected" => Detected(row, cost) = row
         /\ row = NoRow \/ row.status = "detected" =>
              \/ Detected(row, cost) = row
              \/ Detected(row, cost) = NoRow
              \/ /\ Detected(row, cost) # NoRow
                 /\ Detected(row, cost).status = "detected"
                 /\ Detected(row, cost).confirmed =
                      IF row = NoRow THEN 0 ELSE row.confirmed
         /\ cost # NoRow =>
              \/ Detected(row, cost) = NoRow /\ Covers(0, cost)
              \/ Detected(row, cost) # NoRow /\ Detected(row, cost).status # "detected"
              \/ /\ Detected(row, cost) # NoRow /\ Detected(row, cost).detected > 0
                 /\ Covers(Detected(row, cost).detected, cost)
<1>1. NoRow \notin Nat /\ NoRow \notin Violation
  BY NoRowAssumption
<1>2. CASE cost = NoRow \/ (row # NoRow /\ row.status # "detected")
  BY <1>1, <1>2 DEF Detected
<1>3. CASE cost # NoRow /\ (row = NoRow \/ row.status = "detected")
  <2>1. Units(cost) \in Nat /\ Covers(Units(cost), cost)
    BY <1>3, UnitsCover
  <2>2. CASE Units(cost) = 0
    BY <1>3, <2>1, <2>2 DEF Detected
  <2>3. CASE Units(cost) # 0
    <3>1. Units(cost) \in Nat \ {0}
      BY <2>1, <2>3
    <3>2. CASE row = NoRow
      <4> DEFINE raised == [detected |-> Units(cost), confirmed |-> 0,
                            status |-> "detected"]
      <4>1. Detected(row, cost) = raised
        BY <1>3, <2>3, <3>2 DEF Detected
      <4>2. raised \in Violation
        BY <3>1 DEF Violation, Statuses
      <4>. QED BY <1>1, <2>1, <3>1, <3>2, <4>1, <4>2
    <3>3. CASE row # NoRow
      <4> DEFINE corrected == [row EXCEPT !.detected = Units(cost)]
      <4>1. Detected(row, cost) = corrected
        BY <1>3, <2>3, <3>3 DEF Detected
      <4>2. /\ corrected \in Violation /\ corrected.detected = Units(cost)
            /\ corrected.status = row.status /\ corrected.confirmed = row.confirmed
        BY <3>1, <3>3 DEF Violation
      <4>. QED BY <1>1, <1>3, <2>1, <3>1, <3>3, <4>1, <4>2
    <3>. QED BY <3>2, <3>3
  <2>. QED BY <2>2, <2>3
<1>. QED BY <1>2, <1>3

-----------------------------------------------------------------------------
(* The invariant. *)

\* The season begins with no case and no consequence.
LEMMA InitInvariant == Init => IInv
<1> SUFFICES ASSUME Init PROVE IInv
  OBVIOUS
<1>1. \A m \in Managers : Total(violations, m) = 0
  <2>1. ASSUME NEW m \in Managers
        PROVE  ConfirmedUnits(ConfirmedIn(violations, m)) = {}
    <3>1. \A g \in Gameweeks : ConfirmedIn(violations, m)[g] = 0
      BY DEF Init, ConfirmedIn, Cases
    <3>2. \A g \in Gameweeks : {g} \X (1..ConfirmedIn(violations, m)[g]) = {}
      BY <3>1
    <3>. QED BY <3>2 DEF ConfirmedUnits
  <2>. QED BY <2>1, FS_EmptySet DEF Total
<1>2. DueIsOnRecord
  BY <1>1, DueOfTotal DEF DueIsOnRecord
<1>3. TypeOK /\ LedgerHasItsEffects
  BY DEF Init, Consequences!Init, TypeOK, LedgerHasItsEffects
<1>4. DetectionIsCurrent /\ ConfirmedFollowsStatus
  BY DEF Init, DetectionIsCurrent, ConfirmedFollowsStatus
<1>. QED BY <1>2, <1>3, <1>4 DEF IInv

\* A tick changes no count that matters, so nothing becomes due by it
\* (services/violations.py detect_transfer_violations).
LEMMA TickInvariant ==
  ASSUME IInv, NEW c \in Cases, NEW cost \in Costs, Tick(c, cost)
  PROVE  IInv' /\ \A m \in Managers : Total(violations', m) = Total(violations, m)
<1>1. /\ costs' \in [Cases -> Costs \cup {NoRow}]
      /\ \A k \in Cases : costs'[k] \in Nat \cup {NoRow}
  BY CostsAssumption DEF IInv, TypeOK, Tick
<1>2. /\ violations \in [Cases -> Violation \cup {NoRow}]
      /\ violations' = [k \in Cases |-> Detected(violations[k], costs'[k])]
  BY DEF IInv, TypeOK, Tick
<1>3. violations' \in [Cases -> Violation \cup {NoRow}]
  BY <1>1, <1>2, DetectedCase
<1>4. ASSUME NEW k \in Cases, violations[k] # NoRow, violations[k].status = "detected"
      PROVE  violations[k].confirmed = 0
  BY <1>4 DEF IInv, ConfirmedFollowsStatus
<1>5. ASSUME NEW m \in Managers
      PROVE  ConfirmedIn(violations', m) = ConfirmedIn(violations, m)
  <2>1. ASSUME NEW g \in Gameweeks
        PROVE  (IF violations'[<<m, g>>] = NoRow THEN 0
                ELSE violations'[<<m, g>>].confirmed)
             = (IF violations[<<m, g>>] = NoRow THEN 0
                ELSE violations[<<m, g>>].confirmed)
    <3> DEFINE k == <<m, g>>
    <3>1. k \in Cases
      BY DEF Cases
    <3>2. violations'[k] = Detected(violations[k], costs'[k])
      BY <1>2, <3>1
    <3> HIDE DEF k
    <3>3. (IF violations'[k] = NoRow THEN 0 ELSE violations'[k].confirmed)
        = (IF violations[k] = NoRow THEN 0 ELSE violations[k].confirmed)
      BY <1>1, <1>2, <1>4, <3>1, <3>2, DetectedCase
    <3>. QED BY <3>3 DEF k
  <2>. QED BY <2>1 DEF ConfirmedIn
<1>6. \A m \in Managers : Total(violations', m) = Total(violations, m)
  BY <1>5 DEF Total
<1>7. TypeOK'
  BY <1>1, <1>3 DEF IInv, TypeOK, Tick, consequences
<1>8. DetectionIsCurrent'
  BY <1>1, <1>2, DetectedCase DEF DetectionIsCurrent
<1>9. ConfirmedFollowsStatus'
  <2> SUFFICES ASSUME NEW k \in Cases, violations'[k] # NoRow,
                      violations'[k].status # "overridden"
               PROVE  violations'[k].confirmed =
                        IF violations'[k].status \in {"confirmed", "rejected"}
                        THEN violations'[k].detected ELSE 0
    BY DEF ConfirmedFollowsStatus
  <2>1. violations'[k] = Detected(violations[k], costs'[k])
        /\ violations[k] \in Violation \cup {NoRow} /\ costs'[k] \in Nat \cup {NoRow}
    BY <1>1, <1>2
  <2>2. CASE violations'[k] = violations[k]
    BY <2>2 DEF IInv, ConfirmedFollowsStatus
  <2>3. CASE violations'[k] # violations[k]
    <3>1. violations[k] = NoRow \/ violations[k].status = "detected"
      BY <2>1, <2>3, DetectedCase
    <3>2. violations'[k].status = "detected"
          /\ violations'[k].confirmed =
               IF violations[k] = NoRow THEN 0 ELSE violations[k].confirmed
      BY <2>1, <2>3, <3>1, DetectedCase
    <3>. QED BY <1>4, <3>1, <3>2
  <2>. QED BY <2>2, <2>3
<1>10. DueIsOnRecord' /\ LedgerHasItsEffects'
  BY <1>6 DEF IInv, DueIsOnRecord, LedgerHasItsEffects, Tick, consequences
<1>. QED BY <1>6, <1>7, <1>8, <1>9, <1>10 DEF IInv

\* What a review leaves: one case decided, and on record everything the new
\* total is due for (services/admin.py review_violation).
LEMMA ReviewOutcome ==
  ASSUME IInv, NEW c \in Cases, NEW review \in Reviews,
         NEW override \in 0..MaxOverride, Review(c, review, override)
  PROVE  /\ violations' \in [Cases -> Violation \cup {NoRow}]
         /\ violations[c] # NoRow /\ violations'[c] # NoRow
         /\ violations'[c].detected = violations[c].detected
         /\ \E t \in Transitions :
              /\ t[1] = violations[c].status /\ t[3] = violations'[c].status
              /\ violations'[c].confirmed =
                   Effective(t[3], violations[c].detected, override)
         /\ violations'[c].status # "detected"
         /\ \A k \in Cases \ {c} : violations'[k] = violations[k]
         /\ \A m \in Managers \ {c[1]} : Total(violations', m) = Total(violations, m)
<1>1. violations \in [Cases -> Violation \cup {NoRow}] /\ violations[c] # NoRow
  BY DEF IInv, TypeOK, Review
<1>2. PICK t \in Transitions :
        /\ t[1] = violations[c].status
        /\ violations' = [violations EXCEPT ![c] = Decided(@, t[3], override)]
  BY DEF Review
<1>3. violations[c] \in Violation /\ NoRow \notin Violation
  BY <1>1, NoRowAssumption
<1>4. t[3] \in Statuses \ {"detected"}
  BY DEF Transitions, Statuses
<1>5. Effective(t[3], violations[c].detected, override) \in Nat
  <2>1. violations[c].detected \in Nat /\ override \in Nat /\ t[3] \in Statuses
    BY <1>3, <1>4, OverrideAssumption DEF Violation
  <2>. QED BY <2>1, EffectiveType
<1>6. /\ Decided(violations[c], t[3], override) \in Violation
      /\ Decided(violations[c], t[3], override).status = t[3]
      /\ Decided(violations[c], t[3], override).detected = violations[c].detected
      /\ Decided(violations[c], t[3], override).confirmed =
           Effective(t[3], violations[c].detected, override)
  BY <1>3, <1>4, <1>5 DEF Decided, Violation
<1>7. /\ violations'[c] = Decided(violations[c], t[3], override)
      /\ \A k \in Cases \ {c} : violations'[k] = violations[k]
      /\ violations' \in [Cases -> Violation \cup {NoRow}]
  BY <1>1, <1>2, <1>6
<1>8. ASSUME NEW m \in Managers \ {c[1]}
      PROVE  Total(violations', m) = Total(violations, m)
  <2>1. \A g \in Gameweeks : violations'[<<m, g>>] = violations[<<m, g>>]
    BY <1>7 DEF Cases
  <2>2. ConfirmedIn(violations', m) = ConfirmedIn(violations, m)
    BY <2>1 DEF ConfirmedIn
  <2>. QED BY <2>2 DEF Total
<1>. QED BY <1>1, <1>2, <1>3, <1>4, <1>6, <1>7, <1>8

-----------------------------------------------------------------------------
(* Consequences. *)

Tables ==
  /\ ledger \in [Managers -> SUBSET Consequences!Actions]
  /\ deductions \in [Managers -> 0..1]
  /\ removed \subseteq Managers /\ byHand \subseteq Managers

\* A threshold reached keeps the tables and gives the ledger its effects.
LEMMA ReachKeepsEffects ==
  ASSUME Tables, LedgerHasItsEffects, NEW m \in Managers, NEW n \in 1..3,
         Consequences!Reach(m, n)
  PROVE  Tables' /\ LedgerHasItsEffects'
<1> DEFINE due == Consequences!Due(n)
           out == "removed_from_competition"
<1>1. "h2h_table_deduction" \in due /\ due \subseteq Consequences!Actions
  BY DEF Consequences!Due, Consequences!ThresholdFor, Consequences!Actions
<1>2. /\ ledger' = [ledger EXCEPT ![m] = @ \cup due]
      /\ deductions' = [deductions EXCEPT ![m] = 1]
      /\ out \in due \ ledger[m] =>
           removed' = removed \cup {m} \/ (m \in byHand /\ removed' = removed)
      /\ out \notin due \ ledger[m] => removed' = removed
      /\ byHand' = byHand
  BY DEF Consequences!Reach
<1> HIDE DEF due
<1>3. removed \subseteq removed' /\ removed' \subseteq removed \cup {m}
  BY <1>2
<1>4. Tables'
  BY <1>1, <1>2, <1>3 DEF Tables
<1>5. ASSUME NEW k \in Managers
      PROVE  deductions'[k] = IF "h2h_table_deduction" \in ledger'[k] THEN 1 ELSE 0
  BY <1>1, <1>2 DEF Tables, LedgerHasItsEffects
<1>6. ASSUME NEW k \in Managers, k \notin byHand'
      PROVE  k \in removed' <=> out \in ledger'[k]
  <2>1. k \in removed <=> out \in ledger[k]
    BY <1>2, <1>6 DEF LedgerHasItsEffects
  <2>2. CASE k # m
    <3>1. ledger'[k] = ledger[k]
      BY <1>2, <2>2 DEF Tables
    <3>. QED BY <1>3, <2>1, <2>2, <3>1
  <2>3. CASE k = m
    <3>1. ledger'[m] = ledger[m] \cup due
      BY <1>2 DEF Tables
    <3>2. CASE out \in due \ ledger[m]
      <4>1. removed' = removed \cup {m}
        BY <1>2, <1>6, <2>3, <3>2
      <4>. QED BY <2>3, <3>1, <3>2, <4>1
    <3>3. CASE out \notin due \ ledger[m]
      <4>1. removed' = removed
        BY <1>2, <3>3
      <4>. QED BY <2>1, <2>3, <3>1, <3>3, <4>1
    <3>. QED BY <3>2, <3>3
  <2>. QED BY <2>2, <2>3
<1>. QED BY <1>4, <1>5, <1>6 DEF LedgerHasItsEffects

\* A status set by hand keeps them too: it is excepted from then on.
LEMMA HandKeepsEffects ==
  ASSUME Tables, LedgerHasItsEffects, NEW m \in Managers, UpdateManager(m)
  PROVE  Tables' /\ LedgerHasItsEffects'
<1>1. /\ ledger' = ledger /\ deductions' = deductions /\ byHand' = byHand \cup {m}
      /\ removed' \subseteq removed \cup {m} /\ removed \subseteq removed' \cup {m}
  BY DEF UpdateManager
<1>2. Tables'
  BY <1>1 DEF Tables
<1>3. ASSUME NEW k \in Managers, k \notin byHand'
      PROVE  k \in removed' <=> "removed_from_competition" \in ledger'[k]
  BY <1>1, <1>3 DEF LedgerHasItsEffects
<1>4. \A k \in Managers :
        deductions'[k] = IF "h2h_table_deduction" \in ledger'[k] THEN 1 ELSE 0
  BY <1>1 DEF LedgerHasItsEffects
<1>. QED BY <1>2, <1>3, <1>4 DEF LedgerHasItsEffects

\* What a decision brings once its actions outstanding are, with what is recorded,
\* those some total is due for: nothing, or one threshold reached.
LEMMA AppliedIsReached ==
  ASSUME Tables, LedgerHasItsEffects, NEW m \in Managers,
         NEW due \in SUBSET Consequences!Actions, NEW out,
         due \cap ledger[m] = {},
         out => m \in removed \cup byHand,
         NEW total \in Nat, due \subseteq Due(total), Due(total) \subseteq due \cup ledger[m],
         Apply(m, due, out)
  PROVE  \/ UNCHANGED consequences
         \/ \E n \in 1..3 : Consequences!Reach(m, n)
<1>1. /\ ledger' = [ledger EXCEPT ![m] = @ \cup due]
      /\ deductions' = IF "h2h_table_deduction" \in due
                       THEN [deductions EXCEPT ![m] = @ + 1] ELSE deductions
      /\ removed' = IF "removed_from_competition" \in due /\ ~out
                    THEN removed \cup {m} ELSE removed
      /\ byHand' = byHand
  BY DEF Apply
<1>2. /\ ledger[m] \subseteq Consequences!Actions /\ deductions[m] \in 0..1
      /\ deductions[m] = IF "h2h_table_deduction" \in ledger[m] THEN 1 ELSE 0
  BY DEF Tables, LedgerHasItsEffects
<1>3. CASE due = {}
  <2>1. ledger' = ledger
    BY <1>1, <1>3 DEF Tables
  <2>2. deductions' = deductions /\ removed' = removed
    BY <1>1, <1>3
  <2>. QED BY <1>1, <2>1, <2>2 DEF consequences
<1>4. CASE due # {}
  <2>1. total > 0
    BY <1>4, DueOfTotal
  <2>2. PICK n \in 1..3 : Due(total) = Due(n)
    BY <2>1, DueOfTotal
  <2>3. "h2h_table_deduction" \in Due(n)
    BY <2>1, <2>2, DueOfTotal
  <2>4. ledger' = [ledger EXCEPT ![m] = @ \cup Due(n)]
    <3>1. ledger[m] \cup due = ledger[m] \cup Due(n)
      BY <2>2
    <3>. QED BY <1>1, <3>1 DEF Tables
  <2>5. deductions' = [deductions EXCEPT ![m] = 1]
    <3>1. CASE "h2h_table_deduction" \in ledger[m]
      <4>1. deductions' = deductions /\ deductions[m] = 1
        BY <1>1, <1>2, <3>1
      <4>2. deductions = [deductions EXCEPT ![m] = 1]
        BY <4>1 DEF Tables
      <4>. QED BY <4>1, <4>2
    <3>2. CASE "h2h_table_deduction" \notin ledger[m]
      <4>1. "h2h_table_deduction" \in due /\ deductions[m] = 0
        BY <1>2, <2>2, <2>3, <3>2
      <4>2. deductions' = [deductions EXCEPT ![m] = deductions[m] + 1]
        BY <1>1, <4>1
      <4>. QED BY <4>1, <4>2
    <3>. QED BY <3>1, <3>2
  <2>6. Due(n) \ ledger[m] = due
    BY <2>2
  <2>7. IF "removed_from_competition" \in Due(n) \ ledger[m]
        THEN removed' = removed \cup {m} \/ (m \in byHand /\ removed' = removed)
        ELSE removed' = removed
    <3>1. CASE "removed_from_competition" \in due /\ out
      <4>1. removed' = removed /\ m \in removed \cup byHand
        BY <1>1, <3>1
      <4>. QED BY <2>6, <3>1, <4>1
    <3>2. CASE "removed_from_competition" \in due /\ ~out
      BY <1>1, <2>6, <3>2
    <3>3. CASE "removed_from_competition" \notin due
      BY <1>1, <2>6, <3>3
    <3>. QED BY <3>1, <3>2, <3>3
  <2>8. ~(Due(n) \subseteq ledger[m])
    BY <1>4, <2>6
  <2>9. Consequences!Reach(m, n)
    BY <1>1, <2>4, <2>5, <2>7, <2>8 DEF Consequences!Reach, Due
  <2>. QED BY <2>9
<1>. QED BY <1>3, <1>4

\* How a review's consequences look: none, or one threshold reached.
LEMMA ReviewConsequences ==
  ASSUME IInv, NEW c \in Cases, NEW review \in Reviews,
         NEW override \in 0..MaxOverride, Review(c, review, override)
  PROVE  /\ ledger' = [ledger EXCEPT ![c[1]] = @ \cup Due(Total(violations', c[1]))]
         /\ \/ UNCHANGED consequences
            \/ \E n \in 1..3 : Consequences!Reach(c[1], n)
<1> DEFINE m == c[1]
           total == Total(violations', m)
           outstanding == Due(total) \ ledger[m]
<1>1. m \in Managers /\ total \in Nat
  BY ReviewOutcome, TotalType DEF Cases
<1>2. Apply(m, outstanding, m \in removed)
  BY DEF Review
<1>3. Tables /\ LedgerHasItsEffects
  BY DEF IInv, TypeOK, Tables
<1>4. outstanding \in SUBSET Consequences!Actions
  BY DEF Due, Consequences!Due
<1>5. /\ outstanding \cap ledger[m] = {}
      /\ outstanding \subseteq Due(total) /\ Due(total) \subseteq outstanding \cup ledger[m]
  OBVIOUS
<1>6. ledger' = [ledger EXCEPT ![m] = @ \cup Due(total)]
  <2>1. ledger' = [ledger EXCEPT ![m] = @ \cup outstanding]
    BY <1>2 DEF Apply
  <2>2. ledger[m] \cup outstanding = ledger[m] \cup Due(total)
    OBVIOUS
  <2>. QED BY <1>1, <1>3, <2>1, <2>2 DEF Tables
<1> HIDE DEF outstanding, total, m
<1>7. UNCHANGED consequences \/ \E n \in 1..3 : Consequences!Reach(m, n)
  BY <1>1, <1>2, <1>3, <1>4, <1>5, AppliedIsReached
<1>. QED BY <1>6, <1>7 DEF total, m

\* A review keeps the invariant.
LEMMA ReviewInvariant ==
  ASSUME IInv, NEW c \in Cases, NEW review \in Reviews,
         NEW override \in 0..MaxOverride, Review(c, review, override)
  PROVE  IInv'
<1>1. c[1] \in Managers /\ costs' = costs
  BY DEF Cases, Review
<1>2. ledger' = [ledger EXCEPT ![c[1]] = @ \cup Due(Total(violations', c[1]))]
  BY ReviewConsequences
<1>3. Tables /\ LedgerHasItsEffects
  BY DEF IInv, TypeOK, Tables
<1>4. Tables' /\ LedgerHasItsEffects'
  <2>1. CASE UNCHANGED consequences
    BY <1>3, <2>1 DEF Tables, LedgerHasItsEffects, consequences
  <2>2. CASE \E n \in 1..3 : Consequences!Reach(c[1], n)
    BY <1>1, <1>3, <2>2, ReachKeepsEffects
  <2>. QED BY <2>1, <2>2, ReviewConsequences
<1>5. TypeOK'
  BY <1>1, <1>4, ReviewOutcome DEF IInv, TypeOK, Tables
<1>6. DueIsOnRecord'
  <2>1. \A m \in Managers \ {c[1]} : Total(violations', m) = Total(violations, m)
    BY ReviewOutcome
  <2>. QED BY <1>1, <1>2, <2>1 DEF IInv, TypeOK, DueIsOnRecord
<1>7. DetectionIsCurrent'
  BY <1>1, ReviewOutcome DEF IInv, DetectionIsCurrent
<1>8. ConfirmedFollowsStatus'
  <2>1. PICK t \in Transitions :
          /\ t[3] = violations'[c].status
          /\ violations'[c].confirmed = Effective(t[3], violations[c].detected, override)
    BY ReviewOutcome
  <2>2. violations'[c].detected = violations[c].detected
        /\ \A k \in Cases \ {c} : violations'[k] = violations[k]
    BY ReviewOutcome
  <2>. QED BY <2>1, <2>2 DEF Effective, IInv, ConfirmedFollowsStatus
<1>. QED BY <1>4, <1>5, <1>6, <1>7, <1>8 DEF IInv

\* A status set by hand keeps it.
LEMMA HandInvariant ==
  ASSUME IInv, NEW m \in Managers, UpdateManager(m)
  PROVE  IInv'
<1>1. Tables' /\ LedgerHasItsEffects'
  BY HandKeepsEffects DEF IInv, TypeOK, Tables
<1>2. UNCHANGED <<costs, violations, ledger>>
  BY DEF UpdateManager
<1>. QED BY <1>1, <1>2 DEF IInv, TypeOK, Tables, DetectionIsCurrent,
                           ConfirmedFollowsStatus, DueIsOnRecord

\* Every step keeps the invariant.
LEMMA StepInvariant == IInv /\ [Next]_vars => IInv'
<1> SUFFICES ASSUME IInv, [Next]_vars PROVE IInv'
  OBVIOUS
<1>1. ASSUME NEW c \in Cases, NEW cost \in Costs, Tick(c, cost) PROVE IInv'
  BY <1>1, TickInvariant
<1>2. ASSUME NEW c \in Cases, NEW review \in Reviews,
             NEW override \in 0..MaxOverride, Review(c, review, override)
      PROVE  IInv'
  BY <1>2, ReviewInvariant
<1>3. ASSUME NEW m \in Managers, UpdateManager(m) PROVE IInv'
  BY <1>3, HandInvariant
<1>4. CASE UNCHANGED vars
  BY <1>4 DEF vars, consequences, IInv, TypeOK, DetectionIsCurrent,
              ConfirmedFollowsStatus, DueIsOnRecord, LedgerHasItsEffects
<1>. QED BY <1>1, <1>2, <1>3, <1>4 DEF Next

-----------------------------------------------------------------------------
(* The results. *)

\* Every reachable state satisfies the inductive invariant.
THEOREM Invariant == Spec => []IInv
BY InitInvariant, StepInvariant, PTL DEF Spec

\* While decisions come one after another, no consequence a total is due for is left
\* off the record, however many thresholds one of them crosses and whatever is
\* overridden (services/violations.py apply_threshold_actions).
THEOREM NothingLeftBehind == Spec => []DueIsOnRecord
<1>1. IInv => DueIsOnRecord
  BY DEF IInv
<1>. QED BY <1>1, Invariant, PTL

\* Every table keeps its shape, for any league and any set of costs.
THEOREM TypeCorrect == Spec => []TypeOK
<1>1. IInv => TypeOK
  BY DEF IInv
<1>. QED BY <1>1, Invariant, PTL

\* Open cases show the published cost, and only upheld cases count.
THEOREM CasesAreTrue == Spec => []CasesFollowTheRules
<1>1. IInv => CasesFollowTheRules
  BY DEF IInv, CasesFollowTheRules
<1>. QED BY <1>1, Invariant, PTL

\* A review records no consequence that the total it has just brought about does not
\* call for, and detection records none at all.
THEOREM RecordedWhenDue == Spec => RecordedOnlyWhenDue
<1>1. ASSUME IInv, [Next]_vars, NEW m \in Managers, NEW action \in ledger'[m] \ ledger[m]
      PROVE  Total(violations', m) >= Consequences!ThresholdFor[action]
  <2>1. ASSUME NEW c \in Cases, NEW review \in Reviews, NEW override \in 0..MaxOverride,
               Review(c, review, override)
        PROVE  Total(violations', m) >= Consequences!ThresholdFor[action]
    <3>1. ledger' = [ledger EXCEPT ![c[1]] = @ \cup Due(Total(violations', c[1]))]
      BY <1>1, <2>1, ReviewConsequences
    <3>2. m = c[1] /\ action \in Due(Total(violations', c[1]))
      BY <1>1, <3>1 DEF IInv, TypeOK
    <3>. QED BY <3>2 DEF Due, Consequences!Due
  <2>2. ASSUME NEW c \in Cases, NEW cost \in Costs, Tick(c, cost)
        PROVE  ledger' = ledger
    BY <2>2 DEF Tick, consequences
  <2>3. ASSUME NEW k \in Managers, UpdateManager(k) PROVE ledger' = ledger
    BY <2>3 DEF UpdateManager
  <2>4. CASE UNCHANGED vars
    BY <1>1, <2>4 DEF vars, consequences
  <2>. QED BY <1>1, <2>1, <2>2, <2>3, <2>4 DEF Next
<1>2. IInv /\ [Next]_vars =>
        [\A m \in Managers : \A action \in ledger'[m] \ ledger[m] :
           Total(violations', m) >= Consequences!ThresholdFor[action]]_vars
  BY <1>1
<1>. QED BY <1>2, Invariant, PTL DEF Spec, RecordedOnlyWhenDue

\* Discipline implements ThresholdLedger: consequences come by whole
\* thresholds, once, for good, and together with their effects, also beside
\* organisers who set statuses by hand.
THEOREM ImplementsLedger == Spec => LedgerSpec
<1>1. Init => Consequences!Init
  BY DEF Init
<1>2. ASSUME IInv, [Next]_vars
      PROVE  [Consequences!Next]_(Consequences!ledgerVars)
  <2>1. ASSUME NEW c \in Cases, NEW cost \in Costs, Tick(c, cost)
        PROVE  UNCHANGED consequences
    BY <2>1 DEF Tick
  <2>2. ASSUME NEW c \in Cases, NEW review \in Reviews,
               NEW override \in 0..MaxOverride, Review(c, review, override)
        PROVE  \/ UNCHANGED consequences
               \/ Consequences!Next
    <3>1. c[1] \in Managers
      BY DEF Cases
    <3>. QED BY <1>2, <2>2, <3>1, ReviewConsequences DEF Consequences!Next
  <2>3. ASSUME NEW m \in Managers, UpdateManager(m) PROVE Consequences!Next
    BY <2>3 DEF UpdateManager, Consequences!Next, Consequences!SetByHand
  <2>. QED BY <1>2, <2>1, <2>2, <2>3 DEF Next, vars, consequences, Consequences!ledgerVars
<1>. QED BY <1>1, <1>2, Invariant, PTL DEF Spec, LedgerSpec, Consequences!Spec
-----------------------------------------------------------------------------
(* Transactions overlap: DisciplineTx.                                       *)

Rows == [Cases -> Violation \cup {NoRow}]

Reading  == [pc : {"read", "written"}, case : Cases, status : Statuses,
             was : Nat, confirmed : Nat]
Deciding == [pc : {"counted", "planned", "inserted"}, case : Cases, status : Statuses,
             was : Nat, confirmed : Nat, due : SUBSET Consequences!Actions,
             out : BOOLEAN]

TxShape ==
  /\ tick \in {Idle} \cup [pc : {"read", "flushed"}, costs : Publications, seen : Rows]
  /\ request \in [Requests -> {Idle} \cup Reading \cup Deciding]
  /\ blamed \in [Managers -> Cases \cup {NoRow}]

\* A row somebody has locked, or the synchronisation has seen, is still there,
\* and no row is locked by both sides.
LocksHold ==
  /\ \A r \in Requests : \A c \in LockedBy(r) : violations[c] # NoRow
  /\ tick.pc = "flushed" => \A r \in Requests : LockedBy(r) \cap Written(tick) = {}
  /\ tick.pc # "idle" => \A c \in Cases : tick.seen[c] # NoRow => violations[c] # NoRow

\* What a review means to record, with what is recorded already, is what some
\* total is due for.
Planned(due, recorded) ==
  \E total \in Nat : due \subseteq Due(total) /\ Due(total) \subseteq due \cup recorded

\* Nobody else records what a review has inserted, and only an organiser takes back
\* somebody it has read as out.
DuesHold ==
  /\ \A r \in Requests :
       request[r].pc \in {"counted", "planned", "inserted"}
         => Planned(request[r].due, ledger[request[r].case[1]])
  /\ \A r \in Requests :
       request[r].pc = "inserted" =>
         /\ request[r].due \cap ledger[request[r].case[1]] = {}
         /\ request[r].out => request[r].case[1] \in removed \cup byHand
  /\ \A q, r \in Requests :
       request[q].pc = "inserted" /\ request[r].pc = "inserted" /\ q # r
         => ~Contend(request[q], request[r])

\* A case the synchronisation is about to delete is blamed for nothing.
BlameHolds ==
  /\ DeductionIsExplained
  /\ tick.pc = "flushed" => \A m \in Managers : blamed[m] \notin Deleted(tick)

TxInv ==
  /\ TypeOK /\ LedgerHasItsEffects
  /\ TxShape /\ LocksHold /\ DuesHold /\ BlameHolds

-----------------------------------------------------------------------------
(* Rows. *)

\* A review between its first statement and its commit has the shape of its step.
LEMMA RequestAt ==
  ASSUME TxShape, NEW r \in Requests
  PROVE  /\ request[r].pc \in {"read", "written"} => request[r] \in Reading
         /\ request[r].pc \in {"counted", "planned", "inserted"} => request[r] \in Deciding
         /\ request[r].pc \in {"idle", "read"} \cup InFlight
<1>1. request[r] \in {Idle} \cup Reading \cup Deciding
  BY DEF TxShape
<1>2. Idle.pc = "idle"
  BY DEF Idle
<1>3. \A q \in Reading : q.pc \in {"read", "written"}
  BY DEF Reading
<1>4. \A q \in Deciding : q.pc \in {"counted", "planned", "inserted"}
  BY DEF Deciding
<1>. QED BY <1>1, <1>2, <1>3, <1>4 DEF InFlight

\* A decision leaves a row a row, and the others alone.
LEMMA OwnType ==
  ASSUME violations \in Rows, NEW q, q.case \in Cases, q.status \in Statuses,
         q.confirmed \in Nat, violations[q.case] # NoRow
  PROVE  /\ Own(q) \in Rows
         /\ \A c \in Cases : Own(q)[c] = NoRow <=> violations[c] = NoRow
<1> DEFINE row == violations[q.case]
           decided == [row EXCEPT !.status = q.status,
                                  !.confirmed = IF q.confirmed = q.was THEN @ ELSE q.confirmed]
<1>1. row \in Violation
  BY DEF Rows
<1>2. decided \in Violation /\ decided # NoRow
  BY <1>1, NoRowAssumption DEF Violation
<1>3. Own(q) = [violations EXCEPT ![q.case] = decided]
  BY DEF Own
<1> HIDE DEF decided
<1>. QED BY <1>2, <1>3 DEF Rows

\* What a tick that flushed leaves of a row.
LEMMA FlushedType ==
  ASSUME TypeOK, TxShape, LocksHold, tick.pc = "flushed", NEW c \in Written(tick)
  PROVE  /\ Flushed(tick, c) \in Violation \cup {NoRow}
         /\ Flushed(tick, c) = NoRow => c \in Deleted(tick)
<1>1. c \in Cases /\ tick.seen[c] \in Violation \cup {NoRow} /\ tick.costs[c] \in Nat
  <2>1. tick.costs \in Publications /\ tick.seen \in Rows /\ c \in Cases
    BY DEF TxShape, Idle, Written
  <2>. QED BY <2>1, PublicationsAssumption, CostsAssumption DEF Rows
<1>2. Detected(tick.seen[c], tick.costs[c]) # tick.seen[c]
  BY DEF Written
<1>3. CASE tick.seen[c] = NoRow \/ c \in Deleted(tick)
  <2>1. Flushed(tick, c) = Detected(tick.seen[c], tick.costs[c])
    BY <1>3 DEF Flushed
  <2>. QED BY <1>1, <2>1, DetectedCase DEF Deleted
<1>4. CASE tick.seen[c] # NoRow /\ c \notin Deleted(tick)
  <2>1. violations[c] \in Violation
    BY <1>1, <1>4 DEF LocksHold, TypeOK
  <2>2. Detected(tick.seen[c], tick.costs[c]) # NoRow
    BY <1>4 DEF Deleted
  <2>3. Units(tick.costs[c]) # 0
    BY <1>2, <2>2 DEF Detected
  <2>4. Units(tick.costs[c]) \in Nat \ {0}
    BY <1>1, <2>3, UnitsPositive
  <2>5. Flushed(tick, c) = [violations[c] EXCEPT !.detected = Units(tick.costs[c])]
    BY <1>4 DEF Flushed
  <2>. QED BY <2>1, <2>4, <2>5, NoRowAssumption DEF Violation
<1>. QED BY <1>3, <1>4

-----------------------------------------------------------------------------
(* The synchronisation. *)

\* A step of a tick that writes nothing.
LEMMA TickReadsInvariant ==
  ASSUME TxInv, NEW publication \in Publications, TickReads(publication)
  PROVE  TxInv'
<1>1. /\ tick' = [pc |-> "read", costs |-> publication, seen |-> violations]
      /\ UNCHANGED <<vars, request, blamed>>
  BY DEF TickReads
<1>2. TypeOK' /\ LedgerHasItsEffects'
  BY <1>1 DEF TxInv, TypeOK, LedgerHasItsEffects, vars, consequences
<1>3. TxShape'
  <2>1. tick' \in [pc : {"read", "flushed"}, costs : Publications, seen : Rows]
    BY <1>1 DEF TxInv, TypeOK, Rows
  <2>. QED BY <1>1, <2>1 DEF TxInv, TxShape
<1>4. LocksHold'
  BY <1>1 DEF TxInv, LocksHold, LockedBy, vars
<1>5. DuesHold' /\ BlameHolds'
  BY <1>1 DEF TxInv, DuesHold, Planned, Contend, BlameHolds, DeductionIsExplained, vars, consequences
<1>. QED BY <1>2, <1>3, <1>4, <1>5 DEF TxInv

\* A tick that flushes meets no lock and deletes no case that is blamed.
LEMMA TickFlushesInvariant ==
  ASSUME TxInv, TickFlushes
  PROVE  TxInv'
<1>1. /\ tick.pc = "read" /\ UNCHANGED <<vars, request, blamed>>
      /\ \A r \in Requests : LockedBy(r) \cap Written(tick) = {}
      /\ \/ tick' = Idle
         \/ tick' = [tick EXCEPT !.pc = "flushed"] /\ \A m \in Managers : blamed[m] \notin Deleted(tick)
  BY DEF TickFlushes
<1>2. TypeOK' /\ LedgerHasItsEffects' /\ DuesHold' /\ DeductionIsExplained'
  BY <1>1 DEF TxInv, TypeOK, LedgerHasItsEffects, DuesHold, Planned, Contend,
              BlameHolds, DeductionIsExplained, vars, consequences
<1>3. CASE tick' = Idle
  BY <1>1, <1>2, <1>3 DEF TxInv, TxShape, LocksHold, LockedBy, BlameHolds, Idle, vars
<1>4. CASE tick' = [tick EXCEPT !.pc = "flushed"] /\ \A m \in Managers : blamed[m] \notin Deleted(tick)
  <2>1. tick \in [pc : {"read", "flushed"}, costs : Publications, seen : Rows]
    BY <1>1 DEF TxInv, TxShape, Idle
  <2>2. /\ tick' \in [pc : {"read", "flushed"}, costs : Publications, seen : Rows]
        /\ tick'.pc = "flushed" /\ tick'.seen = tick.seen /\ tick'.costs = tick.costs
    BY <1>4, <2>1
  <2>3. Written(tick') = Written(tick) /\ Deleted(tick') = Deleted(tick)
    BY <2>2 DEF Written, Deleted
  <2>4. TxShape'
    BY <1>1, <2>2 DEF TxInv, TxShape
  <2>5. LocksHold'
    BY <1>1, <2>2, <2>3 DEF TxInv, LocksHold, LockedBy, vars
  <2>6. BlameHolds'
    BY <1>1, <1>2, <1>4, <2>3 DEF BlameHolds
  <2>. QED BY <1>2, <2>4, <2>5, <2>6 DEF TxInv
<1>. QED BY <1>1, <1>3, <1>4

\* A tick that commits moves no row anybody has locked, and deletes none that a
\* deduction names.
LEMMA TickCommitsInvariant ==
  ASSUME TxInv, TickCommits
  PROVE  TxInv'
<1>1. /\ tick.pc = "flushed" /\ tick' = Idle /\ costs' = tick.costs
      /\ violations' = [c \in Cases |-> IF c \in Written(tick) THEN Flushed(tick, c)
                                        ELSE violations[c]]
      /\ UNCHANGED <<ledger, deductions, removed, byHand, request, blamed>>
  BY DEF TickCommits, consequences
<1>2. \A c \in Cases : violations'[c] \in Violation \cup {NoRow}
  BY <1>1, FlushedType DEF TxInv, TypeOK
<1>3. \A c \in Cases : violations'[c] = NoRow => violations[c] = NoRow \/ c \in Deleted(tick)
  BY <1>1, FlushedType DEF TxInv
<1>4. TypeOK' /\ LedgerHasItsEffects'
  <2>1. costs' \in [Cases -> Costs \cup {NoRow}]
    BY <1>1, PublicationsAssumption DEF TxInv, TxShape, Idle
  <2>2. violations' \in [Cases -> Violation \cup {NoRow}]
    BY <1>1, <1>2
  <2>. QED BY <1>1, <2>1, <2>2 DEF TxInv, TypeOK, LedgerHasItsEffects
<1>5. TxShape' /\ DuesHold'
  BY <1>1 DEF TxInv, TxShape, DuesHold, Planned, Contend
<1>6. LocksHold'
  <2>1. ASSUME NEW r \in Requests, NEW c \in LockedBy(r) PROVE violations'[c] # NoRow
    <3>1. c \in Cases
      BY RequestAt DEF TxInv, LockedBy, InFlight, Reading, Deciding
    <3>2. violations[c] # NoRow /\ c \notin Written(tick)
      BY <1>1 DEF TxInv, LocksHold
    <3>. QED BY <1>1, <3>1, <3>2
  <2>. QED BY <1>1, <2>1 DEF LocksHold, LockedBy, Idle
<1>7. BlameHolds'
  <2>1. ASSUME NEW m \in Managers, deductions[m] > 0
        PROVE  blamed[m] # NoRow /\ blamed[m][1] = m /\ violations'[blamed[m]] # NoRow
    <3>1. blamed[m] # NoRow /\ blamed[m][1] = m /\ violations[blamed[m]] # NoRow
      BY <2>1 DEF TxInv, BlameHolds, DeductionIsExplained
    <3>2. blamed[m] \in Cases /\ blamed[m] \notin Deleted(tick)
      BY <1>1, <3>1 DEF TxInv, TxShape, BlameHolds
    <3>. QED BY <1>3, <3>1, <3>2
  <2>. QED BY <1>1, <2>1 DEF BlameHolds, DeductionIsExplained, Idle
<1>. QED BY <1>4, <1>5, <1>6, <1>7 DEF TxInv

\* A tick that fails leaves everything as it was.
LEMMA TickFailsInvariant ==
  ASSUME TxInv, TickFails
  PROVE  TxInv'
<1>1. tick' = Idle /\ UNCHANGED <<vars, request, blamed>>
  BY DEF TickFails
<1>2. TypeOK' /\ LedgerHasItsEffects' /\ DuesHold' /\ DeductionIsExplained'
  BY <1>1 DEF TxInv, TypeOK, LedgerHasItsEffects, DuesHold, Planned, Contend,
              BlameHolds, DeductionIsExplained, vars, consequences
<1>. QED BY <1>1, <1>2 DEF TxInv, TxShape, LocksHold, LockedBy, BlameHolds, Idle, vars

-----------------------------------------------------------------------------
(* A review. *)

\* What each step of a review but the last has to bring about: a request that has
\* its shape, its lock and its plan.
LEMMA ReviewStep ==
  ASSUME TxInv, NEW r \in Requests, NEW q \in {Idle} \cup Reading \cup Deciding,
         UNCHANGED <<vars, tick, blamed>>,
         request' = [request EXCEPT ![r] = q],
         q.pc \in InFlight =>
           /\ violations[q.case] # NoRow
           /\ tick.pc = "flushed" => q.case \notin Written(tick),
         q.pc \in {"counted", "planned", "inserted"} => Planned(q.due, ledger[q.case[1]]),
         q.pc = "inserted" =>
           /\ q.due \cap ledger[q.case[1]] = {}
           /\ q.out => q.case[1] \in removed \cup byHand
           /\ \A s \in Requests \ {r} : request[s].pc = "inserted" => ~Contend(q, request[s])
  PROVE  TxInv'
<1>1. /\ request'[r] = q
      /\ \A s \in Requests \ {r} : request'[s] = request[s]
      /\ request' \in [Requests -> {Idle} \cup Reading \cup Deciding]
  BY DEF TxInv, TxShape
<1>2. TypeOK' /\ LedgerHasItsEffects' /\ DeductionIsExplained'
  BY DEF TxInv, TypeOK, LedgerHasItsEffects, BlameHolds, DeductionIsExplained, vars, consequences
<1>3. TxShape' /\ BlameHolds'
  BY <1>1, <1>2 DEF TxInv, TxShape, BlameHolds
<1>4. LocksHold'
  <2>1. ASSUME NEW s \in Requests
        PROVE  /\ \A c \in LockedBy(s)' : violations[c] # NoRow
               /\ tick.pc = "flushed" => LockedBy(s)' \cap Written(tick) = {}
    <3>1. CASE s = r
      BY <1>1, <3>1 DEF LockedBy
    <3>2. CASE s # r
      BY <1>1, <3>2 DEF LockedBy, TxInv, LocksHold
    <3>. QED BY <3>1, <3>2
  <2>2. \A c \in Cases : tick.pc # "idle" /\ tick.seen[c] # NoRow => violations[c] # NoRow
    BY DEF TxInv, LocksHold
  <2>3. violations' = violations /\ tick' = tick /\ Written(tick)' = Written(tick)
    BY DEF vars, Written
  <2>. QED BY <2>1, <2>2, <2>3 DEF LocksHold
<1>5. DuesHold'
  <2>1. ledger' = ledger /\ removed' = removed /\ byHand' = byHand
    BY DEF vars, consequences
  <2>3. \A s \in Requests :
          request'[s].pc \in {"counted", "planned", "inserted"}
            => Planned(request'[s].due, ledger[request'[s].case[1]])
    BY <1>1 DEF TxInv, DuesHold
  <2>4. \A s \in Requests :
          request'[s].pc = "inserted" =>
            /\ request'[s].due \cap ledger[request'[s].case[1]] = {}
            /\ request'[s].out => request'[s].case[1] \in removed \cup byHand
    BY <1>1 DEF TxInv, DuesHold
  <2>5. \A p, s \in Requests :
          request'[p].pc = "inserted" /\ request'[s].pc = "inserted" /\ p # s
            => ~Contend(request'[p], request'[s])
    BY <1>1 DEF TxInv, DuesHold, Contend
  <2>. QED BY <2>1, <2>3, <2>4, <2>5 DEF DuesHold
<1>. QED BY <1>2, <1>3, <1>4, <1>5 DEF TxInv

\* A review that fails, or whose row has gone, leaves nothing.
LEMMA ReviewEnds ==
  ASSUME TxInv, NEW r \in Requests, UNCHANGED <<vars, tick, blamed>>,
         request' = [request EXCEPT ![r] = Idle]
  PROVE  TxInv'
<1>1. Idle.pc = "idle" /\ "idle" \notin InFlight \cup {"counted", "planned", "inserted"}
  BY DEF Idle, InFlight
<1>. QED BY <1>1, ReviewStep

\* Reading the case keeps the invariant of the transactions.
LEMMA ReviewReadsInvariant ==
  ASSUME TxInv, NEW r \in Requests, NEW c \in Cases, NEW review \in Reviews,
         NEW override \in 0..MaxOverride, ReviewReads(r, c, review, override)
  PROVE  TxInv'
<1>1. PICK t \in Transitions :
        request' = [request EXCEPT ![r] =
          [pc |-> "read", case |-> c, status |-> t[3], was |-> violations[c].confirmed,
           confirmed |-> Effective(t[3], violations[c].detected, override)]]
  BY DEF ReviewReads
<1> DEFINE q == [pc |-> "read", case |-> c, status |-> t[3], was |-> violations[c].confirmed,
                 confirmed |-> Effective(t[3], violations[c].detected, override)]
<1>2. UNCHANGED <<vars, tick, blamed>> /\ violations[c] # NoRow
  BY DEF ReviewReads
<1>3. violations[c] \in Violation
  BY <1>2 DEF TxInv, TypeOK
<1>4. violations[c].detected \in Nat /\ violations[c].confirmed \in Nat /\ override \in Nat
  BY <1>3, OverrideAssumption DEF Violation
<1>5. t[3] \in Statuses
  BY DEF Transitions, Statuses
<1>6. Effective(t[3], violations[c].detected, override) \in Nat
  BY <1>4, <1>5, EffectiveType
<1>7. q \in Reading /\ q.pc = "read"
  BY <1>4, <1>5, <1>6 DEF Reading
<1>8. "read" \notin InFlight
  BY DEF InFlight
<1> HIDE DEF q
<1>9. request' = [request EXCEPT ![r] = q]
  BY <1>1 DEF q
<1>. QED BY <1>2, <1>7, <1>8, <1>9, ReviewStep

\* Writing the review keeps it.
LEMMA ReviewWritesInvariant ==
  ASSUME TxInv, NEW r \in Requests, ReviewWrites(r)
  PROVE  TxInv'
<1>1. /\ request[r].pc = "read" /\ UNCHANGED <<vars, tick, blamed>>
      /\ request[r].case \notin LockedByTick
  BY DEF ReviewWrites
<1>2. request[r] \in Reading
  BY <1>1, RequestAt DEF TxInv
<1>3. CASE violations[request[r].case] = NoRow
  <2>1. request' = [request EXCEPT ![r] = Idle]
    BY <1>3 DEF ReviewWrites
  <2>. QED BY <1>1, <2>1, ReviewEnds
<1>4. CASE violations[request[r].case] # NoRow
  <2> DEFINE q == [request[r] EXCEPT !.pc = "written"]
  <2>1. request' = [request EXCEPT ![r] = q]
    BY <1>4 DEF ReviewWrites
  <2>2. q \in Reading /\ q.pc = "written" /\ q.case = request[r].case
    BY <1>2 DEF Reading
  <2>3. tick.pc = "flushed" => q.case \notin Written(tick)
    BY <1>1, <2>2 DEF LockedByTick
  <2> HIDE DEF q
  <2>. QED BY <1>1, <1>4, <2>1, <2>2, <2>3, ReviewStep
<1>. QED BY <1>3, <1>4

\* The row under review is there, and no tick is about to write it.
LEMMA RowUnderReview ==
  ASSUME TxInv, NEW r \in Requests, request[r].pc \in InFlight
  PROVE  /\ request[r].case \in Cases
         /\ violations[request[r].case] # NoRow
         /\ tick.pc = "flushed" => request[r].case \notin Written(tick)
<1>1. request[r].case \in LockedBy(r)
  BY DEF LockedBy
<1>2. request[r] \in Reading \cup Deciding
  BY RequestAt DEF TxInv, InFlight
<1>3. request[r].case \in Cases
  BY <1>2 DEF Reading, Deciding
<1>. QED BY <1>1, <1>3 DEF TxInv, LocksHold

\* Counting what was confirmed keeps it.
LEMMA ReviewCountsInvariant ==
  ASSUME TxInv, NEW r \in Requests, ReviewCounts(r)
  PROVE  TxInv'
<1> DEFINE q == request[r]
           p == [pc |-> "counted", case |-> q.case, status |-> q.status, was |-> q.was,
                 confirmed |-> q.confirmed, due |-> Due(Total(Own(q), q.case[1])),
                 out |-> FALSE]
<1>1. /\ q.pc = "written" /\ UNCHANGED <<vars, tick, blamed>>
      /\ request' = [request EXCEPT ![r] = p]
  BY DEF ReviewCounts
<1>2. q \in Reading
  BY <1>1, RequestAt DEF TxInv
<1>3. /\ q.case \in Cases /\ violations[q.case] # NoRow
      /\ tick.pc = "flushed" => q.case \notin Written(tick)
  BY <1>1, RowUnderReview DEF InFlight
<1>4. Own(q) \in Rows
  BY <1>2, <1>3, OwnType DEF TxInv, TypeOK, Rows, Reading
<1>5. Total(Own(q), q.case[1]) \in Nat
  BY <1>3, <1>4, TotalType DEF Rows, Cases
<1>6. Due(Total(Own(q), q.case[1])) \subseteq Consequences!Actions
  BY DEF Due, Consequences!Due
<1>7. p \in Deciding /\ p.pc = "counted" /\ p.case = q.case
  BY <1>2, <1>6 DEF Reading, Deciding
<1>8. Planned(p.due, ledger[p.case[1]])
  BY <1>5 DEF Planned
<1> HIDE DEF p
<1>. QED BY <1>1, <1>3, <1>7, <1>8, ReviewStep

\* Planning the consequences keeps it.
LEMMA ReviewPlansInvariant ==
  ASSUME TxInv, NEW r \in Requests, ReviewPlans(r)
  PROVE  TxInv'
<1> DEFINE q == request[r]
           p == [q EXCEPT !.pc = "planned", !.due = @ \ ledger[q.case[1]]]
<1>1. q.pc = "counted" /\ UNCHANGED <<vars, tick, blamed>>
  BY DEF ReviewPlans
<1>2. q \in Deciding /\ Planned(q.due, ledger[q.case[1]])
  BY <1>1, RequestAt DEF TxInv, DuesHold
<1>3. request' = [request EXCEPT ![r] = p]
  BY DEF ReviewPlans, TxInv, TxShape
<1>4. /\ violations[q.case] # NoRow
      /\ tick.pc = "flushed" => q.case \notin Written(tick)
  BY <1>1, RowUnderReview DEF InFlight
<1>5. /\ p \in Deciding /\ p.pc = "planned" /\ p.case = q.case
      /\ p.due = q.due \ ledger[q.case[1]]
  BY <1>2 DEF Deciding
<1> HIDE DEF p
<1>6. Planned(p.due, ledger[p.case[1]])
  BY <1>2, <1>5 DEF Planned
<1>. QED BY <1>1, <1>3, <1>4, <1>5, <1>6, ReviewStep

\* Inserting them keeps it.
LEMMA ReviewInsertsInvariant ==
  ASSUME TxInv, NEW r \in Requests, ReviewInserts(r)
  PROVE  TxInv'
<1> DEFINE q == request[r]
           out == q.case[1] \in removed
           p == [q EXCEPT !.pc = "inserted", !.out = out]
<1>1. /\ q.pc = "planned" /\ UNCHANGED <<vars, tick, blamed>>
      /\ \A s \in Requests \ {r} : request[s].pc = "inserted" => ~Contend(q, request[s])
  BY DEF ReviewInserts
<1>2. q \in Deciding /\ Planned(q.due, ledger[q.case[1]])
  BY <1>1, RequestAt DEF TxInv, DuesHold
<1>3. CASE q.due \cap ledger[q.case[1]] # {}
  <2>1. request' = [request EXCEPT ![r] = Idle]
    BY <1>3 DEF ReviewInserts
  <2>. QED BY <1>1, <2>1, ReviewEnds
<1>4. CASE q.due \cap ledger[q.case[1]] = {}
  <2>1. request' = [request EXCEPT ![r] = p]
    BY <1>4 DEF ReviewInserts
  <2>2. /\ violations[q.case] # NoRow
        /\ tick.pc = "flushed" => q.case \notin Written(tick)
    BY <1>1, RowUnderReview DEF InFlight
  <2>3. /\ out \in BOOLEAN
        /\ out => q.case[1] \in removed
    OBVIOUS
  <2> HIDE DEF out
  <2>4. /\ p \in Deciding /\ p.pc = "inserted" /\ p.case = q.case /\ p.due = q.due
        /\ p.out = out
    BY <1>2, <2>3 DEF Deciding
  <2> HIDE DEF p
  <2>5. Planned(p.due, ledger[p.case[1]])
    BY <1>2, <2>4 DEF Planned
  <2>6. \A s \in Requests \ {r} : request[s].pc = "inserted" => ~Contend(p, request[s])
    BY <1>1, <2>4 DEF Contend
  <2>7. p.out => p.case[1] \in removed \cup byHand
    BY <2>3, <2>4
  <2>. QED BY <1>1, <1>4, <2>1, <2>2, <2>4, <2>5, <2>6, <2>7, ReviewStep
<1>. QED BY <1>3, <1>4

\* How the consequences of a commit look: none, or one threshold reached.
LEMMA CommitConsequences ==
  ASSUME TxInv, NEW r \in Requests, ReviewCommits(r)
  PROVE  /\ request[r].case[1] \in Managers
         /\ ledger' = [ledger EXCEPT ![request[r].case[1]] = @ \cup request[r].due]
         /\ removed \subseteq removed' /\ byHand' = byHand
         /\ \/ UNCHANGED consequences
            \/ \E n \in 1..3 : Consequences!Reach(request[r].case[1], n)
<1> DEFINE q == request[r]
           m == q.case[1]
<1>1. q.pc = "inserted" /\ Apply(m, q.due, q.out)
  BY DEF ReviewCommits
<1>2. q \in Deciding
  BY <1>1, RequestAt DEF TxInv
<1>3. m \in Managers /\ q.due \in SUBSET Consequences!Actions
  BY <1>2 DEF Deciding, Cases
<1>4. Tables /\ LedgerHasItsEffects
  BY DEF TxInv, TypeOK, Tables
<1>5. PICK total \in Nat : q.due \subseteq Due(total) /\ Due(total) \subseteq q.due \cup ledger[m]
  BY <1>1 DEF TxInv, DuesHold, Planned
<1>6. q.due \cap ledger[m] = {} /\ (q.out => m \in removed \cup byHand)
  BY <1>1 DEF TxInv, DuesHold
<1> HIDE DEF q, m
<1>7. UNCHANGED consequences \/ \E n \in 1..3 : Consequences!Reach(m, n)
  BY <1>1, <1>3, <1>4, <1>5, <1>6, AppliedIsReached
<1>8. /\ ledger' = [ledger EXCEPT ![m] = @ \cup q.due]
      /\ removed \subseteq removed' /\ byHand' = byHand
  BY <1>1 DEF Apply
<1>. QED BY <1>3, <1>7, <1>8 DEF q, m

\* Committing keeps it.
LEMMA ReviewCommitsInvariant ==
  ASSUME TxInv, NEW r \in Requests, ReviewCommits(r)
  PROVE  TxInv'
<1> DEFINE q == request[r]
           m == q.case[1]
<1>1. /\ q.pc = "inserted" /\ violations' = Own(q)
      /\ blamed' = IF "h2h_table_deduction" \in q.due
                   THEN [blamed EXCEPT ![m] = q.case] ELSE blamed
      /\ request' = [request EXCEPT ![r] = Idle]
      /\ UNCHANGED <<costs, tick>>
  BY DEF ReviewCommits
<1>2. q \in Deciding
  BY <1>1, RequestAt DEF TxInv
<1>3. /\ q.case \in Cases /\ violations[q.case] # NoRow
      /\ tick.pc = "flushed" => q.case \notin Written(tick)
  BY <1>1, RowUnderReview DEF InFlight
<1>4. /\ m \in Managers
      /\ ledger' = [ledger EXCEPT ![m] = @ \cup q.due]
      /\ removed \subseteq removed' /\ byHand' = byHand
      /\ \/ UNCHANGED consequences
         \/ \E n \in 1..3 : Consequences!Reach(m, n)
  BY CommitConsequences
<1>5. /\ violations' \in [Cases -> Violation \cup {NoRow}]
      /\ \A c \in Cases : violations'[c] = NoRow <=> violations[c] = NoRow
  BY <1>1, <1>2, <1>3, OwnType DEF TxInv, TypeOK, Rows, Deciding
<1>6. /\ request'[r] = Idle /\ Idle.pc = "idle"
      /\ \A s \in Requests \ {r} : request'[s] = request[s]
      /\ request' \in [Requests -> {Idle} \cup Reading \cup Deciding]
  BY <1>1 DEF TxInv, TxShape, Idle
<1>7. TypeOK' /\ LedgerHasItsEffects'
  <2>1. Tables /\ LedgerHasItsEffects
    BY DEF TxInv, TypeOK, Tables
  <2>2. CASE UNCHANGED consequences
    BY <1>1, <1>5, <2>2 DEF TxInv, TypeOK, LedgerHasItsEffects, consequences
  <2>3. CASE \E n \in 1..3 : Consequences!Reach(m, n)
    <3>1. Tables' /\ LedgerHasItsEffects'
      BY <1>4, <2>1, <2>3, ReachKeepsEffects
    <3>. QED BY <1>1, <1>5, <3>1 DEF TxInv, TypeOK, Tables
  <2>. QED BY <1>4, <2>2, <2>3
<1>8. TxShape'
  BY <1>1, <1>3, <1>4, <1>6 DEF TxInv, TxShape
<1>9. LocksHold'
  <2>1. ASSUME NEW s \in Requests
        PROVE  /\ \A c \in LockedBy(s)' : violations'[c] # NoRow
               /\ tick.pc = "flushed" => LockedBy(s)' \cap Written(tick) = {}
    <3>1. CASE s = r
      BY <1>6, <3>1 DEF LockedBy, InFlight
    <3>2. CASE s # r
      <4>1. LockedBy(s)' = LockedBy(s)
        BY <1>6, <3>2 DEF LockedBy
      <4>2. LockedBy(s) \subseteq Cases
        BY RowUnderReview DEF LockedBy
      <4>. QED BY <1>5, <4>1, <4>2 DEF TxInv, LocksHold
    <3>. QED BY <3>1, <3>2
  <2>2. tick' = tick /\ Written(tick)' = Written(tick)
    BY <1>1 DEF Written
  <2>. QED BY <1>5, <2>1, <2>2 DEF TxInv, LocksHold
<1>10. DuesHold'
  <2>1. ASSUME NEW s \in Requests \ {r}, request[s].pc \in {"counted", "planned", "inserted"}
        PROVE  /\ Planned(request'[s].due, ledger'[request'[s].case[1]])
               /\ request[s].case[1] \in Managers
    <3>1. request[s] \in Deciding
      BY <2>1, RequestAt DEF TxInv
    <3>2. request[s].case[1] \in Managers
      BY <3>1 DEF Deciding, Cases
    <3>3. ledger[request[s].case[1]] \subseteq ledger'[request[s].case[1]]
      BY <1>4, <3>2 DEF TxInv, TypeOK
    <3>4. Planned(request[s].due, ledger[request[s].case[1]])
      BY <2>1 DEF TxInv, DuesHold
    <3>. QED BY <1>6, <3>2, <3>3, <3>4 DEF Planned
  <2>2. ASSUME NEW s \in Requests \ {r}, request[s].pc = "inserted"
        PROVE  request[s].due \cap ledger'[request[s].case[1]] = {}
    <3>1. /\ request[s].due \cap ledger[request[s].case[1]] = {}
          /\ ~Contend(request[s], q)
      BY <1>1, <2>2 DEF TxInv, DuesHold
    <3>2. request[s].case[1] \in Managers
      BY <2>1, <2>2
    <3>3. CASE request[s].case[1] = m
      <4>1. ledger'[m] = ledger[m] \cup q.due
        BY <1>4 DEF TxInv, TypeOK
      <4>2. request[s].due \cap q.due = {}
        BY <3>1, <3>3 DEF Contend
      <4>. QED BY <3>1, <3>3, <4>1, <4>2
    <3>4. CASE request[s].case[1] # m
      BY <1>4, <3>1, <3>2, <3>4 DEF TxInv, TypeOK
    <3>. QED BY <3>3, <3>4
  <2>3. \A s \in Requests :
          request'[s].pc \in {"counted", "planned", "inserted"}
            => s # r /\ Planned(request'[s].due, ledger'[request'[s].case[1]])
    BY <1>6, <2>1
  <2>4. \A s \in Requests :
          request'[s].pc = "inserted" =>
            /\ request'[s].due \cap ledger'[request'[s].case[1]] = {}
            /\ request'[s].out => request'[s].case[1] \in removed' \cup byHand'
    <3>1. ASSUME NEW s \in Requests \ {r}, request[s].pc = "inserted", request[s].out
          PROVE  request[s].case[1] \in removed' \cup byHand'
      BY <1>4, <3>1 DEF TxInv, DuesHold
    <3>. QED BY <1>6, <2>2, <2>3, <3>1
  <2>5. \A p, s \in Requests :
          request'[p].pc = "inserted" /\ request'[s].pc = "inserted" /\ p # s
            => ~Contend(request'[p], request'[s])
    BY <1>6, <2>3 DEF TxInv, DuesHold
  <2>. QED BY <2>3, <2>4, <2>5 DEF DuesHold
<1>11. BlameHolds'
  <2>1. DeductionIsExplained'
    <3>1. ASSUME NEW k \in Managers, deductions'[k] > 0
          PROVE  blamed'[k] # NoRow /\ blamed'[k][1] = k /\ violations'[blamed'[k]] # NoRow
      <4>1. CASE k = m /\ "h2h_table_deduction" \in q.due
        <5>1. blamed'[k] = q.case
          BY <1>1, <4>1 DEF TxInv, TxShape
        <5>. QED BY <1>3, <1>5, <4>1, <5>1, CaseAssumption
      <4>2. CASE ~(k = m /\ "h2h_table_deduction" \in q.due)
        <5>1. blamed'[k] = blamed[k]
          BY <1>1, <1>4, <4>2 DEF TxInv, TxShape
        <5>2. deductions'[k] = deductions[k]
          <6>1. Apply(m, q.due, q.out)
            BY DEF ReviewCommits
          <6>. QED BY <1>4, <4>2, <6>1 DEF Apply, TxInv, TypeOK
        <5>3. blamed[k] # NoRow /\ blamed[k][1] = k /\ violations[blamed[k]] # NoRow
          BY <3>1, <5>2 DEF TxInv, BlameHolds, DeductionIsExplained
        <5>4. blamed[k] \in Cases
          BY <5>3 DEF TxInv, TxShape
        <5>. QED BY <1>5, <5>1, <5>3, <5>4
      <4>. QED BY <4>1, <4>2
    <3>. QED BY <3>1 DEF DeductionIsExplained
  <2>2. ASSUME tick.pc = "flushed", NEW k \in Managers
        PROVE  blamed'[k] \notin Deleted(tick)
    <3>1. blamed'[k] \in {blamed[k], q.case}
      BY <1>1, <1>4 DEF TxInv, TxShape
    <3>2. q.case \notin Deleted(tick)
      BY <1>3, <2>2 DEF Deleted
    <3>. QED BY <2>2, <3>1, <3>2 DEF TxInv, BlameHolds
  <2>3. tick' = tick /\ Deleted(tick)' = Deleted(tick)
    BY <1>1 DEF Deleted, Written
  <2>. QED BY <2>1, <2>2, <2>3 DEF BlameHolds
<1>. QED BY <1>7, <1>8, <1>9, <1>10, <1>11 DEF TxInv

\* Setting a status by hand keeps it: nobody is taken back by anything else.
LEMMA HandTxInvariant ==
  ASSUME TxInv, NEW m \in Managers, StatusIsSet(m)
  PROVE  TxInv'
<1>1. UpdateManager(m) /\ UNCHANGED <<costs, violations, ledger, deductions, tick, request, blamed>>
  BY DEF StatusIsSet, UpdateManager
<1>2. Tables' /\ LedgerHasItsEffects'
  BY <1>1, HandKeepsEffects DEF TxInv, TypeOK, Tables
<1>3. TypeOK'
  BY <1>1, <1>2 DEF TxInv, TypeOK, Tables
<1>4. removed \cup byHand \subseteq removed' \cup byHand'
  BY <1>1 DEF UpdateManager
<1>5. DuesHold'
  <2>1. ASSUME NEW r \in Requests, request[r].pc = "inserted"
        PROVE  /\ request[r].due \cap ledger[request[r].case[1]] = {}
               /\ request[r].out => request[r].case[1] \in removed' \cup byHand'
    BY <1>4, <2>1 DEF TxInv, DuesHold
  <2>. QED BY <1>1, <2>1 DEF TxInv, DuesHold, Planned, Contend
<1>6. TxShape' /\ LocksHold' /\ BlameHolds'
  BY <1>1 DEF TxInv, TxShape, LocksHold, LockedBy, Written, BlameHolds,
              DeductionIsExplained, Deleted
<1>. QED BY <1>2, <1>3, <1>5, <1>6 DEF TxInv

-----------------------------------------------------------------------------
(* The results. *)

\* It holds before the first transaction.
LEMMA TxInitInvariant == TxInit => TxInv
<1> SUFFICES ASSUME TxInit PROVE TxInv
  OBVIOUS
<1>1. Init /\ tick = Idle /\ blamed = [m \in Managers |-> NoRow]
      /\ request = [r \in Requests |-> Idle] /\ Idle.pc = "idle"
  BY DEF TxInit, Idle
<1>2. TypeOK /\ LedgerHasItsEffects
  BY <1>1, InitInvariant DEF IInv
<1>3. TxShape /\ LocksHold /\ DuesHold
  BY <1>1 DEF TxShape, LocksHold, DuesHold, LockedBy, InFlight
<1>4. BlameHolds
  BY <1>1 DEF BlameHolds, DeductionIsExplained, Init, Consequences!Init
<1>. QED BY <1>2, <1>3, <1>4 DEF TxInv

\* Every step keeps the invariant.
LEMMA TxStepInvariant == TxInv /\ [TxNext]_txVars => TxInv'
<1> SUFFICES ASSUME TxInv, [TxNext]_txVars PROVE TxInv'
  OBVIOUS
<1>1. CASE \E publication \in Publications : TickReads(publication)
  BY <1>1, TickReadsInvariant
<1>2. CASE TickFlushes \/ TickCommits \/ TickFails
  BY <1>2, TickFlushesInvariant, TickCommitsInvariant, TickFailsInvariant
<1>3. ASSUME NEW r \in Requests, NEW c \in Cases, NEW review \in Reviews,
             NEW override \in 0..MaxOverride, ReviewReads(r, c, review, override)
      PROVE  TxInv'
  BY <1>3, ReviewReadsInvariant
<1>4. ASSUME NEW r \in Requests, ReviewWrites(r) \/ ReviewCounts(r) \/ ReviewPlans(r)
      PROVE  TxInv'
  BY <1>4, ReviewWritesInvariant, ReviewCountsInvariant, ReviewPlansInvariant
<1>5. ASSUME NEW r \in Requests, ReviewInserts(r) \/ ReviewCommits(r) PROVE TxInv'
  BY <1>5, ReviewInsertsInvariant, ReviewCommitsInvariant
<1>6. ASSUME NEW r \in Requests, ReviewFails(r) PROVE TxInv'
  BY <1>6, ReviewEnds DEF ReviewFails
<1>7. ASSUME NEW m \in Managers, StatusIsSet(m) PROVE TxInv'
  BY <1>7, HandTxInvariant
<1>8. CASE UNCHANGED txVars
  BY <1>8 DEF txVars, vars, consequences, TxInv, TypeOK, LedgerHasItsEffects, TxShape,
              LocksHold, LockedBy, Written, DuesHold, Planned, Contend, BlameHolds,
              DeductionIsExplained, Deleted
<1>. QED BY <1>1, <1>2, <1>3, <1>4, <1>5, <1>6, <1>7, <1>8 DEF TxNext

\* The invariant of the transactions, by their steps.
THEOREM TxInvariant == TxSpec => []TxInv
BY TxInitInvariant, TxStepInvariant, PTL DEF TxSpec

\* The overlapping transactions keep their shape: whatever commits, rolls back or is
\* lost, tables hold rows and each session is at one of its statements.
THEOREM TxTypeCorrect == TxSpec => []TxTypeOK
<1>1. ASSUME TxInv PROVE TxTypeOK
  <2>1. tick.pc \in {"idle", "read", "flushed"}
    BY <1>1 DEF TxInv, TxShape, Idle
  <2>. QED BY <1>1, <2>1, RequestAt DEF TxInv, TxShape, TxTypeOK
<1>. QED BY <1>1, TxInvariant, PTL

\* However detection and reviews overlap, fail and are lost, a deduction names a
\* case of its manager that is still on file.
THEOREM DeductionsAreExplained == TxSpec => []DeductionIsExplained
<1>1. TxInv => DeductionIsExplained
  BY DEF TxInv, BlameHolds
<1>. QED BY <1>1, TxInvariant, PTL

\* However transactions overlap, the -6 is on the table once exactly when the ledger
\* has it, and a manager nobody has set the status of is out exactly when it says so.
THEOREM EffectsFollowTheLedger == TxSpec => []LedgerHasItsEffects
<1>1. TxInv => LedgerHasItsEffects
  BY DEF TxInv
<1>. QED BY <1>1, TxInvariant, PTL

\* However transactions overlap, DisciplineTx implements ThresholdLedger: the unique
\* key keeps a consequence from coming twice, and what a review recorded by its
\* own, perhaps outdated, total is a whole threshold all the same.
THEOREM OverlapImplementsLedger == TxSpec => LedgerSpec
<1>1. TxInit => Consequences!Init
  BY DEF TxInit, Init
<1>2. ASSUME TxInv, [TxNext]_txVars
      PROVE  [Consequences!Next]_(Consequences!ledgerVars)
  <2>1. ASSUME NEW r \in Requests, ReviewCommits(r)
        PROVE  UNCHANGED consequences \/ Consequences!Next
    BY <1>2, <2>1, CommitConsequences DEF Consequences!Next
  <2>2. ASSUME NEW publication \in Publications, TickReads(publication)
        PROVE  UNCHANGED consequences
    BY <2>2 DEF TickReads, vars
  <2>3. ASSUME TickFlushes \/ TickCommits \/ TickFails
        PROVE  UNCHANGED consequences
    BY <2>3 DEF TickFlushes, TickCommits, TickFails, vars
  <2>4. ASSUME NEW r \in Requests, NEW c \in Cases, NEW review \in Reviews,
               NEW override \in 0..MaxOverride, ReviewReads(r, c, review, override)
        PROVE  UNCHANGED consequences
    BY <2>4 DEF ReviewReads, vars
  <2>5. ASSUME NEW r \in Requests,
               \/ ReviewWrites(r) \/ ReviewCounts(r) \/ ReviewPlans(r)
               \/ ReviewInserts(r) \/ ReviewFails(r)
        PROVE  UNCHANGED consequences
    BY <2>5 DEF ReviewWrites, ReviewCounts, ReviewPlans, ReviewInserts, ReviewFails, vars
  <2>6. ASSUME UNCHANGED txVars PROVE UNCHANGED consequences
    BY <2>6 DEF txVars, vars
  <2>7. ASSUME TxNext PROVE UNCHANGED consequences \/ Consequences!Next
    <3>1. ASSUME \/ \E publication \in Publications : TickReads(publication)
                 \/ TickFlushes \/ TickCommits \/ TickFails
          PROVE  UNCHANGED consequences
      BY <2>2, <2>3, <3>1
    <3>2. ASSUME NEW r \in Requests,
            \/ \E c \in Cases, review \in Reviews, override \in 0..MaxOverride :
                 ReviewReads(r, c, review, override)
            \/ ReviewWrites(r) \/ ReviewCounts(r) \/ ReviewPlans(r)
            \/ ReviewInserts(r) \/ ReviewCommits(r) \/ ReviewFails(r)
          PROVE  UNCHANGED consequences \/ Consequences!Next
      BY <2>1, <2>4, <2>5, <3>2
    <3>3. ASSUME NEW m \in Managers, StatusIsSet(m) PROVE Consequences!Next
      BY <3>3 DEF StatusIsSet, UpdateManager, Consequences!Next, Consequences!SetByHand
    <3>. QED BY <2>7, <3>1, <3>2, <3>3 DEF TxNext
  <2>8. UNCHANGED consequences \/ Consequences!Next
    BY <1>2, <2>6, <2>7
  <2>. QED BY <2>8 DEF consequences, Consequences!ledgerVars
<1>. QED BY <1>1, <1>2, TxInvariant, PTL DEF TxSpec, LedgerSpec, Consequences!Spec
=============================================================================
