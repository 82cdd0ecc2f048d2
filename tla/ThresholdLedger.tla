--------------------------- MODULE ThresholdLedger ---------------------------
(***************************************************************************)
(* What the disciplinary rules promise about consequences, whatever brings *)
(* them about: a manager's consequences come a whole threshold at a time   *)
(* with every lower one, each is recorded once and for good, and the -6    *)
(* deduction and the removal from the competition happen in the very step  *)
(* that records them.  An organiser may set a manager's status beside all  *)
(* this; once he has, the removal may find it set already, or be undone.   *)
(***************************************************************************)
EXTENDS Integers

CONSTANT Managers

VARIABLES
  ledger,      \* violation_threshold_actions: actions recorded per manager
  deductions,  \* h2h_penalties: -6 rows per manager
  removed,     \* managers whose active_status is removed
  byHand       \* managers whose active_status an organiser has ever set

ledgerVars == <<ledger, deductions, removed, byHand>>

Actions == {"deposit_forfeited", "h2h_table_deduction", "prize_capped",
            "removed_from_h2h", "removed_from_cup", "removed_from_competition"}

ThresholdFor ==
  [action \in Actions |->
     IF action \in {"deposit_forfeited", "h2h_table_deduction"} THEN 1
     ELSE IF action = "removed_from_competition" THEN 3 ELSE 2]

Due(total) == {action \in Actions : total >= ThresholdFor[action]}

Init ==
  /\ ledger = [m \in Managers |-> {}]
  /\ deductions = [m \in Managers |-> 0]
  /\ removed = {}
  /\ byHand = {}

\* Manager m reaches threshold n.
Reach(m, n) ==
  /\ ~(Due(n) \subseteq ledger[m])
  /\ ledger' = [ledger EXCEPT ![m] = @ \cup Due(n)]
  /\ deductions' = [deductions EXCEPT ![m] = 1]
  /\ IF "removed_from_competition" \in Due(n) \ ledger[m]
     THEN removed' = removed \cup {m} \/ (m \in byHand /\ removed' = removed)
     ELSE removed' = removed
  /\ UNCHANGED byHand

\* An organiser sets the status of manager m, to removed or to another.
SetByHand(m) ==
  /\ removed' \in {removed \cup {m}, removed \ {m}}
  /\ byHand' = byHand \cup {m}
  /\ UNCHANGED <<ledger, deductions>>

Next == \E m \in Managers : SetByHand(m) \/ \E n \in 1..3 : Reach(m, n)

Spec == Init /\ [][Next]_ledgerVars
=============================================================================
