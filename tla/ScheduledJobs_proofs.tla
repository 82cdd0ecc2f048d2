------------------------ MODULE ScheduledJobs_proofs ------------------------
(***************************************************************************)
(* What the audit and the command keep, for every league, every set of     *)
(* names and every number of overlapping invocations.  An audit's snapshot *)
(* of the profiles stays true as far as their existence goes: no other     *)
(* audit is at work, and the command only rewrites profiles that exist.    *)
(***************************************************************************)
EXTENDS ScheduledJobs, TLAPS

Busy(w) == audit[w].pc # "idle"

Table == [Managers -> Profiles \cup {NoRow}]

\* What an invocation holds at each of its steps.
Loaded(t) == t.registered \in [Managers -> Names] /\ t.profile \in Table
Asking(t) == t.pc = "asking" /\ Loaded(t)
Heard(t)  ==
  /\ t.pc = "heard" /\ Loaded(t)
  /\ DOMAIN t.found \subseteq Managers
  /\ \A m \in DOMAIN t.found : t.found[m] \in Shown

AuditsOK ==
  /\ DOMAIN audit = Workers /\ audit = [w \in Workers |-> audit[w]]
  /\ \A w \in Workers : audit[w] = Idle \/ Asking(audit[w]) \/ Heard(audit[w])

OneAtWork == \A v, w \in Workers : Busy(v) /\ Busy(w) => v = w

Adoption == [manager : Managers, name : Names, profile : Profiles \cup {NoRow}]

CommandOK ==
  \/ command = Idle
  \/ command \in [pc : {"asking"}, allowed : BOOLEAN, toAsk : SUBSET Managers,
                  registered : [Managers -> Names], adopted : SUBSET Adoption]

\* A profile is never deleted: what the command loaded is still there.
AdoptedExist ==
  command.pc = "asking" =>
    \A x \in command.adopted : x.profile # NoRow => profile[x.manager] # NoRow

\* A profile exists now exactly if it did when the audit loaded it.
SnapshotHolds ==
  \A w \in Workers : Busy(w) =>
    \A m \in Managers : audit[w].profile[m] = NoRow <=> profile[m] = NoRow

IInv == JobsTypeOK /\ AuditsOK /\ OneAtWork /\ CommandOK /\ AdoptedExist /\ SnapshotHolds

-----------------------------------------------------------------------------
(* The data. *)

\* What is noted of a profile is a profile.
LEMMA NotedType ==
  ASSUME NEW loaded \in Profiles \cup {NoRow}, NEW stored \in Profiles \cup {NoRow},
         NEW seen \in Profiles, loaded # NoRow => stored # NoRow
  PROVE  Noted(loaded, stored, seen) \in Profiles
<1>1. CASE loaded = NoRow
  BY <1>1 DEF Noted
<1>2. CASE loaded # NoRow
  <2>1. stored \in Profiles
    BY <1>2
  <2>2. seen.current \in Shown /\ stored.current \in Shown
    BY <2>1 DEF Profiles
  <2>3. seen.changed \in BOOLEAN /\ stored.changed \in BOOLEAN
    BY <2>1 DEF Profiles
  <2> DEFINE current == IF loaded.current # seen.current THEN seen.current ELSE stored.current
             changed == IF loaded.changed # seen.changed THEN seen.changed ELSE stored.changed
  <2>4. current \in Shown
    BY <2>2
  <2>5. changed \in BOOLEAN
    BY <2>3
  <2>6. Noted(loaded, stored, seen) = [current |-> current, changed |-> changed]
    BY <1>2 DEF Noted
  <2> HIDE DEF current, changed
  <2> QED BY <2>4, <2>5, <2>6 DEF Profiles
<1> QED BY <1>1, <1>2

\* What FPL shows of an entry is a profile.
LEMMA ObservedType ==
  ASSUME NEW name \in Shown, NEW own PROVE Observed(name, own) \in Profiles
<1>1. Differs(name, own) \in BOOLEAN
  BY DEF Differs
<1> QED BY <1>1 DEF Observed, Profiles

-----------------------------------------------------------------------------
(* The steps. *)

\* Nothing has run: the invariant holds.
LEMMA InitInvariant == JobsInit => IInv
<1> SUFFICES ASSUME JobsInit PROVE IInv
  OBVIOUS
<1>1. JobsTypeOK
  BY DEF JobsInit, JobsTypeOK, Idle
<1>2. AuditsOK /\ OneAtWork /\ SnapshotHolds
  BY DEF JobsInit, AuditsOK, OneAtWork, SnapshotHolds, Busy, Idle
<1>3. CommandOK /\ AdoptedExist
  BY DEF JobsInit, CommandOK, AdoptedExist, Idle
<1> QED BY <1>1, <1>2, <1>3 DEF IInv

\* Steps of FPL and of the administrators.
LEMMA OutsideInvariant ==
  ASSUME IInv, UNCHANGED <<registered, profile, audit, command>>, JobsTypeOK'
  PROVE  IInv'
<1>1. AuditsOK' /\ OneAtWork' /\ SnapshotHolds'
  BY DEF IInv, AuditsOK, Asking, Heard, Loaded, OneAtWork, SnapshotHolds, Busy
<1>2. CommandOK' /\ AdoptedExist'
  BY DEF IInv, CommandOK, AdoptedExist
<1> QED BY <1>1, <1>2 DEF IInv

\* The command is not part of the audit, nor the audit of the command.
LEMMA CommandKept ==
  ASSUME IInv, UNCHANGED <<command, profile>> PROVE CommandOK' /\ AdoptedExist'
BY DEF IInv, CommandOK, AdoptedExist

\* What is asked of the audits holds while they stay as they are.
LEMMA AuditsKept ==
  ASSUME IInv, UNCHANGED audit PROVE AuditsOK' /\ OneAtWork'
BY DEF IInv, AuditsOK, Asking, Heard, Loaded, OneAtWork, Busy

\* Starting a job keeps the invariant.
LEMMA StartInvariant ==
  ASSUME IInv, NEW w \in Workers, AuditStarts(w)
  PROVE  IInv'
<1>1. /\ audit'[w] = [pc |-> "asking", registered |-> registered, profile |-> profile]
      /\ \A v \in Workers \ {w} : audit'[v] = audit[v] /\ audit[v].pc = "idle"
      /\ DOMAIN audit' = Workers /\ audit' = [v \in Workers |-> audit'[v]]
  BY DEF AuditStarts, IInv, AuditsOK, Free
<1>2. UNCHANGED <<registered, profile, finalized, onFpl, command>>
  BY DEF AuditStarts
<1>3. JobsTypeOK'
  BY <1>1, <1>2 DEF IInv, JobsTypeOK
<1>4. AuditsOK'
  <2>1. Asking(audit'[w])
    BY <1>1 DEF Asking, Loaded, Table, IInv, JobsTypeOK
  <2>2. \A v \in Workers \ {w} : audit'[v] = Idle
    BY <1>1 DEF IInv, AuditsOK, Asking, Heard
  <2> QED BY <1>1, <2>1, <2>2 DEF AuditsOK
<1>5. OneAtWork' /\ SnapshotHolds'
  BY <1>1, <1>2 DEF OneAtWork, Busy, SnapshotHolds
<1> QED BY <1>2, <1>3, <1>4, <1>5, CommandKept DEF IInv

\* So does hearing from FPL.
LEMMA HearsInvariant ==
  ASSUME IInv, NEW w \in Workers, NEW heard \in SUBSET Audited, AuditHears(w, heard)
  PROVE  IInv'
<1>1. /\ Busy(w)
      /\ audit'[w] = [pc |-> "heard", registered |-> audit[w].registered,
                      profile |-> audit[w].profile, found |-> [m \in heard |-> onFpl[m]]]
      /\ \A v \in Workers \ {w} : audit'[v] = audit[v]
      /\ DOMAIN audit' = Workers /\ audit' = [v \in Workers |-> audit'[v]]
  BY DEF AuditHears, Busy, IInv, AuditsOK
<1>2. UNCHANGED <<registered, profile, finalized, onFpl, command>>
  BY DEF AuditHears
<1>3. JobsTypeOK'
  BY <1>1, <1>2 DEF IInv, JobsTypeOK
<1>4. AuditsOK'
  <2>1. Loaded(audit[w])
    BY <1>1 DEF IInv, AuditsOK, Asking, Heard, Busy, Idle
  <2>2. heard \subseteq Managers /\ \A m \in heard : onFpl[m] \in Shown
    BY JobsAssumption DEF IInv, JobsTypeOK
  <2>3. Heard(audit'[w])
    BY <1>1, <2>1, <2>2 DEF Heard, Loaded
  <2> QED BY <1>1, <2>3 DEF IInv, AuditsOK
<1>5. OneAtWork' /\ SnapshotHolds'
  BY <1>1, <1>2 DEF IInv, OneAtWork, Busy, SnapshotHolds
<1> QED BY <1>2, <1>3, <1>4, <1>5, CommandKept DEF IInv

\* Committing keeps it.
LEMMA CommitInvariant ==
  ASSUME IInv, NEW w \in Workers, AuditCommits(w)
  PROVE  IInv'
<1> DEFINE t == audit[w]
<1>1. /\ Busy(w) /\ t.pc = "heard"
      /\ profile' = [m \in Managers |->
           IF m \in DOMAIN t.found
           THEN Noted(t.profile[m], profile[m], Observed(t.found[m], t.registered[m]))
           ELSE profile[m]]
      /\ UNCHANGED <<registered, finalized, onFpl, command>>
  BY DEF AuditCommits, Busy
<1>2. /\ \A v \in Workers : audit'[v] = Idle
      /\ DOMAIN audit' = Workers /\ audit' = [v \in Workers |-> audit'[v]]
  <2>1. \A v \in Workers \ {w} : audit[v] = Idle
    BY <1>1 DEF IInv, OneAtWork, Busy, AuditsOK, Asking, Heard
  <2>2. audit' = [audit EXCEPT ![w] = Idle]
    BY DEF AuditCommits
  <2> QED BY <2>1, <2>2 DEF IInv, AuditsOK
<1>3. Heard(t)
  BY <1>1 DEF IInv, AuditsOK, Asking, Idle
<1>4. ASSUME NEW m \in Managers
      PROVE  /\ profile'[m] \in Profiles \cup {NoRow}
             /\ profile[m] # NoRow => profile'[m] # NoRow
  <2>1. profile[m] \in Profiles \cup {NoRow} /\ t.profile[m] \in Profiles \cup {NoRow}
    BY <1>3 DEF IInv, JobsTypeOK, Heard, Loaded, Table
  <2>2. CASE m \notin DOMAIN t.found
    BY <1>1, <2>1, <2>2
  <2>3. CASE m \in DOMAIN t.found
    <3>1. Observed(t.found[m], t.registered[m]) \in Profiles
      BY <1>3, <2>3, ObservedType DEF Heard
    <3>2. t.profile[m] = NoRow <=> profile[m] = NoRow
      BY <1>1 DEF IInv, SnapshotHolds
    <3>3. profile'[m] \in Profiles
      BY <1>1, <2>1, <2>3, <3>1, <3>2, NotedType
    <3> QED BY <3>3, JobsAssumption
  <2> QED BY <2>2, <2>3
<1>5. JobsTypeOK'
  <2>1. profile' \in [Managers -> Profiles \cup {NoRow}]
    BY <1>1, <1>4
  <2> QED BY <1>1, <1>2, <2>1 DEF IInv, JobsTypeOK, Idle
<1>6. AuditsOK' /\ OneAtWork' /\ SnapshotHolds'
  BY <1>2 DEF AuditsOK, OneAtWork, Busy, SnapshotHolds, Idle
<1>7. CommandOK' /\ AdoptedExist'
  <2>1. CommandOK'
    BY <1>1 DEF IInv, CommandOK
  <2>2. ASSUME command.pc = "asking", NEW x \in command.adopted, x.profile # NoRow
        PROVE  profile'[x.manager] # NoRow
    <3>1. x \in Adoption
      BY <2>2 DEF IInv, CommandOK, Idle
    <3> QED BY <2>2, <3>1, <1>4 DEF IInv, AdoptedExist, Adoption
  <2> QED BY <1>1, <2>1, <2>2 DEF AdoptedExist
<1> QED BY <1>5, <1>6, <1>7 DEF IInv

\* So does losing an audit on its way.
LEMMA LostInvariant ==
  ASSUME IInv, NEW w \in Workers, AuditLost(w)
  PROVE  IInv'
<1>1. /\ audit'[w] = Idle /\ \A v \in Workers \ {w} : audit'[v] = audit[v]
      /\ DOMAIN audit' = Workers /\ audit' = [v \in Workers |-> audit'[v]]
      /\ UNCHANGED <<registered, profile, finalized, onFpl, command>>
  BY DEF AuditLost, IInv, AuditsOK
<1>2. JobsTypeOK'
  BY <1>1 DEF IInv, JobsTypeOK, Idle
<1>3. AuditsOK'
  BY <1>1 DEF IInv, AuditsOK
<1>4. OneAtWork' /\ SnapshotHolds'
  BY <1>1 DEF IInv, OneAtWork, Busy, SnapshotHolds, Idle
<1> QED BY <1>1, <1>2, <1>3, <1>4, CommandKept DEF IInv

\* The command's steps before it commits.
LEMMA CommandStepInvariant ==
  ASSUME IInv, \/ \E allowed \in BOOLEAN : CommandStarts(allowed)
               \/ \E answered \in BOOLEAN : CommandAsks(answered)
               \/ CommandLost
  PROVE  IInv'
<1>1. UNCHANGED <<registered, profile, finalized, onFpl, audit>>
  BY DEF CommandStarts, CommandAsks, CommandLost
<1>2. CommandOK' /\ AdoptedExist' /\ command'.pc \in {"idle", "asking"}
  <2>1. ASSUME NEW allowed \in BOOLEAN, CommandStarts(allowed)
        PROVE  CommandOK' /\ AdoptedExist' /\ command'.pc \in {"idle", "asking"}
    <3>1. command' = [pc |-> "asking", allowed |-> allowed, toAsk |-> Managers,
                      registered |-> registered, adopted |-> {}]
      BY <2>1 DEF CommandStarts
    <3>2. registered \in [Managers -> Names]
      BY DEF IInv, JobsTypeOK
    <3> QED BY <3>1, <3>2 DEF CommandOK, AdoptedExist
  <2>2. ASSUME NEW answered \in BOOLEAN, CommandAsks(answered)
        PROVE  CommandOK' /\ AdoptedExist' /\ command'.pc \in {"idle", "asking"}
    <3> DEFINE Entry(m) == [manager |-> m, name |-> onFpl[m], profile |-> profile[m]]
    <3>1. command \in [pc : {"asking"}, allowed : BOOLEAN, toAsk : SUBSET Managers,
                       registered : [Managers -> Names], adopted : SUBSET Adoption]
      <4>1. command.pc = "asking" /\ CommandOK
        BY <2>2 DEF CommandAsks, IInv
      <4>2. command # Idle
        BY <4>1 DEF Idle
      <4> QED BY <4>1, <4>2 DEF CommandOK
    <3>2. PICK m \in command.toAsk :
            command' = [command EXCEPT
              !.toAsk = @ \ {m},
              !.adopted = @ \cup
                IF answered /\ Differs(onFpl[m], command.registered[m])
                THEN {Entry(m)} ELSE {}]
      BY <2>2 DEF CommandAsks
    <3>3. m \in Managers /\ onFpl[m] \in Shown /\ profile[m] \in Profiles \cup {NoRow}
      BY <3>1 DEF IInv, JobsTypeOK
    <3>4. Differs(onFpl[m], command.registered[m]) => Entry(m) \in Adoption
      BY <3>3 DEF Differs, Shown, Adoption
    <3>5. /\ command'.pc = "asking" /\ command'.allowed = command.allowed
          /\ command'.toAsk = command.toAsk \ {m}
          /\ command'.registered = command.registered
          /\ command'.adopted \in {command.adopted, command.adopted \cup {Entry(m)}}
          /\ command'.adopted \subseteq Adoption
      BY <3>1, <3>2, <3>4
    <3>6. command' = [pc |-> command'.pc, allowed |-> command'.allowed, toAsk |-> command'.toAsk,
                      registered |-> command'.registered, adopted |-> command'.adopted]
      BY <3>1, <3>2
    <3>7. CommandOK'
      <4>1. command.allowed \in BOOLEAN
        BY <3>1
      <4>2. command.toAsk \ {m} \in SUBSET Managers /\ command.registered \in [Managers -> Names]
        BY <3>1
      <4> HIDE DEF Entry
      <4> QED BY <3>5, <3>6, <4>1, <4>2 DEF CommandOK
    <3>8. AdoptedExist'
      <4>1. \A x \in command.adopted : x.profile # NoRow => profile[x.manager] # NoRow
        BY <3>1 DEF IInv, AdoptedExist
      <4>2. Entry(m).profile # NoRow => profile[Entry(m).manager] # NoRow
        OBVIOUS
      <4> HIDE DEF Entry
      <4>3. \A x \in command'.adopted : x.profile # NoRow => profile[x.manager] # NoRow
        BY <3>5, <4>1, <4>2
      <4> QED BY <1>1, <4>3 DEF AdoptedExist
    <3> QED BY <3>5, <3>7, <3>8
  <2>3. CASE CommandLost
    BY <2>3 DEF CommandLost, CommandOK, AdoptedExist, Idle
  <2> QED BY <2>1, <2>2, <2>3
<1>3. JobsTypeOK' /\ SnapshotHolds'
  BY <1>1, <1>2 DEF IInv, JobsTypeOK, SnapshotHolds, Busy
<1> QED BY <1>1, <1>2, <1>3, AuditsKept DEF IInv

\* A command's commit keeps it.
LEMMA CommandCommitInvariant ==
  ASSUME IInv, CommandCommits
  PROVE  IInv'
<1>1. /\ command.adopted \subseteq Adoption
      /\ command.pc = "asking" /\ command' = Idle
      /\ UNCHANGED <<finalized, onFpl, audit>>
  BY DEF CommandCommits, IInv, CommandOK, Idle
<1>2. registered' = [m \in Managers |->
        IF AdoptedFor(m) = {} THEN registered[m]
        ELSE (CHOOSE x \in AdoptedFor(m) : TRUE).name]
  BY DEF CommandCommits
<1>3. ASSUME NEW m \in Managers
      PROVE  /\ registered'[m] \in Names
             /\ profile'[m] \in Profiles \cup {NoRow}
             /\ profile'[m] = NoRow <=> profile[m] = NoRow
  <2> DEFINE x == CHOOSE y \in AdoptedFor(m) : TRUE
  <2>1. AdoptedFor(m) # {} => x \in AdoptedFor(m)
    OBVIOUS
  <2>2. AdoptedFor(m) \subseteq Adoption
    BY <1>1 DEF AdoptedFor
  <2>3. registered'[m] \in Names
    <3>1. registered[m] \in Names
      BY DEF IInv, JobsTypeOK
    <3>2. registered'[m] = IF AdoptedFor(m) = {} THEN registered[m] ELSE x.name
      BY <1>2
    <3>3. AdoptedFor(m) # {} => x.name \in Names
      BY <2>1, <2>2 DEF Adoption
    <3> HIDE DEF x
    <3> QED BY <3>1, <3>2, <3>3
  <2>4. profile[m] \in Profiles \cup {NoRow}
    BY DEF IInv, JobsTypeOK
  <2>5. CASE \A y \in AdoptedFor(m) : y.profile = NoRow
    <3>1. profile'[m] = profile[m]
      BY <2>5 DEF CommandCommits
    <3> QED BY <2>3, <2>4, <3>1
  <2>6. CASE \E y \in AdoptedFor(m) : y.profile # NoRow
    <3>1. profile[m] # NoRow
      BY <2>6, <1>1 DEF AdoptedFor, IInv, AdoptedExist
    <3>2. x.name \in Shown /\ x.profile \in Profiles \cup {NoRow}
      BY <2>1, <2>2, <2>6 DEF Adoption, Shown
    <3> HIDE DEF x
    <3>3. [current |-> x.name, changed |-> FALSE] \in Profiles
      BY <3>2 DEF Profiles
    <3>4. profile'[m] = Noted(x.profile, profile[m], [current |-> x.name, changed |-> FALSE])
      BY <2>6 DEF CommandCommits, x
    <3>5. profile'[m] \in Profiles
      BY <2>4, <3>1, <3>2, <3>3, <3>4, NotedType
    <3> QED BY <2>3, <3>1, <3>5, JobsAssumption
  <2> QED BY <2>3, <2>5, <2>6
<1>4. JobsTypeOK'
  <2>1. registered' \in [Managers -> Names]
    BY <1>2, <1>3
  <2>2. profile' \in [Managers -> Profiles \cup {NoRow}]
    <3>1. \E f : profile' = [m \in Managers |-> f[m]]
      <4>1. profile' = [m \in Managers |-> profile'[m]]
        BY DEF CommandCommits
      <4> QED BY <4>1
    <3> QED BY <1>3, <3>1
  <2> QED BY <1>1, <2>1, <2>2 DEF IInv, JobsTypeOK, Idle
<1>5. SnapshotHolds'
  BY <1>1, <1>3 DEF IInv, SnapshotHolds, Busy
<1>6. CommandOK' /\ AdoptedExist'
  BY <1>1 DEF CommandOK, AdoptedExist, Idle
<1> QED BY <1>1, <1>4, <1>5, <1>6, AuditsKept DEF IInv

\* So every step keeps it.
LEMMA StepInvariant == IInv /\ [JobsNext]_jobVars => IInv'
<1> SUFFICES ASSUME IInv, [JobsNext]_jobVars PROVE IInv'
  OBVIOUS
<1>1. CASE SetsFirstGameweek
  BY <1>1, OutsideInvariant DEF SetsFirstGameweek, IInv, JobsTypeOK
<1>2. ASSUME NEW m \in Managers, NEW name \in Shown, Renames(m, name) PROVE IInv'
  BY <1>2, OutsideInvariant DEF Renames, IInv, JobsTypeOK
<1>3. ASSUME NEW w \in Workers,
             \/ AuditStarts(w) \/ AuditCommits(w) \/ AuditLost(w)
             \/ \E heard \in SUBSET Audited : AuditHears(w, heard)
      PROVE  IInv'
  BY <1>3, StartInvariant, HearsInvariant, CommitInvariant, LostInvariant
<1>4. CASE \/ \E allowed \in BOOLEAN : CommandStarts(allowed)
           \/ \E answered \in BOOLEAN : CommandAsks(answered)
           \/ CommandCommits \/ CommandLost
  BY <1>4, CommandStepInvariant, CommandCommitInvariant
<1>5. CASE UNCHANGED jobVars
  BY <1>5, OutsideInvariant DEF jobVars, IInv, JobsTypeOK
<1> QED BY <1>1, <1>2, <1>3, <1>4, <1>5 DEF JobsNext

-----------------------------------------------------------------------------
(* The results. *)

\* The invariant the theorems rest on.
THEOREM Invariant == JobsSpec => []IInv
BY InitInvariant, StepInvariant, PTL DEF JobsSpec

\* However audits and the command overlap, an audit that is about to insert a
\* profile inserts one that is not there (services/nightly_audit.py).
THEOREM NoInsertCollides == JobsSpec => []InsertsNeverCollide
<1>1. IInv => InsertsNeverCollide
  BY DEF IInv, SnapshotHolds, InsertsNeverCollide, Busy
<1> QED BY <1>1, Invariant, PTL
=============================================================================
