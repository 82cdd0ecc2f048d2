--------------------------- MODULE ScheduledJobs ---------------------------
(***************************************************************************)
(* Team names: the nightly audit (services/nightly_audit.py, called through*)
(* /cron/nightly-audit under an advisory lock, services/cron.py), which    *)
(* records what FPL calls each manager's team beside the registered name,  *)
(* and the command an organiser runs to adopt FPL's names instead          *)
(* (cli/sync_team_names.py), which asks for no lock.  Both load their rows,*)
(* ask FPL about every manager, and write only what differs from what they *)
(* loaded, in one transaction at the end.                                  *)
(***************************************************************************)
EXTENDS Naturals, FiniteSets

CONSTANTS
  Managers,  \* Manager.id, the order in which the command asks FPL
  Audited,   \* those confirmed and not removed
  Workers,   \* invocations of the audit that may overlap
  Names,     \* team names
  NoName,    \* FPL shows none
  NoRow      \* no profile, or no answer

Shown    == Names \cup {NoName}
Profiles == [current : Shown, changed : BOOLEAN]

ASSUME JobsAssumption ==
  /\ Managers \subseteq Nat /\ IsFiniteSet(Managers)
  /\ Audited \subseteq Managers
  /\ NoName \notin Names /\ NoRow \notin Shown \cup Profiles

VARIABLES
  registered,  \* Manager.team_name
  profile,     \* ManagerExternalProfile: the name seen, and whether it differs
  finalized,   \* Gameweek 1 is finalized
  onFpl,       \* the name FPL shows (external)
  audit,       \* each invocation of the audit
  command      \* the organiser's command

jobVars == <<registered, profile, finalized, onFpl, audit, command>>

Idle == [pc |-> "idle"]

Differs(name, own) == name # NoName /\ name # own

\* What an audit that found "name" says of a manager registered as "own".
Observed(name, own) == [current |-> name, changed |-> Differs(name, own)]

-----------------------------------------------------------------------------
(* FPL, and the first Gameweek. *)

Renames(m, name) ==
  /\ name # onFpl[m]
  /\ onFpl' = [onFpl EXCEPT ![m] = name]
  /\ UNCHANGED <<registered, profile, finalized, audit, command>>

\* The synchroniser closes Gameweek 1, or an administrator closes or reopens it.
SetsFirstGameweek ==
  /\ finalized' = ~finalized
  /\ UNCHANGED <<registered, profile, onFpl, audit, command>>

-----------------------------------------------------------------------------
(* The nightly audit. *)

Free == \A v \in Workers : audit[v].pc = "idle"

\* A slip: the lock is not asked for.
AuditStartsFreely(w) ==
  /\ audit[w].pc = "idle"
  /\ audit' = [audit EXCEPT ![w] =
       [pc |-> "asking", registered |-> registered, profile |-> profile]]
  /\ UNCHANGED <<registered, profile, finalized, onFpl, command>>

\* Managers and profiles are loaded; who finds the lock held is skipped.
AuditStarts(w) ==
  /\ audit[w].pc = "idle"
  /\ Free
  /\ audit' = [audit EXCEPT ![w] =
       [pc |-> "asking", registered |-> registered, profile |-> profile]]
  /\ UNCHANGED <<registered, profile, finalized, onFpl, command>>

\* The entries are in, of those managers FPL answered for.
AuditHears(w, heard) ==
  /\ audit[w].pc = "asking"
  /\ heard \subseteq Audited
  /\ audit' = [audit EXCEPT ![w] =
       [pc |-> "heard", registered |-> @.registered, profile |-> @.profile,
        found |-> [m \in heard |-> onFpl[m]]]]
  /\ UNCHANGED <<registered, profile, finalized, onFpl, command>>

\* A slip: a profile whose name has not moved is taken to be up to date.
NotedByName(loaded, stored, seen) ==
  IF loaded = NoRow THEN seen
  ELSE IF loaded.current = seen.current THEN stored ELSE seen

\* A profile is inserted, or those of its columns are updated that differ from
\* what was loaded; the others keep what is stored by now.
Noted(loaded, stored, seen) ==
  IF loaded = NoRow THEN seen
  ELSE [current |-> IF loaded.current # seen.current THEN seen.current ELSE stored.current,
        changed |-> IF loaded.changed # seen.changed THEN seen.changed ELSE stored.changed]

AuditCommits(w) ==
  LET t == audit[w] IN
  /\ t.pc = "heard"
  /\ profile' = [m \in Managers |->
       IF m \in DOMAIN t.found
       THEN Noted(t.profile[m], profile[m], Observed(t.found[m], t.registered[m]))
       ELSE profile[m]]
  /\ audit' = [audit EXCEPT ![w] = Idle]
  /\ UNCHANGED <<registered, finalized, onFpl, command>>

\* The worker is lost: nothing is written, and the lock is free again.
AuditLost(w) ==
  /\ audit[w].pc # "idle"
  /\ audit' = [audit EXCEPT ![w] = Idle]
  /\ UNCHANGED <<registered, profile, finalized, onFpl, command>>

-----------------------------------------------------------------------------
(* The organiser's command, run with --apply (without it, it only reports). *)

\* Whether Gameweek 1 is finalized is asked once, before FPL is.
CommandStarts(allowed) ==
  /\ command.pc = "idle"
  /\ finalized => allowed
  /\ command' = [pc |-> "asking", allowed |-> allowed, toAsk |-> Managers,
                 registered |-> registered, adopted |-> {}]
  /\ UNCHANGED <<registered, profile, finalized, onFpl, audit>>

\* The next manager, in order of id: unreadable, agreeing, or to be renamed, in
\* which case his profile is loaded too.
CommandAsks(answered) ==
  /\ command.pc = "asking"
  /\ \E m \in command.toAsk :
       /\ \A k \in command.toAsk : m <= k
       /\ command' = [command EXCEPT
            !.toAsk = @ \ {m},
            !.adopted = @ \cup
              IF answered /\ Differs(onFpl[m], command.registered[m])
              THEN {[manager |-> m, name |-> onFpl[m], profile |-> profile[m]]} ELSE {}]
  /\ UNCHANGED <<registered, profile, finalized, onFpl, audit>>

AdoptedFor(m) == {x \in command.adopted : x.manager = m}

CommandCommits ==
  /\ command.pc = "asking" /\ command.toAsk = {}
  /\ registered' = [m \in Managers |->
       IF AdoptedFor(m) = {} THEN registered[m]
       ELSE (CHOOSE x \in AdoptedFor(m) : TRUE).name]
  /\ profile' = [m \in Managers |->
       IF \A x \in AdoptedFor(m) : x.profile = NoRow THEN profile[m]
       ELSE LET x == CHOOSE y \in AdoptedFor(m) : TRUE IN
            Noted(x.profile, profile[m], [current |-> x.name, changed |-> FALSE])]
  /\ command' = Idle
  /\ UNCHANGED <<finalized, onFpl, audit>>

\* The command fails or is interrupted: nothing is written.
CommandLost ==
  /\ command.pc # "idle"
  /\ command' = Idle
  /\ UNCHANGED <<registered, profile, finalized, onFpl, audit>>

-----------------------------------------------------------------------------
\* After the import a profile, where there is one, agrees with FPL.
JobsInit ==
  /\ registered \in [Managers -> Names]
  /\ onFpl \in [Managers -> Shown]
  /\ profile \in {f \in [Managers -> Profiles \cup {NoRow}] :
       \A m \in Managers : f[m] \in {NoRow, Observed(onFpl[m], registered[m])}}
  /\ finalized = FALSE
  /\ audit = [w \in Workers |-> Idle]
  /\ command = Idle

JobsNext ==
  \/ SetsFirstGameweek
  \/ \E m \in Managers, name \in Shown : Renames(m, name)
  \/ \E w \in Workers :
       \/ AuditStarts(w) \/ AuditCommits(w) \/ AuditLost(w)
       \/ \E heard \in SUBSET Audited : AuditHears(w, heard)
  \/ \E allowed \in BOOLEAN : CommandStarts(allowed)
  \/ \E answered \in BOOLEAN : CommandAsks(answered)
  \/ CommandCommits
  \/ CommandLost

JobsSpec == JobsInit /\ [][JobsNext]_jobVars

HearsAbout(m) ==
  \E w \in Workers, heard \in SUBSET Audited : m \in heard /\ AuditHears(w, heard)

WritesAbout(m) ==
  \E w \in Workers : audit[w].pc = "heard" /\ m \in DOMAIN audit[w].found /\ AuditCommits(w)

\* Every night brings an audit, and an audit ends; FPL does not refuse a manager
\* for ever, and not every audit that has heard of him is lost.
AuditsKeepComing ==
  /\ WF_jobVars(\E w \in Workers : AuditStarts(w))
  /\ WF_jobVars(\E w \in Workers : AuditCommits(w))
  /\ \A m \in Audited : SF_jobVars(HearsAbout(m)) /\ SF_jobVars(WritesAbout(m))

FairJobs == JobsSpec /\ AuditsKeepComing

-----------------------------------------------------------------------------
(* What must hold. *)

JobsTypeOK ==
  /\ registered \in [Managers -> Names]
  /\ profile \in [Managers -> Profiles \cup {NoRow}]
  /\ finalized \in BOOLEAN
  /\ onFpl \in [Managers -> Shown]
  /\ \A w \in Workers : audit[w].pc \in {"idle", "asking", "heard"}
  /\ command.pc \in {"idle", "asking"}

\* An audit inserts no profile a manager already has (manager_id is unique in
\* manager_external_profiles; services/cron.py keeps two audits apart).
InsertsNeverCollide ==
  \A w \in Workers : audit[w].pc # "idle" =>
    \A m \in Managers : audit[w].profile[m] = NoRow => profile[m] = NoRow

\* However audits and the command have overlapped, once a manager's names stay
\* what they are his profile comes to say so, and goes on saying so.
FlagSettles ==
  \A m \in Audited :
    <>[][onFpl'[m] = onFpl[m] /\ registered'[m] = registered[m]]_jobVars
      => <>[](profile[m] = Observed(onFpl[m], registered[m]))
=============================================================================
