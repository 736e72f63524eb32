------------------------------ MODULE UnitDeploy ------------------------------
(***************************************************************************)
(* ServiceManager::install_unit and deploy_unit (toride-service), for one  *)
(* unit and any number of callers in processes of their own: the units     *)
(* lock, the backup and its pruning, the atomic write, the systemctl verbs *)
(* one by one, the ledger, and the rollback.  Every step may fail and the  *)
(* process may die between any two.                                        *)
(***************************************************************************)
EXTENDS Naturals, FiniteSets

CONSTANTS
  Calls,         \* the calls; call c installs version c
  Original,      \* the version there before any of them
  None,          \* no file, no process, nobody
  Other,         \* any other contents: an older version, a torn copy
  Installs,      \* the calls that are install_unit
  Oneshots,      \* calls whose contents say Type=oneshot
  MaxRetained,   \* MAX_RETAINED_UNIT_BACKUPS
  Left,          \* how many backups earlier installs left
  ClockSteps,    \* may the wall clock be set back?
  Meddling       \* does anyone use systemctl on the unit meanwhile?

ASSUME DeployAssumption ==
  /\ {Original, None, Other} \cap Calls = {}
  /\ None \notin {Original, Other}
  /\ Installs \subseteq Calls
  /\ Left \in Nat
  /\ Oneshots \subseteq Calls
  /\ MaxRetained \in Nat \ {0}
  /\ ClockSteps \in BOOLEAN /\ Meddling \in BOOLEAN

VARIABLES
  file,          \* the version at the unit's path, None when there is none
  backups,       \* the <unit>.bak.<stamp> files
  clock,         \* the wall clock, in stamps taken
  lock,          \* who holds .toride-units.lock, None when nobody does
  enabled,       \* is the unit enabled?
  loaded,        \* the version systemd read at its last daemon-reload
  running,       \* the version of the unit's process, None when it is dead
  succeeded,     \* systemd's Result of the last process that ended
  ledger,        \* the calls recorded in the ledger document
  pc,            \* where each call is
  own,           \* the stamp of its backup, 0 for none
  prior,         \* the enablement it found: prior_enablement
  botched,       \* did a step of its rollback fail?
  copy,          \* the ledger document it loaded
  result,        \* its answer
  found,         \* history: the file when it took the lock
  cold,          \* history: the calls that took it while the unit was dead
  latest,        \* history: who took the lock last
  launched       \* history: the calls whose version was ever started

diskVars  == <<file, backups, clock>>
unitVars  == <<enabled, loaded, running, succeeded, launched>>
localVars == <<own, prior, botched, copy>>
pastVars  == <<found, cold, latest>>
vars ==
  <<diskVars, lock, unitVars, ledger, pc, localVars, result, pastVars>>

Versions == Calls \cup {Original, Other}

Preparing   == {"backup", "write", "unwrite", "prune"}
Activating  == {"reload", "query", "enable", "start", "confirm"}
Recording   == {"load", "save", "spent"}
RollingBack == {"disable", "restore", "unspent", "unload"}
Inside      == Preparing \cup Activating \cup Recording \cup RollingBack

Results ==
  {"none", "ok", "refused", "write_failed", "rolled_back", "rollback_failed",
   "crashed"}

TypeOK ==
  /\ file \in Versions \cup {None}
  /\ backups \subseteq [stamp : Nat \ {0}, is : Versions]
  /\ clock \in Nat
  /\ lock \in Calls \cup {None}
  /\ enabled \in BOOLEAN
  /\ loaded \in Versions \cup {None}
  /\ running \in Versions \cup {None}
  /\ succeeded \in BOOLEAN
  /\ ledger \subseteq Calls
  /\ pc \in [Calls -> Inside \cup {"idle", "lock", "done"}]
  /\ own \in [Calls -> Nat]
  /\ prior \in [Calls -> {"unknown", "enabled", "disabled"}]
  /\ botched \in [Calls -> BOOLEAN]
  /\ copy \in [Calls -> SUBSET Calls]
  /\ result \in [Calls -> Results]
  /\ found \in [Calls -> Versions \cup {None}]
  /\ cold \subseteq Calls
  /\ latest \in Calls \cup {None}
  /\ launched \subseteq Calls

Init ==
  /\ file \in {Original, None}
  /\ backups = {[stamp |-> 2 * n, is |-> Other] : n \in 1..Left}
  /\ clock = 2 * Left
  /\ lock = None
  /\ enabled \in BOOLEAN
  /\ loaded = file
  /\ running \in {file, None}
  /\ succeeded = TRUE
  /\ ledger = {}
  /\ pc = [c \in Calls |-> "idle"]
  /\ own = [c \in Calls |-> 0]
  /\ prior = [c \in Calls |-> "unknown"]
  /\ botched = [c \in Calls |-> FALSE]
  /\ copy = [c \in Calls |-> {}]
  /\ result = [c \in Calls |-> "none"]
  /\ found = [c \in Calls |-> None]
  /\ cold = {}
  /\ latest = None
  /\ launched = {}

Goes(c, to) ==
  /\ pc' = [pc EXCEPT ![c] = to]
  /\ UNCHANGED <<lock, result>>

\* The closure returns, which unlocks, or the process dies, which does too.
Returns(c, r) ==
  /\ pc' = [pc EXCEPT ![c] = "done"]
  /\ result' = [result EXCEPT ![c] = r]
  /\ lock' = IF lock = c THEN None ELSE lock
-----------------------------------------------------------------------------
Call(c) ==
  /\ pc[c] = "idle"
  /\ Goes(c, "lock")
  /\ UNCHANGED <<diskVars, unitVars, ledger, localVars, pastVars>>

Free == lock = None

\* with_units_lock: blocks until the lock is free.
Acquire(c) ==
  /\ pc[c] = "lock" /\ Free
  /\ lock' = c
  /\ pc' = [pc EXCEPT ![c] = "backup"]
  /\ found' = [found EXCEPT ![c] = file]
  /\ cold' = IF running = None THEN cold \cup {c} ELSE cold
  /\ latest' = c
  /\ UNCHANGED <<diskVars, unitVars, ledger, localVars, result>>

\* The directory or the lock file cannot be created, or the lock not taken.
Refuse(c) ==
  /\ pc[c] = "lock"
  /\ Returns(c, "refused")
  /\ UNCHANGED <<diskVars, unitVars, ledger, localVars, pastVars>>

\* unix_timestamp_nanos.
Stamp == clock + 1

\* Files of one name: a copy taken at a stamp already used replaces the other.
Store(b) == {other \in backups : other.stamp # b.stamp} \cup {b}

\* backup_unit, when there is a file: the name carries the wall clock.
Backup(c) ==
  /\ pc[c] = "backup"
  /\ \/ /\ file = None
        /\ Goes(c, "write")
        /\ UNCHANGED <<backups, clock, own>>
     \/ /\ file # None
        /\ clock' = clock + 1
        /\ \/ /\ backups' = Store([stamp |-> Stamp, is |-> file])
              /\ own' = [own EXCEPT ![c] = Stamp]
              /\ Goes(c, "write")
           \/ /\ backups' \in {backups, Store([stamp |-> Stamp, is |-> Other])}
              /\ Returns(c, "refused")
              /\ UNCHANGED own
  /\ UNCHANGED <<file, unitVars, ledger, prior, botched, copy, pastVars>>

\* atomic_write_with_perms.  It fails before the rename, or after it when the
\* mode cannot be set: then the former bytes are put back if they could be
\* read, the file removed if not, both best effort.
Write(c) ==
  /\ pc[c] = "write"
  /\ \/ /\ file' = c
        /\ Goes(c, IF own[c] # 0 THEN "prune"
                   ELSE IF c \in Installs THEN "spent" ELSE "reload")
     \/ file' \in {file, c, None} /\ Goes(c, "unwrite")
  /\ UNCHANGED <<backups, clock, unitVars, ledger, localVars, pastVars>>

OwnBackup(c) == {b \in backups : b.stamp = own[c]}

\* rollback_unit: from the backup if there is one, else by removing the file.
Restored(c) ==
  IF own[c] = 0 THEN file # None /\ file' = None
  ELSE \E b \in OwnBackup(c) : file' = b.is

\* A symlink is restored by a rename, and failing that by a removal and a
\* rename of which only the first may work.
NotRestored(c) == file' \in {file, None}

\* restore_after_failed_write.
Unwrite(c) ==
  /\ pc[c] = "unwrite"
  /\ Restored(c) \/ NotRestored(c)
  /\ Returns(c, "write_failed")
  /\ UNCHANGED <<backups, clock, unitVars, ledger, localVars, pastVars>>

\* Seeded fault: the oldest are kept.
KeepsOldest(b) ==
  Cardinality({other \in backups : other.stamp < b.stamp}) < MaxRetained

\* Among the MaxRetained with the greatest stamps?
Keeps(b) ==
  Cardinality({other \in backups : other.stamp > b.stamp}) < MaxRetained

\* prune_unit_backups: any removal may fail.
Prune(c) ==
  /\ pc[c] = "prune"
  /\ \E gone \in SUBSET {b \in backups : ~Keeps(b)} : backups' = backups \ gone
  /\ Goes(c, IF c \in Installs THEN "spent" ELSE "reload")
  /\ UNCHANGED <<file, clock, unitVars, ledger, localVars, pastVars>>
-----------------------------------------------------------------------------
\* Seeded fault: the rollback does not look at the enablement found.
FailsToRestore(c) == "restore"

\* Seeded fault: the rollback takes the units lock, which its caller holds.
FailsToRelock(c) == "lock"

\* activate_unit.  A verb that fails may have done its work all the same.
FailsTo(c) == IF prior[c] = "disabled" THEN "disable" ELSE "restore"

\* Seeded fault: the deploy relies on systemd noticing the new file.
ReloadSkipped(c) ==
  /\ pc[c] = "reload"
  /\ Goes(c, "query")
  /\ UNCHANGED <<diskVars, unitVars, ledger, localVars, pastVars>>

Reload(c) ==
  /\ pc[c] = "reload"
  /\ \/ loaded' = file /\ Goes(c, "query")
     \/ loaded' \in {loaded, file} /\ Goes(c, FailsTo(c))
  /\ UNCHANGED <<diskVars, enabled, running, succeeded, launched, ledger,
                 localVars, pastVars>>

\* is-enabled: exit 0, exit 1, any other exit, or no answer at all.
Query(c) ==
  /\ pc[c] = "query"
  /\ \/ /\ prior' = [prior EXCEPT ![c] = IF enabled THEN "enabled" ELSE "disabled"]
        /\ Goes(c, IF enabled THEN "start" ELSE "enable")
     \/ Goes(c, "enable") /\ UNCHANGED prior
     \/ Goes(c, FailsTo(c)) /\ UNCHANGED prior
  /\ UNCHANGED <<diskVars, unitVars, ledger, own, botched, copy, pastVars>>

Enable(c) ==
  /\ pc[c] = "enable"
  /\ \/ enabled' = TRUE /\ Goes(c, "start")
     \/ enabled' \in {enabled, TRUE} /\ Goes(c, FailsTo(c))
  /\ UNCHANGED <<diskVars, loaded, running, succeeded, launched, ledger,
                 localVars, pastVars>>

Launch ==
  /\ running' = loaded
  /\ launched' = launched \cup ({loaded} \cap Calls)
  /\ UNCHANGED <<enabled, loaded, succeeded>>

\* systemctl start: does nothing to a unit that is active.
StartUnit == IF running = None /\ loaded # None THEN Launch ELSE UNCHANGED unitVars

Start(c) ==
  /\ pc[c] = "start"
  /\ \/ StartUnit /\ Goes(c, "confirm")
     \/ (StartUnit \/ UNCHANGED unitVars) /\ Goes(c, FailsTo(c))
  /\ UNCHANGED <<diskVars, ledger, localVars, pastVars>>

\* confirm_unit_running.
Active(c) == running # None \/ (c \in Oneshots /\ succeeded)

\* Seeded fault: the units lock is released before the deploy is recorded.
ConfirmUnlocks(c) ==
  /\ pc[c] = "confirm"
  /\ Active(c)
  /\ pc' = [pc EXCEPT ![c] = "load"]
  /\ lock' = None
  /\ UNCHANGED <<diskVars, unitVars, ledger, localVars, result, pastVars>>

Confirm(c) ==
  /\ pc[c] = "confirm"
  /\ \/ Active(c) /\ Goes(c, "load")
     \/ Goes(c, FailsTo(c))
  /\ UNCHANGED <<diskVars, unitVars, ledger, localVars, pastVars>>

\* ActionLedger::append is a load and a save; failing only warns.
LoadLedger(c) ==
  /\ pc[c] = "load"
  /\ \/ copy' = [copy EXCEPT ![c] = ledger] /\ Goes(c, "save")
     \/ Goes(c, "spent") /\ UNCHANGED copy
  /\ UNCHANGED <<diskVars, unitVars, ledger, own, prior, botched, pastVars>>

SaveLedger(c) ==
  /\ pc[c] = "save"
  /\ ledger' \in {copy[c] \cup {c}, ledger}
  /\ Goes(c, "spent")
  /\ UNCHANGED <<diskVars, unitVars, localVars, pastVars>>

\* delete_backup: may fail.
Discard(c) == backups' \in {backups, backups \ OwnBackup(c)}

\* The end of a call that worked.  An install keeps its backup.
Succeed(c) ==
  /\ pc[c] = "spent"
  /\ IF c \in Installs THEN UNCHANGED backups ELSE Discard(c)
  /\ Returns(c, "ok")
  /\ UNCHANGED <<file, clock, unitVars, ledger, localVars, pastVars>>
-----------------------------------------------------------------------------
\* rollback_deployment.
Disable(c) ==
  /\ pc[c] = "disable"
  /\ \/ enabled' = FALSE /\ UNCHANGED botched
     \/ enabled' \in {enabled, FALSE} /\ botched' = [botched EXCEPT ![c] = TRUE]
  /\ Goes(c, "restore")
  /\ UNCHANGED <<diskVars, loaded, running, succeeded, launched, ledger, own, prior,
                 copy, pastVars>>

\* Seeded fault: a file that cannot be restored is logged and forgotten.
RestoreIgnoringFailure(c) ==
  /\ pc[c] = "restore"
  /\ Restored(c) \/ NotRestored(c)
  /\ Goes(c, "unspent")
  /\ UNCHANGED <<backups, clock, unitVars, ledger, localVars, pastVars>>

\* A restored file whose mode cannot be set counts as a failure too.
Restore(c) ==
  /\ pc[c] = "restore"
  /\ \/ Restored(c) /\ UNCHANGED botched
     \/ (Restored(c) \/ NotRestored(c)) /\ botched' = [botched EXCEPT ![c] = TRUE]
  /\ Goes(c, "unspent")
  /\ UNCHANGED <<backups, clock, unitVars, ledger, own, prior, copy, pastVars>>

\* The backup goes if the rollback worked.
Unspent(c) ==
  /\ pc[c] = "unspent"
  /\ IF botched[c] THEN UNCHANGED backups ELSE Discard(c)
  /\ Goes(c, "unload")
  /\ UNCHANGED <<file, clock, unitVars, ledger, localVars, pastVars>>

\* The last daemon-reload: failing only warns.
Unload(c) ==
  /\ pc[c] = "unload"
  /\ loaded' \in {loaded, file}
  /\ Returns(c, IF botched[c] THEN "rollback_failed" ELSE "rolled_back")
  /\ UNCHANGED <<diskVars, enabled, running, succeeded, launched, ledger, localVars,
                 pastVars>>

\* The process dies and the kernel drops its lock.
Crash(c) ==
  /\ pc[c] \in Inside
  /\ Returns(c, "crashed")
  /\ UNCHANGED <<diskVars, unitVars, ledger, localVars, pastVars>>
-----------------------------------------------------------------------------
\* The unit's process ends, well or badly.
UnitEnds ==
  /\ running # None
  /\ running' = None
  /\ succeeded' \in BOOLEAN
  /\ UNCHANGED <<enabled, loaded, launched, diskVars, lock, ledger, pc, localVars,
                 result, pastVars>>

\* ServiceManager's own enable, disable, start, stop and restart take no lock,
\* and other tools do not know it.
Meddle ==
  /\ Meddling
  /\ \/ enabled' \in BOOLEAN /\ UNCHANGED <<loaded, running, succeeded, launched>>
     \/ StartUnit
     \/ running # None /\ Launch
  /\ UNCHANGED <<diskVars, lock, ledger, pc, localVars, result, pastVars>>

SetClockBack ==
  /\ ClockSteps
  /\ clock' \in 0..clock /\ clock' # clock
  /\ UNCHANGED <<file, backups, lock, unitVars, ledger, pc, localVars, result,
                 pastVars>>

Works(c) ==
  \/ Call(c) \/ Acquire(c)
  \/ Backup(c) \/ Write(c) \/ Unwrite(c) \/ Prune(c)
  \/ Reload(c) \/ Query(c) \/ Enable(c) \/ Start(c) \/ Confirm(c)
  \/ LoadLedger(c) \/ SaveLedger(c) \/ Succeed(c)
  \/ Disable(c) \/ Restore(c) \/ Unspent(c) \/ Unload(c)

Done == (\A c \in Calls : pc[c] = "done") /\ UNCHANGED vars

Next ==
  \/ \E c \in Calls : Works(c) \/ Refuse(c) \/ Crash(c)
  \/ UnitEnds \/ Meddle \/ SetClockBack \/ Done

Spec == Init /\ [][Next]_vars

\* A call gets on with it: every systemctl command and file operation ends.
\* Nobody owes a crash, a refusal, a meddler or the end of the unit.
FairSpec == Spec /\ \A c \in Calls : WF_vars(Works(c))
-----------------------------------------------------------------------------
\* Until a call has succeeded, and even if it dies or its rollback fails, the
\* version it found is at the unit's path or in a backup: no step loses it
\* (prepare_unit, prune_unit_backups, rollback_deployment).
PreviousKept ==
  latest # None /\ found[latest] # None /\ result[latest] # "ok" =>
    \/ file = found[latest]
    \/ \E b \in backups : b.is = found[latest]

\* A deploy that reports DeployRolledBack leaves the enablement it had read,
\* unless someone else changed it meanwhile (rollback_deployment).
EnablementRestored ==
  ~Meddling /\ latest # None =>
    (result[latest] = "rolled_back" /\ prior[latest] # "unknown"
       => enabled = (prior[latest] = "enabled"))

\* A recorded deploy of a unit that was dead has started its own version: the
\* reload came before the start and nobody came between (activate_unit).
ColdDeploysLaunched == ~Meddling => ledger \cap cold \subseteq launched

\* "A unit installed, started, and confirmed active by one deploy_unit call"
\* (ledger.rs, ActionKind::UnitDeployed): every recorded version was started.
LedgerNamesLaunched == ledger \subseteq launched

\* A deploy that reported success is the last word on the unit until the next
\* caller takes the lock: its version is at the path, is what systemd has read
\* and is enabled (activate_unit).
DeployTakesEffect ==
  ~Meddling /\ Free /\ latest # None =>
    (result[latest] = "ok" /\ latest \notin Installs
       => file = latest /\ loaded = latest /\ enabled)

\* One call at a time is past the lock, which is never left behind by a call that
\* is answered, crashed or gone (with_units_lock, the kernel).
OneAtATime ==
  /\ \A c, d \in Calls : pc[c] \in Inside /\ pc[d] \in Inside => c = d
  /\ ~Free => pc[lock] \in Inside

\* The record is written after the last step that may lead into the rollback:
\* no recorded deploy was rolled back (deploy_unit).
LedgerNeverRolledBack ==
  \A c \in ledger : result[c] \in {"none", "ok", "crashed"}

\* A backup is never replaced by another of its name (backup_unit).
BackupsNotOverwritten ==
  [][\A b \in backups, other \in backups' : other.stamp = b.stamp => other = b]_backups

\* Whatever the clock does, a backup only ever goes for one of three reasons: it
\* is that of the call inside, which is over with it; a copy has taken its name;
\* or MaxRetained newer ones stay behind (prune_unit_backups, delete_backup).
\* Removals may fail, so more than MaxRetained may stay.
PruningSparesNewest ==
  [][\A b \in backups \ backups' :
       \/ ~Free /\ b.stamp = own[lock]
       \/ \E other \in backups' : other.stamp = b.stamp
       \/ Cardinality({other \in backups' : other.stamp > b.stamp}) >= MaxRetained]_backups

\* The ledger is append-only, though an append is a load and a save
\* (ActionLedger::append under the units lock).
LedgerKeepsRecords == [][ledger \subseteq ledger']_ledger

\* Every call that waits for the lock is answered.
CallEnds == \A c \in Calls : pc[c] = "lock" ~> pc[c] = "done"

\* Seen from outside, the file changes when a call answers.
Atomic ==
  INSTANCE AtomicDeploy WITH
    file <- IF lock = None THEN file ELSE found[lock]

ImplementsAtomicDeploy == Atomic!Spec
=============================================================================
