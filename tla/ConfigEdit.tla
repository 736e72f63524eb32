------------------------------ MODULE ConfigEdit ------------------------------
(***************************************************************************)
(* ConfigService::edit (toride-ssh): ~/.ssh/config is created when it is   *)
(* missing, an flock is taken, the file is loaded through a process-wide   *)
(* cache, edited and replaced.  Calls run in several processes, readers    *)
(* load without the lock, every step may fail, a process may die between   *)
(* any two, and a caller may drop the future at any await: what has been   *)
(* handed to a blocking thread then goes on without the lock.  The .bak    *)
(* copy is left out: it is best effort and nothing reads it.               *)
(***************************************************************************)
EXTENDS HostEdits, Naturals, FiniteSets

CONSTANTS
  Readers,       \* loads that take no lock: the collector of the SSH section
  Procs,         \* processes
  ProcOf,        \* whose each call and reader is
  NoFile,        \* marks a file that is not there
  None           \* nobody, no stamp, no entry

Loaders == Calls \cup Readers

Absent == {NoFile}
Contents == (SUBSET Hosts) \cup {Absent}

ASSUME ConfigAssumption ==
  /\ Calls \cap Readers = {}
  /\ ProcOf \in [Loaders -> Procs]
  /\ NoFile \notin Hosts
  /\ None \notin Calls
  /\ None \notin Nat \X Nat
  /\ None \notin [stamp : Nat \X Nat, data : SUBSET Hosts]
  /\ IsFiniteSet(Hosts)

VARIABLES
  file,          \* the config: its hosts and its modification time
  lock,          \* who holds config.toride.lock
  cache,         \* CONFIG_CACHE of each process
  pc,            \* where each loader is
  seen,          \* the stamp a load has taken
  ast,           \* what it has loaded, later what it will save
  before,        \* what a save found, to put back if it fails
  dropped,       \* calls whose future is gone while a thread works for them
  dead,          \* processes that died
  stray          \* history: has a write happened that the lock cannot order?

loadVars == <<seen, ast, before>>
vars == <<file, lock, cache, pc, loadVars, dropped, dead, stray>>

Loading == {"stat", "probe", "insert"}
Saving  == {"snapshot", "rename", "chmod", "restore"}
Inside  == Loading \cup Saving \cup {"edit", "success", "failure"}
Ended   == {"ok", "failed", "refused", "dropped", "crashed"}
Phases  == Inside \cup Ended \cup {"idle", "create", "lock"}

\* An edit reaches the blocking pool in these; dropping its future leaves the
\* thread running.
OnThread == Loading \cup Saving \cup {"create"}

Stamps == Nat \X Nat

\* FileStamp: the modification time and the length.
StampOf(f) == <<f.mtime, Cardinality(f.data)>>

TypeOK ==
  /\ file \in [data : Contents, mtime : Nat]
  /\ lock \in Calls \cup {None}
  /\ lock # None => pc[lock] \in Inside
  /\ cache \in [Procs -> [stamp : Stamps, data : SUBSET Hosts] \cup {None}]
  /\ pc \in [Loaders -> Phases]
  /\ seen \in [Loaders -> Stamps \cup {None}]
  /\ ast \in [Loaders -> SUBSET Hosts]
  /\ before \in [Calls -> Contents]
  /\ dropped \subseteq Calls
  /\ dead \subseteq Procs
  /\ stray \in BOOLEAN

Init ==
  /\ \E d \in Contents : file = [data |-> d, mtime |-> 0]
  /\ lock = None
  /\ cache = [p \in Procs |-> None]
  /\ pc = [l \in Loaders |-> IF l \in Calls THEN "idle" ELSE "stat"]
  /\ seen = [l \in Loaders |-> None]
  /\ ast = [l \in Loaders |-> {}]
  /\ before = [c \in Calls |-> Absent]
  /\ dropped = {}
  /\ dead = {}
  /\ stray = FALSE

Goto(l, phase) == pc' = [pc EXCEPT ![l] = phase]

\* A blocking thread is done: the call goes on, if its future still exists.
Resume(c, phase) ==
  /\ Goto(c, IF c \in dropped THEN "dropped" ELSE phase)
  /\ dropped' = dropped \ {c}

Unlock(c) == lock' = IF lock = c THEN None ELSE lock

\* Somebody remembers this stamp, for what the file held under it before.
Remembered(stamp) ==
  \/ \E p \in Procs : cache[p] # None /\ cache[p].stamp = stamp
  \/ \E l \in Loaders : seen[l] = stamp

\* Replace the contents; the clock may not have ticked since the last write.
Write(data) ==
  \E tick \in {0, 1} :
    file' = [data |-> data, mtime |-> file.mtime + tick]

Reuses == Remembered(StampOf(file'))
-----------------------------------------------------------------------------
\* ensure_config_file: the config is created outside the lock.
Begin(c) ==
  /\ pc[c] = "idle"
  /\ \/ file.data = Absent /\ Goto(c, "create")
     \/ file.data # Absent /\ Goto(c, "lock")
  /\ UNCHANGED <<file, lock, cache, loadVars, dropped, dead, stray>>

\* tokio::fs::write truncates whatever is there by now.
Create(c) ==
  /\ pc[c] = "create"
  /\ Write({})
  /\ stray' = (stray \/ file.data # Absent \/ Reuses)
  /\ \E phase \in {"lock", "failed"} : Resume(c, phase)
  /\ UNCHANGED <<lock, cache, loadVars, dead>>

CreateFails(c) ==
  /\ pc[c] = "create"
  /\ Resume(c, "failed")
  /\ UNCHANGED <<file, lock, cache, loadVars, dead, stray>>

\* edit_under_lock tries every five milliseconds.
TryLock(c) ==
  /\ pc[c] = "lock"
  /\ lock = None
  /\ lock' = c
  /\ Goto(c, "stat")
  /\ UNCHANGED <<file, cache, loadVars, dropped, dead, stray>>

OpenFails(c) ==
  /\ pc[c] = "lock"
  /\ Goto(c, "failed")
  /\ UNCHANGED <<file, lock, cache, loadVars, dropped, dead, stray>>
-----------------------------------------------------------------------------
\* load_cached_ast, for a call under the lock or a reader without it.
Loaded(l, data) ==
  \/ /\ l \in Calls
     /\ ast' = [ast EXCEPT ![l] = data]
     /\ Resume(l, "edit")
  \/ /\ l \in Readers
     /\ ast' = [ast EXCEPT ![l] = {}]
     /\ Goto(l, "stat")
     /\ UNCHANGED dropped

Stat(l) ==
  /\ pc[l] = "stat"
  /\ file.data # Absent
  /\ seen' = [seen EXCEPT ![l] = StampOf(file)]
  /\ Goto(l, "probe")
  /\ UNCHANGED <<file, lock, cache, ast, before, dropped, dead, stray>>

StatMissing(l) ==
  /\ pc[l] = "stat"
  /\ file.data = Absent
  /\ cache' = [cache EXCEPT ![ProcOf[l]] = None]
  /\ Loaded(l, {})
  /\ UNCHANGED <<file, lock, seen, before, dead, stray>>

\* Seeded fault: the cache goes by the length alone.
HitsByLength(l) ==
  /\ cache[ProcOf[l]] # None
  /\ cache[ProcOf[l]].stamp[2] = seen[l][2]

\* Seeded fault: the cache goes by the modification time alone.
HitsByTime(l) ==
  /\ cache[ProcOf[l]] # None
  /\ cache[ProcOf[l]].stamp[1] = seen[l][1]

Hits(l) ==
  /\ cache[ProcOf[l]] # None
  /\ cache[ProcOf[l]].stamp = seen[l]

ProbeHit(l) ==
  /\ pc[l] = "probe"
  /\ Hits(l)
  /\ seen' = [seen EXCEPT ![l] = None]
  /\ Loaded(l, cache[ProcOf[l]].data)
  /\ UNCHANGED <<file, lock, cache, before, dead, stray>>

ProbeMiss(l) ==
  /\ pc[l] = "probe"
  /\ ~Hits(l)
  /\ ast' = [ast EXCEPT ![l] = file.data]
  /\ Goto(l, "insert")
  /\ UNCHANGED <<file, lock, cache, seen, before, dropped, dead, stray>>

\* Seeded fault: the stamp is taken when the content is filed.
EntryStampedLate(l) == [stamp |-> StampOf(file), data |-> ast[l]]

\* The content is filed under the stamp taken before it was read.
Entry(l) == [stamp |-> seen[l], data |-> ast[l]]

Insert(l) ==
  /\ pc[l] = "insert"
  /\ cache' = [cache EXCEPT ![ProcOf[l]] = Entry(l)]
  /\ seen' = [seen EXCEPT ![l] = None]
  /\ Loaded(l, ast[l])
  /\ UNCHANGED <<file, lock, before, dead, stray>>

LoadFails(c) ==
  /\ pc[c] \in {"stat", "probe"}
  /\ seen' = [seen EXCEPT ![c] = None]
  /\ Resume(c, "failure")
  /\ UNCHANGED <<file, lock, cache, ast, before, dead, stray>>
-----------------------------------------------------------------------------
\* The closure, then save.
Edit(c) ==
  /\ pc[c] = "edit"
  /\ Fits(c, ast[c])
  /\ ast' = [ast EXCEPT ![c] = Edited(c, ast[c])]
  /\ Goto(c, "snapshot")
  /\ UNCHANGED <<file, lock, cache, seen, before, dropped, dead, stray>>

\* DuplicateHost, HostNotFound.
Refuse(c) ==
  /\ pc[c] = "edit"
  /\ ~Fits(c, ast[c])
  /\ Goto(c, "refused")
  /\ Unlock(c)
  /\ UNCHANGED <<file, cache, loadVars, dropped, dead, stray>>

\* atomic_write_with_perms, on a blocking thread.  A file that is there can be
\* read by its owner.
Snapshot(c) ==
  /\ pc[c] = "snapshot"
  /\ before' = [before EXCEPT ![c] = file.data]
  /\ Goto(c, "rename")
  /\ UNCHANGED <<file, lock, cache, seen, ast, dropped, dead, stray>>

Rename(c) ==
  /\ pc[c] = "rename"
  /\ Write(ast[c])
  /\ stray' = (stray \/ Reuses)
  /\ Goto(c, "chmod")
  /\ UNCHANGED <<lock, cache, loadVars, dropped, dead>>

\* The temporary file cannot be written, synced or renamed.
RenameFails(c) ==
  /\ pc[c] = "rename"
  /\ Resume(c, "failure")
  /\ UNCHANGED <<file, lock, cache, loadVars, dead, stray>>

Chmod(c) ==
  /\ pc[c] = "chmod"
  /\ \/ Resume(c, "success")
     \/ Goto(c, "restore") /\ UNCHANGED dropped
  /\ UNCHANGED <<file, lock, cache, loadVars, dead, stray>>

Restore(c) ==
  /\ pc[c] = "restore"
  /\ Write(before[c])
  /\ stray' = (stray \/ Reuses)
  /\ Resume(c, "failure")
  /\ UNCHANGED <<lock, cache, loadVars, dead>>

RestoreFails(c) ==
  /\ pc[c] = "restore"
  /\ Resume(c, "failure")
  /\ UNCHANGED <<file, lock, cache, loadVars, dead, stray>>

\* The future is polled again and returns; the guard is dropped.
Return(c) ==
  /\ \/ pc[c] = "success" /\ Goto(c, "ok")
     \/ pc[c] = "failure" /\ Goto(c, "failed")
  /\ Unlock(c)
  /\ UNCHANGED <<file, cache, loadVars, dropped, dead, stray>>
-----------------------------------------------------------------------------
\* The caller drops the future at an await; the guard goes with it, the thread
\* does not.
Drop(c) ==
  /\ pc[c] \notin Ended \cup {"idle"} /\ c \notin dropped
  /\ \/ /\ pc[c] \in OnThread
        /\ dropped' = dropped \cup {c}
        /\ UNCHANGED pc
     \/ /\ pc[c] \notin OnThread
        /\ Goto(c, "dropped")
        /\ UNCHANGED dropped
  /\ stray' = (stray \/ pc[c] \in Saving)
  /\ Unlock(c)
  /\ UNCHANGED <<file, cache, loadVars, dead>>

\* Seeded fault: a lock that outlives its process.
LockSurvives(gone) == lock

\* The kernel closes the files of a dead process.
LockAfter(gone) == IF lock \in gone THEN None ELSE lock

\* A process dies: its threads and its cache with it, and its flock.
Crash(p) ==
  LET gone == {l \in Loaders : ProcOf[l] = p /\ pc[l] \notin Ended} IN
  /\ p \notin dead
  /\ dead' = dead \cup {p}
  /\ pc' = [l \in Loaders |-> IF l \in gone THEN "crashed" ELSE pc[l]]
  /\ seen' = [l \in Loaders |-> IF l \in gone THEN None ELSE seen[l]]
  /\ lock' = LockAfter(gone)
  /\ cache' = [cache EXCEPT ![p] = None]
  /\ dropped' = dropped \ gone
  /\ UNCHANGED <<file, ast, before, stray>>
-----------------------------------------------------------------------------
Load(l) == Stat(l) \/ StatMissing(l) \/ ProbeHit(l) \/ ProbeMiss(l) \/ Insert(l)

Step(c) ==
  \/ Create(c) \/ TryLock(c) \/ Load(c) \/ Edit(c) \/ Refuse(c)
  \/ Snapshot(c) \/ Rename(c) \/ Chmod(c) \/ Restore(c) \/ Return(c)

Fault(c) ==
  \/ CreateFails(c) \/ OpenFails(c) \/ LoadFails(c)
  \/ RenameFails(c) \/ RestoreFails(c)

Next ==
  \/ \E c \in Calls : Begin(c) \/ Step(c) \/ Fault(c) \/ Drop(c)
  \/ \E r \in Readers : Load(r)
  \/ \E p \in Procs : Crash(p)

Spec == Init /\ [][Next]_vars

\* A begun call is polled and its threads run; nobody owes a call, a reader or
\* a fault.  Every call is made once, so the lock stays free in the end until
\* one tries: weak fairness is enough.
Fairness == \A c \in Calls : WF_vars(Step(c))

FairSpec == Spec /\ Fairness
-----------------------------------------------------------------------------
\* As long as no write strayed: an entry that a load would accept for the
\* file as it is holds what the file holds (load_cached_ast), whatever loads
\* and saves overlapped when it was filed.
CacheHonest ==
  ~stray /\ file.data # Absent =>
    \A p \in Procs :
      cache[p] # None /\ cache[p].stamp = StampOf(file)
        => cache[p].data = file.data

\* "two concurrent editors cannot each load the original, apply their edit,
\* and have the second save clobber the first" (ConfigService::edit): an
\* acknowledged edit of hosts that no other call touches is in the file.
Touched(c) == EditOf[c].from \cup EditOf[c].to

AcknowledgedKept ==
  \A c \in Calls :
    pc[c] = "ok" /\ (\A d \in Calls \ {c} : Touched(c) \cap Touched(d) = {})
      => Edited(c, file.data) = file.data

\* A call that begins is answered, dropped or dies: the lock is never left
\* behind by one that failed, was dropped or crashed.
EditEnds == \A c \in Calls : pc[c] # "idle" ~> pc[c] \in Ended

\* The edits look atomic to their callers until a write strays: a save goes on
\* after its caller dropped it, the config is created over one that somebody
\* has created meanwhile, or two writes share a stamp that a load remembers.
Applied == {c \in Calls : pc[c] \in {"chmod", "restore", "success"}}

StatusOf(phase) ==
  CASE phase \in {"chmod", "restore", "success"} -> "applied"
    [] phase = "failure" -> "void"
    [] phase \in {"ok", "failed", "refused"} -> phase
    [] phase \in {"dropped", "crashed"} -> "gone"
    [] OTHER -> "pending"

Status == [c \in Calls |-> StatusOf(pc[c])]

Base == IF Applied = {} THEN file.data ELSE before[CHOOSE c \in Applied : TRUE]

\* Until a write strays an acknowledged edit is in the file, unless another edit
\* of the same hosts was applied, failed or is gone: no edit of other hosts, and
\* nobody's undoing of one, takes it away (ConfigService::edit).
Alone(c) ==
  \A d \in Calls \ {c} :
    Touched(c) \cap Touched(d) # {} => Status[d] \in {"pending", "refused"}

AcknowledgedUntilStray ==
  ~stray =>
    \A c \in Calls :
      Status[c] = "ok" /\ Alone(c)
        => file.data # Absent /\ Edited(c, file.data) = file.data

Abstract ==
  INSTANCE EditedFile WITH
    content <- file.data, base <- Base, status <- Status, strayed <- stray

ImplementsEditedFile == Abstract!Spec
=============================================================================
