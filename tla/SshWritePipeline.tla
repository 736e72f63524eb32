-------------------------- MODULE SshWritePipeline --------------------------
(***************************************************************************)
(* The SSH panel of the TUI edits the operator's view at once and writes   *)
(* to disk later.  Three parties run concurrently:                         *)
(*                                                                         *)
(*   - the event loop (app/mod.rs, run), a biased select! that handles one *)
(*     ready branch per turn, polling the branches in a fixed order;       *)
(*   - one write task, which executes a batch of operations in order and   *)
(*     reports each on two channels: an error, if any, and then a "done";  *)
(*   - one collector task, which reads the disk part by part and sends a   *)
(*     snapshot back that replaces the operator's view.  A part it cannot  *)
(*     read is sent as empty: the view shows nothing where something is.   *)
(*                                                                         *)
(* Operations are numbered in the order the operator submits them; disk,   *)
(* shown and seen are sets of numbers: the operations whose effect is on   *)
(* disk, in the view, and in the snapshot being collected.  "Disk" stands  *)
(* for what the collection reads anew: the files of ~/.ssh and the agent.  *)
(* Diagnostics (up to a minute old), forwarding sessions (found through a  *)
(* memo of /tmp) and the security grades derived from them are left out.   *)
(***************************************************************************)
EXTENDS Naturals, Sequences

CONSTANTS
  MaxOps,        \* operations the operator submits in all
  MaxBatch,      \* operations one confirmed dialog may submit at once
  GraceTicks,    \* DASHBOARD_GRACE_TICKS
  Faults,        \* how an operation may fail: a subset of Failures
  Parts,         \* what a collection reads or misses as a whole: the list of
                 \* keys, known hosts, hosts, authorized keys or agent keys,
                 \* or one certificate
  PartOf         \* the part an operation edits

\* SshOpError::transient, SshOpError::reverting, and a panic, which the task
\* reports as a reverting error.
Failures == {"transient", "reverting", "panic"}

Ops == 1..MaxOps

ASSUME PipelineAssumption ==
  /\ MaxOps \in Nat \ {0}
  /\ MaxBatch \in Nat \ {0}
  /\ GraceTicks \in Nat
  /\ Faults \subseteq Failures
  /\ PartOf \in [Ops -> Parts]

VARIABLES
  mode,          \* "running", "draining" (should_quit seen) or "exited"
  screen,        \* nav.current()
  section,       \* dashboard.current_section(), SSH and the others
  grace,         \* dashboard_grace
  scan,          \* the branch the current turn of the loop polls next
  submitted,     \* operations submitted so far
  pending,       \* SshContent.pending_ops
  inFlight,      \* ssh_ops_in_flight
  cooldown,      \* ssh_write_cooldown: none, younger or older than 5 seconds
  revertPending, \* ssh_revert_pending
  writeTask,     \* ssh_write_task.is_some()
  batch,         \* the write task's operations still to execute
  step,          \* what the write task does next about the one it executed
  outcome,       \* how that one ended, until it is acknowledged
  errQ,          \* ssh_error channel: how each reported operation failed
  doneQ,         \* ssh_op_done channel: messages waiting
  col,           \* the collection behind ssh_collector.rx
  seen,          \* its snapshot, as far as it has read
  unread,        \* the parts it has still to read
  missing,       \* the parts it could not read
  stale,         \* history: a cooldown ended or was forgotten while it was pending
  disk,
  shown,
  blank,         \* the parts the view shows empty because they could not be read
  ran            \* history: operations executed, in order

uiVars    == <<screen, section, grace>>
taskVars  == <<batch, step, outcome, disk, ran>>
colVars   == <<col, seen, unread, missing, stale>>
viewVars  == <<shown, blank>>
vars == <<mode, uiVars, scan, submitted, pending, inFlight, cooldown,
          revertPending, writeTask, taskVars, errQ, doneQ, colVars, viewVars>>

Sections == {"Overview", "Ssh", "Other"}

\* The order of the select! arms; the arms of other sections' collectors and
\* of the animation timers touch none of this state.
Branches == {"event", "collector", "error", "done", "tick"}

TypeOK ==
  /\ mode \in {"running", "draining", "exited"}
  /\ screen \in {"Welcome", "Dashboard"}
  /\ section \in Sections
  /\ grace \in 0..GraceTicks
  /\ scan \in Branches
  /\ submitted \in 0..MaxOps
  /\ pending \in Seq(Ops)
  /\ inFlight \in Nat
  /\ cooldown \in {"none", "young", "old"}
  /\ revertPending \in BOOLEAN
  /\ writeTask \in BOOLEAN
  /\ batch \in Seq(Ops)
  /\ step \in {"idle", "report", "ack"}
  /\ outcome \in {"ok"} \cup Failures
  /\ errQ \in Seq({"ok"} \cup Failures)
  /\ doneQ \in Nat
  /\ col \in {"none", "started", "ready", "failed"}
  /\ seen \subseteq Ops
  /\ unread \subseteq Parts
  /\ missing \subseteq Parts
  /\ stale \in BOOLEAN
  /\ disk \subseteq Ops
  /\ shown \subseteq Ops
  /\ blank \subseteq Parts
  /\ ran \in Seq(Ops)

Init ==
  /\ mode = "running"
  /\ screen = "Welcome"
  /\ section = "Overview"
  /\ grace = 0
  /\ scan = "event"
  /\ submitted = 0
  /\ pending = <<>>
  /\ inFlight = 0
  /\ cooldown = "none"
  /\ revertPending = FALSE
  /\ writeTask = FALSE
  /\ batch = <<>>
  /\ step = "idle"
  /\ outcome = "ok"
  /\ errQ = <<>>
  /\ doneQ = 0
  /\ col = "none"
  /\ seen = {} /\ unread = {} /\ missing = {}
  /\ stale = FALSE
  /\ disk = {}
  /\ shown = {} /\ blank = {}
  /\ ran = <<>>
-----------------------------------------------------------------------------
\* Helpers of the event loop.

\* A turn that handled a branch starts over with the first one.
NextTurn == scan' = "event"

\* A branch that is not ready is passed over; past the last one the loop
\* sleeps until something wakes it and polls from the top again.
PassTo(branch) == scan' = branch

\* Seeded faults: a skip that forgets one of its two reasons, or never expires.
SkipIgnoringFlight   == cooldown = "young"
SkipIgnoringCooldown == inFlight > 0
SkipForever          == inFlight > 0 \/ cooldown # "none"

ShouldSkipSshRefresh == inFlight > 0 \/ cooldown = "young"

\* SshDataCollector::start, a no-op while a collection is pending.
StartCollector ==
  IF col = "none"
  THEN col' = "started" /\ seen' = {} /\ unread' = Parts /\ missing' = {}
  ELSE UNCHANGED <<col, seen, unread, missing>>

\* Seeded fault: a second task is spawned while one is running.
SpawnsWhileBusy(q, n) == screen = "Dashboard" /\ q # <<>>

\* flush_ssh_ops: does a queue q, with n operations in flight, spawn a batch?
SpawnsBatch(q, n) == screen = "Dashboard" /\ q # <<>> /\ n = 0

\* The spawned task takes the whole queue, and the cooldown starts now.
SpawnBatch(q) ==
  /\ batch' = q
  /\ pending' = <<>>
  /\ inFlight' = Len(q)
  /\ cooldown' = "young"
  /\ writeTask' = TRUE

\* Seeded fault: the drained operations are not put back.
FlushDropsHeld(q) ==
  IF SpawnsBatch(q, inFlight)
  THEN SpawnBatch(q)
  ELSE pending' = <<>> /\ UNCHANGED <<batch, inFlight, cooldown, writeTask>>

\* The flush after every terminal event; an undrained queue goes back in front.
FlushSshOps(q) ==
  IF SpawnsBatch(q, inFlight)
  THEN SpawnBatch(q)
  ELSE pending' = q /\ UNCHANGED <<batch, inFlight, cooldown, writeTask>>
-----------------------------------------------------------------------------
\* Terminal events.  Every one of them flushes the queue before the action it
\* returned, such as leaving the screen, is carried out.

EventFrame ==
  /\ mode = "running"
  /\ scan = "event"
  /\ NextTurn
  /\ UNCHANGED <<grace, revertPending, step, outcome, errQ, doneQ, colVars,
                 disk, ran>>

\* A dialog of an SSH tab is confirmed: the tab edits its own list and queues
\* the operations.  The security tab's detail dialog stays open meanwhile, so
\* this happens with a batch in flight too.
Submit(n) ==
  /\ EventFrame
  /\ screen = "Dashboard" /\ section = "Ssh"
  /\ submitted + n <= MaxOps
  /\ LET new == [i \in 1..n |-> submitted + i]
     IN  /\ FlushSshOps(pending \o new)
         /\ shown' = shown \cup {submitted + i : i \in 1..n}
  /\ submitted' = submitted + n
  /\ UNCHANGED <<mode, screen, section, blank>>

\* Any other key or mouse event, which may select another section.
OtherEvent ==
  /\ EventFrame
  /\ FlushSshOps(pending)
  /\ \/ UNCHANGED section
     \/ screen = "Dashboard" /\ section' \in Sections
  /\ UNCHANGED <<mode, screen, submitted, viewVars>>

\* Action::Back and Action::Continue; the SSH panel swallows keys while loading.
Navigate ==
  /\ EventFrame
  /\ FlushSshOps(pending)
  /\ \/ screen = "Welcome" /\ screen' = "Dashboard"
     \/ /\ screen = "Dashboard" /\ screen' = "Welcome"
        /\ section = "Ssh" => inFlight = 0
  /\ UNCHANGED <<mode, section, submitted, viewVars>>

\* Action::Quit, from the quit dialog or the help overlay.
Quit ==
  /\ EventFrame
  /\ FlushSshOps(pending)
  /\ mode' = "draining"
  /\ UNCHANGED <<screen, section, submitted, viewVars>>

NoEvent ==
  /\ mode = "running" /\ scan = "event"
  /\ PassTo("collector")
  /\ UNCHANGED <<mode, uiVars, submitted, pending, inFlight, cooldown,
                 revertPending, writeTask, taskVars, errQ, doneQ, colVars,
                 viewVars>>
-----------------------------------------------------------------------------
\* The other branches, in the order they are polled.

\* poll forgets the collection, whether or not it brought a bundle.
Collected ==
  /\ col' = "none" /\ stale' = FALSE
  /\ seen' = {} /\ unread' = {} /\ missing' = {}

\* A bundle has arrived: shown, unless writes are in flight or just were.
PollCollector ==
  /\ mode = "running" /\ scan = "collector"
  /\ CASE col = "ready" ->
            /\ NextTurn
            /\ Collected
            /\ IF ShouldSkipSshRefresh
               THEN UNCHANGED viewVars
               ELSE shown' = seen /\ blank' = missing
       [] col = "failed" ->
            /\ PassTo("error")
            /\ Collected
            /\ UNCHANGED viewVars
       [] OTHER -> PassTo("error") /\ UNCHANGED <<colVars, viewVars>>
  /\ UNCHANGED <<mode, uiVars, submitted, pending, inFlight, cooldown,
                 revertPending, writeTask, taskVars, errQ, doneQ>>

\* Reverting means forgetting the cooldown and collecting again.
FireRevert ==
  /\ cooldown' = "none"
  /\ StartCollector
  /\ stale' = (col # "none")

\* SshOpError.revert_optimistic of the error about to be received.
RevertOptimistic == Head(errQ) # "transient"

\* ssh_error_revert_scheduling: Noop, FireNow or Defer.
RecvError ==
  /\ mode = "running" /\ scan = "error"
  /\ errQ # <<>>
  /\ NextTurn
  /\ errQ' = Tail(errQ)
  /\ \/ /\ RevertOptimistic /\ inFlight = 0
        /\ FireRevert
        /\ UNCHANGED revertPending
     \/ /\ RevertOptimistic /\ inFlight > 0
        /\ revertPending' = TRUE
        /\ UNCHANGED <<cooldown, colVars>>
     \/ /\ ~RevertOptimistic
        /\ UNCHANGED <<revertPending, cooldown, colVars>>
  /\ UNCHANGED <<mode, uiVars, submitted, pending, inFlight, writeTask,
                 taskVars, doneQ, viewVars>>

NoError ==
  /\ mode = "running" /\ scan = "error"
  /\ errQ = <<>>
  /\ PassTo("done")
  /\ UNCHANGED <<mode, uiVars, submitted, pending, inFlight, cooldown,
                 revertPending, writeTask, taskVars, errQ, doneQ, colVars,
                 viewVars>>

\* saturating_sub(1)
Decrement(n) == IF n = 0 THEN 0 ELSE n - 1

\* Seeded fault: the deferred revert fires on the Dashboard only.
FiresOnDashboardOnly(spawned) ==
  revertPending /\ ~spawned /\ screen = "Dashboard"

\* should_fire_deferred_revert_now
FiresDeferredRevert(spawned) == revertPending /\ ~spawned

\* Seeded faults: the handle is cleared after the flush instead of before, or
\* the queue is not flushed when a batch ends.
BatchEndedForgetsTask ==
  LET spawned == SpawnsBatch(pending, 0)
  IN  /\ IF spawned
         THEN /\ batch' = pending /\ pending' = <<>>
              /\ inFlight' = Len(pending) /\ cooldown' = "young"
         ELSE inFlight' = 0 /\ UNCHANGED <<pending, batch>>
      /\ writeTask' = FALSE
      /\ IF FiresDeferredRevert(spawned)
         THEN revertPending' = FALSE /\ FireRevert
         ELSE /\ ~spawned => UNCHANGED cooldown
              /\ UNCHANGED <<revertPending, colVars>>

BatchEndedNoFlush ==
  /\ writeTask' = FALSE
  /\ inFlight' = 0
  /\ UNCHANGED <<pending, batch>>
  /\ IF FiresDeferredRevert(FALSE)
     THEN revertPending' = FALSE /\ FireRevert
     ELSE UNCHANGED <<cooldown, revertPending, colVars>>

\* The batch just ended: forget the task, start the queued one, or revert.
BatchEnded ==
  LET spawned == SpawnsBatch(pending, 0)
  IN  /\ IF spawned
         THEN SpawnBatch(pending)
         ELSE /\ writeTask' = FALSE
              /\ inFlight' = 0
              /\ UNCHANGED <<pending, batch>>
      /\ IF FiresDeferredRevert(spawned)
         THEN revertPending' = FALSE /\ FireRevert
         ELSE /\ ~spawned => UNCHANGED cooldown
              /\ UNCHANGED <<revertPending, colVars>>

RecvDone ==
  /\ mode = "running" /\ scan = "done"
  /\ doneQ > 0
  /\ NextTurn
  /\ doneQ' = doneQ - 1
  /\ IF Decrement(inFlight) = 0
     THEN BatchEnded
     ELSE /\ inFlight' = Decrement(inFlight)
          /\ UNCHANGED <<pending, batch, cooldown, writeTask, revertPending,
                         colVars>>
  /\ UNCHANGED <<mode, uiVars, submitted, step, outcome, disk, ran, errQ, viewVars>>

NoDone ==
  /\ mode = "running" /\ scan = "done"
  /\ doneQ = 0
  /\ PassTo("tick")
  /\ UNCHANGED <<mode, uiVars, submitted, pending, inFlight, cooldown,
                 revertPending, writeTask, taskVars, errQ, doneQ, colVars,
                 viewVars>>

\* start_section_collectors, restricted to what concerns the SSH section.
SshDue == section \in {"Overview", "Ssh"} \/ grace > 0

Tick ==
  /\ mode = "running" /\ scan = "tick"
  /\ NextTurn
  /\ IF screen = "Dashboard"
     THEN /\ grace' = IF section = "Overview" THEN GraceTicks ELSE Decrement(grace)
          /\ IF SshDue /\ ~ShouldSkipSshRefresh
             THEN cooldown' = "none" /\ StartCollector /\ UNCHANGED stale
             ELSE UNCHANGED <<cooldown, colVars>>
     ELSE UNCHANGED <<grace, cooldown, colVars>>
  /\ UNCHANGED <<mode, screen, section, submitted, pending, inFlight,
                 revertPending, writeTask, taskVars, errQ, doneQ, viewVars>>

NoTick ==
  /\ mode = "running" /\ scan = "tick"
  /\ NextTurn
  /\ UNCHANGED <<mode, uiVars, submitted, pending, inFlight, cooldown,
                 revertPending, writeTask, taskVars, errQ, doneQ, colVars,
                 viewVars>>
-----------------------------------------------------------------------------
\* The write task.  It keeps running while the loop drains it before exit.

loopVars == <<uiVars, scan, submitted, pending, inFlight, cooldown,
              revertPending, writeTask, colVars, viewVars>>

\* execute_op on the next operation.  One that failed or panicked half way may
\* still have reached the disk; a reverting error says that it did not.
ExecuteOp ==
  /\ mode # "exited"
  /\ step = "idle" /\ batch # <<>>
  /\ outcome' \in {"ok"} \cup Faults
  /\ \/ outcome' # "reverting" /\ disk' = disk \cup {Head(batch)}
     \/ outcome' # "ok" /\ UNCHANGED disk
  /\ batch' = Tail(batch)
  /\ ran' = Append(ran, Head(batch))
  /\ step' = IF outcome' = "ok" THEN "ack" ELSE "report"
  /\ UNCHANGED <<mode, loopVars, errQ, doneQ>>

SendError ==
  /\ mode # "exited"
  /\ step = "report"
  /\ errQ' = Append(errQ, outcome)
  /\ step' = "ack"
  /\ UNCHANGED <<mode, loopVars, batch, outcome, disk, ran, doneQ>>

SendDone ==
  /\ mode # "exited"
  /\ step = "ack"
  /\ doneQ' = doneQ + 1
  /\ step' = "idle" /\ outcome' = "ok"
  /\ UNCHANGED <<mode, loopVars, batch, disk, ran, errQ>>
-----------------------------------------------------------------------------
\* The collector task: it reads the parts some time after it was started, in
\* any order, and its bundle arrives some time after it has read them.

colFrame == <<mode, uiVars, scan, submitted, pending, inFlight, cooldown,
              revertPending, writeTask, taskVars, errQ, doneQ, viewVars>>

\* What is on disk of a part.
OnDisk(part) == {op \in disk : PartOf[op] = part}

\* One part is read, or cannot be and is left empty (unwrap_or_default).
CollectRead(part) ==
  /\ col = "started" /\ part \in unread
  /\ unread' = unread \ {part}
  /\ \/ seen' = seen \cup OnDisk(part) /\ UNCHANGED missing
     \/ missing' = missing \cup {part} /\ UNCHANGED seen
  /\ UNCHANGED <<col, stale, colFrame>>

\* SshManager::new failed before anything was read: every part is left empty.
CollectNothing ==
  /\ col = "started" /\ unread = Parts
  /\ unread' = {} /\ missing' = Parts
  /\ UNCHANGED <<col, seen, stale, colFrame>>

CollectSend ==
  /\ col = "started" /\ unread = {}
  /\ col' = "ready"
  /\ UNCHANGED <<seen, unread, missing, stale, colFrame>>

\* A panic loses the bundle.
CollectPanic ==
  /\ col = "started"
  /\ col' = "failed"
  /\ seen' = {} /\ unread' = {} /\ missing' = {}
  /\ UNCHANGED <<stale, colFrame>>

Collect ==
  \/ \E part \in Parts : CollectRead(part)
  \/ CollectNothing \/ CollectSend \/ CollectPanic

\* Five seconds have passed since the batch was spawned.
CooldownElapses ==
  /\ cooldown = "young"
  /\ cooldown' = "old"
  /\ stale' = (col # "none")
  /\ UNCHANGED <<mode, uiVars, scan, submitted, pending, inFlight, revertPending,
                 writeTask, taskVars, errQ, doneQ, col, seen, unread, missing,
                 viewVars>>
-----------------------------------------------------------------------------
\* Leaving: the write task gets five seconds to finish and is then aborted.

\* run has returned: the application is dropped, its tasks and channels with it.
Gone ==
  /\ mode' = "exited"
  /\ writeTask' = FALSE
  /\ batch' = <<>> /\ step' = "idle" /\ outcome' = "ok"
  /\ pending' = <<>> /\ inFlight' = 0
  /\ cooldown' = "none" /\ revertPending' = FALSE
  /\ errQ' = <<>> /\ doneQ' = 0
  /\ Collected
  /\ UNCHANGED <<uiVars, scan, submitted, viewVars, ran>>

\* The operation a task was executing when it was cut off may reach the disk.
CutOff ==
  \/ UNCHANGED disk
  \/ batch # <<>> /\ step = "idle" /\ disk' = disk \cup {Head(batch)}

DrainComplete ==
  /\ mode = "draining"
  /\ writeTask => batch = <<>> /\ step = "idle"
  /\ Gone
  /\ UNCHANGED disk

DrainTimeout ==
  /\ mode = "draining" /\ writeTask
  /\ ~(batch = <<>> /\ step = "idle")
  /\ Gone
  /\ CutOff

\* terminal.draw fails at the top of a turn: run returns the error at once, with
\* no drain, and the runtime is dropped while the task may be working.
DrawFails ==
  /\ mode = "running" /\ scan = "event"
  /\ Gone
  /\ CutOff

Leave == DrainComplete \/ DrainTimeout \/ DrawFails

Exited == mode = "exited" /\ UNCHANGED vars
-----------------------------------------------------------------------------
Loop ==
  \/ NoEvent \/ PollCollector \/ RecvError \/ NoError \/ RecvDone \/ NoDone
  \/ Tick \/ NoTick

Next ==
  \/ \E n \in 1..MaxBatch : Submit(n)
  \/ OtherEvent \/ Navigate \/ Quit
  \/ Loop
  \/ ExecuteOp \/ SendError \/ SendDone
  \/ Collect \/ CooldownElapses
  \/ Leave \/ Exited

Spec == Init /\ [][Next]_vars

\* The runtime keeps polling the loop, the tasks it spawned and the timers;
\* operations and reads end, well or not.  The operator owes nothing.
Fairness ==
  /\ WF_vars(Loop)
  /\ SF_vars(Tick)
  /\ WF_vars(ExecuteOp \/ SendError \/ SendDone)
  /\ WF_vars(\E part \in Parts : CollectRead(part))
  /\ WF_vars(CollectSend)
  /\ WF_vars(CooldownElapses)

FairSpec == Spec /\ Fairness
-----------------------------------------------------------------------------
\* The count the loop gates everything on is the number of operations whose
\* completion it has not heard of: still in the task, being reported, or with
\* their "done" in the channel (flush_ssh_ops, the done arm of run).
Unreported == Len(batch) + (IF step = "idle" THEN 0 ELSE 1)

InFlightExact ==
  mode # "exited" => inFlight = Unreported + doneQ

\* The handle the exit path drains is never dropped while the task has work
\* left, so quitting cannot abandon a write that it could have waited for.
WriteTaskTracked ==
  (mode # "exited" /\ Unreported > 0) => writeTask

\* A collected bundle replaces the view; an operator's edit adds to it.
Overwritten == viewVars' # viewVars /\ submitted' = submitted

\* A bundle never replaces the optimistic view while any operation of a batch
\* is unexecuted or unreported: the view would lose edits about to be written.
NoOverwriteDuringWrite ==
  [][Overwritten => Unreported = 0]_vars

\* The operations among these whose part the view does not miss.
Visible(ops, missed) == {op \in ops : PartOf[op] \notin missed}

\* A bundle that replaces the view shows what is on disk at that moment, but for
\* the parts it could not read, which it shows empty: the cooldown covers every
\* collection older than the batch.  Excused are only collections that outlive
\* a cooldown or that a revert found pending.
OverwriteIsFresh ==
  [][Overwritten /\ ~stale => shown' = Visible(disk, blank')]_vars

\* Until the application is left every operation submitted is run, in the task
\* or in the queue, once each and in the order of submission; what has run is
\* always the first so many (flush_ssh_ops puts an undrained queue back in front).
EveryOpOnce ==
  /\ mode # "exited" => ran \o batch \o pending = [i \in 1..submitted |-> i]
  /\ \A i \in DOMAIN ran : ran[i] = i

\* Nothing is on disk that was not submitted before everything still to run: at
\* most, once the task was aborted, the operation it was executing (the exit path).
DiskInOrder ==
  \A op \in disk :
    /\ op <= submitted
    /\ op <= Len(ran) + (IF mode = "exited" THEN 1 ELSE 0)

\* A fresh bundle never shows an edit that still waits to be written, and where
\* no operation can fail what is missing from it is exactly what waits and what
\* is in a part that could not be read: no other edit vanishes from the view.
Waiting == {pending[i] : i \in DOMAIN pending}

NoEditVanishes ==
  [][Overwritten /\ ~stale =>
       /\ shown' \subseteq (1..submitted) \ Waiting
       /\ Faults = {} => shown' = Visible((1..submitted) \ Waiting, blank')]_vars

\* A deferred revert always has a batch in flight whose end it can wait for:
\* otherwise nothing would ever fire it (the done arm of run).
RevertHasBatch == revertPending => inFlight > 0

\* A deferred revert is not forgotten behind later batches.
RevertServed ==
  revertPending ~> (~revertPending \/ mode # "running")

\* Operations queued behind a batch in flight are started, as long as the
\* operator does not leave the Dashboard.
QueuedOpsStart ==
  (pending # <<>> /\ inFlight > 0)
    ~> (pending = <<>> \/ screen = "Welcome" \/ mode # "running")

\* Whatever operations failed, whatever parts could not be read and whatever
\* collections were lost, once collections no longer fail and the operator stays
\* on the SSH section the view is eventually the disk again, with no part empty.
Watching == mode = "running" /\ screen = "Dashboard" /\ section = "Ssh"

CollectsWell == col # "failed" /\ missing = {}

ViewConverges ==
  <>[](Watching /\ CollectsWell) => <>[](shown = disk /\ blank = {})

\* Operations run in submission order, each once; none is lost before leaving.
Abstract ==
  INSTANCE OpQueue WITH
    MaxBatch <- MaxBatch,
    submitted <- submitted,
    queue <- IF mode = "exited" THEN <<>> ELSE batch \o pending,
    ran <- ran,
    leaving <- mode # "running"

ImplementsOpQueue == Abstract!Spec
=============================================================================
