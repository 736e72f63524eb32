# Verification of toride in TLA+

toride is a terminal application for managing Linux servers: a TUI
(`src/crates/toride`) on top of some twenty libraries that run external programs
and edit system files. This directory models the parts of it whose correctness
depends on the order in which concurrent, failing or crashing actors take their
steps, checks the models with TLC, and proves the most important facts with
TLAPS for every value of the constants.

`PROJECT.json` is the index: it maps every definition to the source lines it
stands for, and lists the runs, the seeded faults, the hazards, the findings and
the theorems. This file explains them.

## 1. The system

### 1.1 Components

State is what the component keeps between two calls; "hard" is what a test
hardly reaches.

| Component (source) | State | Operations | Hard | What makes it correct |
|---|---|---|---|---|
| SSH write pipeline (`toride/src/app/mod.rs`, `ssh_data.rs`, `ui/.../ssh`) | queue of operations, count in flight, cooldown, deferred revert, handle of the write task, two channels, pending collection, the view | terminal events, flush, execute and report an operation, collect, show a bundle, revert, drain at exit | an event loop, a write task and a collector task interleave; stale snapshots; panics; shutdown with writes in flight | operations run once and in order; the view never loses an edit about to be written, and becomes the disk in the end if the disk can be read; nothing queued is forgotten |
| Captured asynchronous runner (`toride-runner/src/tokio_runner.rs`) | where one future is suspended | spawn, write stdin, drain against exit under a timeout, kill and reap, be dropped | exit before the last output, breach against timeout, a caller that drops the future | one answer, after the child is reaped, truthful about the cap; an Ok answer is complete; a timeout always answers |
| Captured blocking runner (`toride-runner/src/duct_runner.rs`) | one thread that waits, two readers, a stdin writer, a shared counter and latch | spawn, read, count, latch, kill, wait, collect, judge | four threads and a child; a grandchild that holds the pipes | as above, and the calling thread is never blocked on a pipe |
| Unit deployment (`toride-service/src/manager.rs`, `ledger.rs`, `toride-fs/src/lock.rs`, `atomic.rs`) | unit file, backups, units lock, systemd's view, ledger | install, deploy: lock, back up, write, prune, reload, enable, start, confirm, record, roll back | several processes, any step failing or dying, systemctl used by others, the wall clock | seen from outside a deploy is atomic; the previous version is never lost; rollback restores enablement; the ledger is append-only |
| Streaming runner (`tokio_runner.rs`, `streaming.rs`) | where one future is suspended, a task for stderr, a bounded channel, what the sink was shown | stream a command | the channel still holds chunks when stdout ends; a sink that refuses, or never returns; a task that outlives the call | as the other runners, and an Ok answer has shown the sink everything, never more than the cap |
| User SSH configuration (`toride-ssh/crates/config`, `toride-fs/src/atomic.rs`) | `~/.ssh/config`, a lock file, a cache in each process | load; edit: create, lock, load, change, save, undo | readers without the lock fill the cache the editors use; two writes in one clock tick; a dropped future whose save goes on | an acknowledged edit stays; the cache never answers with what the file does not hold |
| Application manager (`toride-apps`) | ledger of installed applications, in memory and in a document; a listing per call | install, uninstall, update, adopt, in batches | failed and detached saves, crashes between the package manager and the ledger, others at the package manager | the document is the ledger; nothing foreign is removed; what an answer says a probe saw was so during the call |
| Tool installer (`toride-installer`) | the installed binary | download, verify, extract, swap | interrupted swap | the old or the new tool |
| Rest of the SSH library (`toride-ssh`) | OpenSSH files, agents | keys, certificates, known_hosts, authorized_keys, uploads | edits under a lock, as of the configuration | no edit lost |
| Backup client (`toride-backup`) | restic and borg repositories, schedule units | back up, restore, schedule | partial restore | restore is all or nothing |
| fail2ban client (`toride-fail2ban`) | history store | ban, unban, record | the store against the daemon | history append-only |
| Registry (`toride-registry`) | merged catalogue, cache | fetch, merge | alias collisions | merging is order-independent |
| ufw, mise, system collectors (`ufw-kit`, `toride-mise`, `toride-status`, `toride-monitor`, `toride-audit`, `toride-harden`, `toride-updates`, `toride-users`, `toride-cloud`, `toride-proxy`, `toride-tailscale`, `toride-wireguard`) | none of their own | one command or one file at a time | parsing | not protocols |
| Other TUI sections, widgets, persistence | view state | rendering, read-only collectors | - | not protocols |
| Website, scripts, packaging | - | - | - | - |

The first seven are modelled. The rest is listed in `PROJECT.json` with the
reason; those that are worth modelling are in the plan (section 5).

### 1.2 How they interact

The TUI submits operations to its write task, which calls the libraries (for
most operations the edits of `ConfigEdit`), while its collector loads the same
file without the lock; the libraries run external programs through one of the two runners of
`toride-runner`, which share one contract, and write files through `toride-fs`.
Unit deployment uses a runner for every systemctl verb and `toride-fs` for the
lock and the atomic write: in its model each verb is one step that may work,
fail, or fail after having worked, which is what the runners' contract (a
command either is answered with its status, or killed at some point) leaves
possible. The application manager's package commands are taken the same way, and
a dropped call kills the command it awaits, as the runners do. `EditedFile` is
what a write task's operation may rely on.

## 2. The modules

| Module | What it is |
|---|---|
| `OpQueue` | abstract: operations are queued as submitted, run in that order, once, and dropped only on leaving |
| `SshWritePipeline`, `MCSshWritePipeline` | the event loop, the write task and the collector; implements `OpQueue` |
| `SshWritePipeline_proofs` | its theorems |
| `CommandContract` | abstract: what every runner promises about one command |
| `ChildProcess` | the child and its pipes as the operating system presents them; used by the three runners |
| `TokioRun`, `TokioRun_proofs` | the asynchronous runner; implements `CommandContract` |
| `DuctRun`, `DuctRun_proofs` | the blocking runner; implements `CommandContract` |
| `StreamRun`, `StreamRun_proofs` | the streaming runner; implements `CommandContract` |
| `AtomicDeploy` | abstract: what callers of a deploy may rely on |
| `UnitDeploy`, `UnitDeploy_proofs` | deployments by any number of processes; implements `AtomicDeploy` |
| `HostEdits` | what an edit does to a set of hosts; used by the next two |
| `EditedFile` | abstract: what the callers of a configuration edit may rely on |
| `ConfigEdit`, `MCConfigEdit`, `ConfigEdit_proofs` | edits and loads by any number of processes; implements `EditedFile` |
| `AppsFacade`, `AppsFacade_proofs` | the application manager and its ledger |

Definitions under a comment "Seeded fault" are plausible bugs in the definition
they precede. They are not part of any specification; each property is shown to
be able to fail by putting one of them in the place of the definition it
mutates (`mutants` in `PROJECT.json`).

### 2.1 `SshWritePipeline`

- **Operations** are numbers in the order of submission. `disk`, `shown` and
  `seen` are sets of them: whose effect is on disk, in the operator's view, and
  in the snapshot a collection has read. An operator's edit adds to the view, a
  bundle replaces it. `PartOf` says which part of the view an operation edits:
  the keys, known hosts, hosts, authorized keys, agent keys, or one certificate.
- **The event loop** (`App::run`) is a biased `select!`: it polls its branches
  in a fixed order and handles the first that is ready. `scan` is the branch it
  polls next. A handled branch starts the order over (`NextTurn`), one that is
  not ready is passed over (`NoEvent`, `NoError`, ...). Things may arrive between
  two polls, so every order of arrival within a turn is there.
- **Terminal events** are `Submit`, `OtherEvent`, `Navigate` and `Quit`; each of
  them contains the `flush_ssh_ops` that follows every event.
- **The other branches** are `PollCollector`, `RecvError` (with
  `ssh_error_revert_scheduling`), `RecvDone` (with the reset of the handle, the
  flush and the deferred revert, in that order) and `Tick`
  (`start_section_collectors`).
- **The write task** is `ExecuteOp`, `SendError`, `SendDone`. An operation fails
  in the ways in `Faults`; one that fails without asking for a revert, and one
  that panics, may or may not have reached the disk.
- **The collector** (`collect_real_data`) reads the parts in any order
  (`CollectRead`), one at a time as far as the disk is concerned, and sends what
  it has (`CollectSend`). A part it cannot read is sent as an empty list
  (`unwrap_or_default`), and nothing in the bundle says so: `missing` is what the
  bundle lacks, `blank` what the view has shown empty since. `CollectNothing` is
  a failed `SshManager::new`, which lacks every part; `CollectPanic` loses the
  bundle. **Time** is one action, `CooldownElapses`: five seconds since the last
  spawn have passed.
- **Exit** is `DrainComplete` and `DrainTimeout`: the write task gets five
  seconds and is then aborted, possibly between an operation's effect and its
  report. `DrawFails` is the third way out: an error of `terminal.draw` leaves
  `run` at once, with no drain, and dropping the runtime cuts the task off
  (`CutOff`) wherever it is.
- **History variables**: `ran` (what was executed) and `stale` (the pending
  collection has outlived a cooldown, or a revert found it pending). Neither
  guards a step.

Left out: the collectors of the other sections, drawing that works, animation
timers, theme persistence (they touch none of this state), and what an operation
does to the files. Of the bundle, diagnostics are left out, which come from a
cache of up to a minute (`ssh_data.rs:198-202`), with the security grades that
are derived from them, and forwarding sessions, which are found through a memo
of `/tmp` of half a second: no property says anything of these. The per-part
caches behind a file's stamp are taken to tell one write from the next; what
happens when they cannot is in `ConfigEdit`.

### 2.2 `ChildProcess`, `TokioRun`, `DuctRun`, `StreamRun`

The child is any program: it writes, reads, closes its ends, lingers, exits, or
does nothing, in any order (`ChildStep`), and a grandchild may inherit its ends
of the pipes and keep them after the child's death (`Inherited`). Data is counted
in units; a pipe holds `PipeSize` of them and a writer to a full pipe blocks,
because its action is disabled. `Kill` is SIGKILL, `Reaps` collects the status.

`TokioRun` is one future, so one variable, `phase`, says where it is suspended:
writing stdin, in the race of draining against exit under the timeout, in the
bounded wait for the status after both pipes are drained, or in kill-and-reap.
`capped` selects between the two captured paths of the source; the race differs
only in its end (`RaceEnds`). `Dropped` may happen at any await, and `OrphanReaped`
is the runtime collecting a child whose handle was dropped.

`DuctRun` is the path with a cap: the calling thread (`main`), two readers and
the stdin writer, each with its own program counter. A reader looks at the latch,
blocks in `read`, adds to the shared counter, and then keeps its chunk or sets
the latch and kills: five separate steps, so that every interleaving of the
counter, the latch, the kill, the timeout and the natural exit is there. After
the wait the calling thread gives each reader two seconds and then proceeds
without it. The model gives up only on a reader that cannot move (its pipe is
empty and somebody still holds the other end) or that has gone: that real time
suffices for a reader that can move is an assumption, named in `Unavailable`.

`StreamRun` is one future and one task. The future shows every chunk to a sink
and waits until the sink has taken it (`SinkTakes`), so a sink that holds on to
an event is a step that never comes; it may also refuse (`SinkRefuses`). The task
reads standard error and sends it through a channel of `ChannelSize` chunks;
`held` is the chunk it has read and not yet sent. End of standard error is the
task being gone and the channel empty (`Ended`). `redact` says that output is held
back up to the end of its line, so that `captured` (counted) and `shown` (taken
by the sink) differ, and `Flush` shows the rest. `Abort` stops the task on every
failing path; a dropped future does not, and its task goes on until it next has
to send.

Left out: name lookup and environment preparation (one `refused` outcome), text
conversion, redaction itself, sequence numbers of events, errors of `wait` and `read` other than
end of file, and the blocking runner without a cap, whose threads are the duct
library's.

### 2.3 `UnitDeploy`

Calls of `install_unit` and `deploy_unit`, each in a process of its own, about one
unit; a version is named after the call that installs it. `pc` says where each
call is: one action per step of `prepare_unit` (`Backup`, `Write`, `Unwrite`,
`Prune`), `activate_unit` (`Reload`, `Query`, `Enable`, `Start`, `Confirm`), the
ledger's append (`LoadLedger`, `SaveLedger`), the end (`Succeed`), and
`rollback_deployment` (`Disable`, `Restore`, `Unspent`, `Unload`).

- Every step has its failures as disjuncts, including failing after having done
  its work (a verb that times out, a rename that happened before the mode could
  not be set). `Crash` ends a process anywhere in the critical section and frees
  its lock, as the kernel does.
- Backups carry the wall clock in their name and are pruned by it, so `clock` is
  a variable; `SetClockBack` is there when `ClockSteps` is set.
- systemd is `enabled`, `loaded` (the version read at the last daemon-reload),
  `running` and `succeeded`. `systemctl start` does nothing to an active unit.
  `UnitEnds` is the unit's own process ending; `Meddle` is anybody using systemctl
  meanwhile, which takes no lock in the source either.
- **History variables**: `found`, `cold`, `latest`, `launched`.

Left out: name validation, read-only queries, permissions and symlinks (whose
restoring can fail in ways `NotRestored` includes), contents other than
`Type=oneshot`, and a daemon-reload by others in mid-deploy (`Meddle` has the verbs on
the unit itself).

### 2.4 `ConfigEdit`

`ConfigService::edit` and `load` on `~/.ssh/config`, which is a set of hosts with a
modification time, or `NoFile`. A call goes from `ensure_config_file` (`Begin`,
`Create`, outside the lock) over `edit_under_lock` (`TryLock`) to
`load_cached_ast` (`Stat`, `StatMissing`, `ProbeHit`, `ProbeMiss`, `Insert`), the
closure (`Edit`, `Refuse`) and `atomic_write_with_perms` (`Snapshot`, `Rename`,
`Chmod`, `Restore`), and back (`Return`, which drops the guard). A reader goes
through the load only, takes no lock, and shares `CONFIG_CACHE` with the calls of
its process.

- Every step that can fail has its failure as an action of its own. `Crash` ends
  a process with its cache, its threads and its lock.
- `Drop` drops a future at an await. Where the code is on a blocking thread
  (`OnThread`), the thread goes on (`dropped`) but the guard of the lock is gone.
- The clock may not tick between two writes (`Write`), and the cache compares the
  modification time and the length, here the number of hosts (`StampOf`).
- **History**: `stray` is set by the writes which the lock does not order or the
  stamp does not tell apart: the creation of a config that has appeared
  meanwhile, a save dropped by its caller, a write that gives the file a stamp
  somebody remembers. `EditedFile` promises nothing from then on.

Left out: positions, comments and options in the file, the `.bak` copy (best
effort, and nothing reads it), the mode of the directory.

### 2.5 `AppsFacade`

One facade of `toride-apps` in one process, over a set of applications that the
package managers have (`host`) and anybody may install or remove (`Outside`).
`records` is the ledger in memory, `doc` its document. A call works through its
batch (`todo`); `at` is what the item in hand awaits, one action per await:
`ProbeRecord`, `Resolve`, `ProbeForeign`, `Run`, `Verify`, then `Saved` or
`SaveFails`. A probe, a plan and a command may fail; a command that fails may
have done its work.

- `listing` is `ForeignListings`: the answer of one backend shared by all items of
  one install call, and by no other.
- A save runs on the blocking pool. `Dropped` ends the call at any await; what it
  was saving goes on in `saves` and lands at any time (`Land`), maybe after the
  save of a later call.
- `Crash` ends the process; `Build` loads the document and moves one that cannot
  be read aside, which `NewerVersion` may have left.
- **History**: `lost` (a save failed or was overtaken), `claimed` (what toride has
  installed or adopted), `seen` and `missed` (on the host, or not, at some time
  since the call began).

Left out: versions, pins and dry runs; the read-only queries; a second process
(the module's documentation says that the last save wins); the choice of a
backend, one step that may fail; the blocking twin, which runs the same code on
a runtime of its own.

## 3. The runs

All runs finish; the largest has about 5 million distinct states. A deadlock
would be reported in each but those of `ConfigEdit`, where all calls end and
nothing more may happen; elsewhere a model that has really ended stutters in an
explicit step (`Done`, `Exited`).

| Run | Constants that matter | Checks | Shows |
|---|---|---|---|
| `ssh_full` | 2 operations on 2 parts, batches of up to 2, transient failures and panics | `RevertHasBatch`, `InFlightExact`, `WriteTaskTracked`, `NoOverwriteDuringWrite`, `OverwriteIsFresh`, `ImplementsOpQueue` | the bookkeeping between loop and task is exact whatever fails, a deferred revert has a batch to wait for, and no bundle undoes a write |
| `ssh_live` | 2 operations on 1 part, batches of up to 2, transient failures and panics | `RevertServed`, `QueuedOpsStart`, `ViewConverges` | nothing is forgotten, and once collections no longer fail the view becomes the disk again |
| `tokio` | pipe 2, output 3, cap 2, payloads 0, 1 and 3 | `OkComplete`, `ImplementsContract`, `FedAnswered`, `BreachEndsRun` | against every child the answer is single, late enough, true and, once stdin is written, certain |
| `tokio_stdin` | pipe 1, payload 2 | `Answered` is violated | finding 1 |
| `duct` | pipe 1, output 2, cap 1, payloads 0 and 2 | `RetainedWithinCap`, `BreachNotMislabelled`, `OkLosesOnlyHeldStreams`, `ImplementsContract`, `Answered`, `BreachEndsRun` | no interleaving of the four threads and the child breaks the contract or blocks the caller |
| `deploy_safe` | 2 deploys, 1 earlier backup, 1 retained | `DeployTakesEffect`, `PreviousKept`, `EnablementRestored`, `ColdDeploysLaunched`, `LedgerKeepsRecords` | the previous version, the enablement and the ledger survive every failure and crash, and a successful deploy is in effect |
| `deploy_wild` | an install and a deploy, clock steps, meddling | `ImplementsAtomicDeploy`, `CallEnds` | even so a call looks atomic, and every call is answered |
| `deploy_noop` | 2 deploys | `LedgerNamesLaunched` is violated | finding 2 |
| `config_all` | 2 editing calls in 2 processes, one adding a host and one removing another, 1 reader | `CacheHonest`, `AcknowledgedUntilStray`, `ImplementsEditedFile`, `EditEnds` | whatever fails, dies or is dropped, until a write strays the cache is honest, edits are one at a time and what a call acknowledged no other call takes away; the lock is not left behind |
| `config_create` | 2 calls of one process, the config may be missing | `AcknowledgedKept` is violated | finding 3 |
| `stream` | pipe 2, output 3, cap 2, channel of 2 chunks, payloads 0 and 3 | `OkComplete`, `SinkWithinCap`, `NoTaskLeft`, `ImplementsContract`, `FedAnswered`, `BreachEndsRun` | against every child and every sink the session is answered, completely or with an error, and nothing is left behind |
| `apps` | 2 applications, one of them listed, batches of 2, 2 detached saves | `AnswersRecorded`, `Durable`, `OwnRemovals`, `AnswersCurrent` | the ledger is in its document, answers say what it says, foreign applications are safe, what an answer says a probe saw was so during the call |

### 3.1 Why the bounds are enough

- **SSH.** Two operations are enough for a batch of two, a batch followed by a
  queued batch, and an operation queued while another is in flight: all the
  loop distinguishes about the queue is empty or not, and about the count is
  zero, one or more. A third operation repeats one of these situations; the
  theorems of section 4 hold for any number. `GraceTicks = 1` has the three
  cases of the countdown (set, running, expired); `ssh_live` leaves the countdown
  out (0), because it only adds ticks on other sections at which a collection
  may start. Two parts let one bundle hold one edit and lack another; in
  `ssh_live` one part is enough, since a view is either blank somewhere or not.
  `Faults` is transient failures and panics: a panic may or may not have reached
  the disk and reverts, so it covers the reverting error, which reverts and has
  not.
- **Runners.** The cap is smaller than `MaxOutput`, so breaches happen, on one
  stream or only as the sum of both; a payload is larger than the pipe, so that
  writing it blocks; for `tokio` one also fits. The channel of the streaming
  runner (64 chunks in the code) is smaller than the output, so it fills up. Pipes of one unit already make
  a writer block and a reader find part of the output.
- **Deploy.** Two calls are enough for one to wait for the other, to find what
  the other left behind (by success, rollback, failed rollback or crash), and to
  overlap if the lock did not work. `MaxRetained = 1` with one earlier backup
  makes pruning happen in the first call that takes a backup.
- **Configuration.** The two calls edit different hosts, so that an acknowledged
  edit of one is exposed to everything the other does: its save from a stale
  cache, its failures, its undoing. They live in two processes, so that one of
  them finds the file changed under its cache, and the reader shares the cache
  of one of them. That edits of one host keep their order is part of what
  `EditsAreAtomic` proves for every set of calls. A crash of either process is there at every step.
- **Applications.** Two applications and batches of two are what a shared listing
  needs to matter; one is listed and one is not. Two slots for detached saves
  give a save overtaken by a later call's and two that land in either order.

### 3.2 Fairness

A liveness property is worth what its fairness assumptions are. Assumed is only
what the runtime or the kernel provides:

- `SshWritePipeline`: the loop's branches are polled (`WF(Loop)`); the write task
  runs and its operations end (`WF`); a collection that has not panicked reads or
  misses each part and sends what it has (`WF`); five seconds pass; and the tick
  comes although the loop is biased (`SF(Tick)`: a tick comes every two seconds
  (`mod.rs:531`) and stays due until it is polled; between two of them a
  collection arrives at most once, a batch reports as often as it has operations,
  and nobody types without end). That collections work is not assumed:
  `ViewConverges` has it as its premise, from some point on.
  The operator owes nothing, and leaving, navigating or quitting are never
  required.
- `TokioRun`: the future is polled when it can move and timers fire. The child
  owes nothing: it may never read, write, close or exit. Nobody drops the future.
- `DuctRun`: threads are scheduled (`WF` of each thread's steps; those of the
  calling thread contain its timer). The child owes nothing.
- `StreamRun`: as `TokioRun`, and the stderr task is polled. The sink owes nothing
  either: `FedAnswered` holds although it may block for ever, because the timeout
  covers it, and `BreachEndsRun` names that case.
- `ConfigEdit`: a call that has begun is polled and its threads run (`WF(Step(c))`).
  Each call is made once, so the lock is free for good in the end and weak
  fairness is enough. Readers, failures, drops and crashes are owed by nobody.
- `AppsFacade` states no fairness: it has no liveness property.
- `UnitDeploy`: every systemctl command and file operation ends (`WF(Works(c))`),
  which for systemctl is what the runners' timeout provides. Crashes, refusals,
  meddlers and the end of the unit are owed by nobody.

### 3.3 Findings

1. **The asynchronous runner's timeout does not cover stdin** (`tokio_stdin`).
   `write_stdin` is awaited before the timeout is created
   (`tokio_runner.rs:492`); with a payload larger than the pipe and a child that
   does not read, the command is never answered. The blocking runner writes from
   a thread, and its `Answered` holds. `FedAnswered` is what remains true of the
   asynchronous one. The streaming runner shares it.
2. **A deploy over a running unit does not start the new version**
   (`deploy_noop`). `activate_unit` uses `systemctl start` (`manager.rs:657`), a
   no-op on an active unit, so the activity check sees the old process and the
   ledger records the deploy as started. `ColdDeploysLaunched` is what remains
   true: a deploy of a unit that was dead has started its version.
3. **The first edit of a configuration may be lost** (`config_create`).
   `ensure_config_file` looks and creates outside the lock, with a call that
   truncates (`toride-ssh/crates/config/src/lib.rs:181-183`). A call that found no
   file may so empty the one that another call has created, edited and
   acknowledged meanwhile, which the lock is documented to exclude (`:207-211`).
   What remains true is `ImplementsEditedFile`, up to such a creation.

Met while modelling, and not the subject of a run:

- A revert is documented to force a refresh because "disk truth is known to
  differ" (`toride/src/ssh_data.rs:404-410`), but `SshDataCollector::start` returns
  at once while a collection is pending (`:194`), and the cooldown that would
  have hidden that older bundle has just been cleared. The bundle shown next may
  be older than the failure; the next tick repairs it, so `ViewConverges` holds,
  and `OverwriteIsFresh` excuses it by `stale`.
- Backups of a unit are named and pruned by the wall clock (`manager.rs:541`,
  `:608`). If it is set back in mid-deploy, the backup just taken can be the one
  that is pruned. Proved instead: with a clock that is never set back, the
  previous version is kept.
- `toride-runner/src/lib.rs` says that a grandchild holding an inherited pipe end
  cannot hang the runner forever. On both asynchronous paths that takes a
  timeout: without one the drain waits for the grandchild. The liveness
  properties of the two claim no more.
- If a dropped call of the application manager is still saving, that save may
  land after a later call's and take an acknowledged record out of the document
  (`lost`); the next save that works puts it back. A dropped `adopt` keeps its
  claim in memory even if its save then fails.
- A dropped configuration edit may go on writing after its lock is free, so it
  may overwrite a later one (`stray`). The safety properties of `ConfigEdit` say
  nothing after such a write, nor after a creation outside the lock or a stamp
  used twice; of these three only the creation is shown by a run to lose an
  acknowledged edit (`config_create`).
- A collection that cannot read a part shows the operator an empty list, with
  nothing to tell it from one that is empty (`ssh_data.rs:1250-1256`,
  `:1276-1297`); a failed manager also files empty diagnostics as fresh for a
  minute. `OverwriteIsFresh` and `NoEditVanishes` except these parts, and
  `ViewConverges` asks that collections stop failing. A certificate that could
  not be parsed stays missing until a certificate file changes (`:1772-1849`).
- `invalidate_diagnostics_cache` (`ssh_data.rs:233`) has no caller, so after an
  operation the diagnostics shown may be up to a minute older than the rest.
- If `is-enabled` answers neither yes nor no, a rollback leaves the unit enabled
  (the code warns); a rollback does not stop a unit that its deploy has started;
  after a crash in mid-deploy nothing recovers, the backup stays for the operator.

## 4. The proofs

Every invariant, action property and refinement that a passing run checks is
also proved for every value of the constants; liveness is not. Further
properties are proved and have no run of their own; TLC agreed with each of them
on the constants of its module's runs before it was proved. The
assumptions on the constants are the named `ASSUME`s of the modules, and each is
evaluated by the runs.

| Theorem | Says |
|---|---|
| `TypeCorrect`, in each of the seven `_proofs` modules | type correctness |
| `InFlightIsExact`, `WriteTaskIsTracked` (both from `PipelineInvariant`) | `InFlightExact`, `WriteTaskTracked` |
| `NoOverwrite`, `OverwritesAreFresh` | `NoOverwriteDuringWrite`, `OverwriteIsFresh` |
| `PipelineRefinesQueue` | the pipeline implements `OpQueue` |
| `DeferredRevertsWait` | `RevertHasBatch`: the safety that `RevertServed` stands on |
| `EveryOperationRunsOnce`, `DiskFollowsTheOrder` | `EveryOpOnce`, `DiskInOrder`: what has run, what the task holds and what is queued are the operations submitted, once each and in order; only what has run is on disk, and at most the one operation an abort interrupted |
| `NoEditsVanish` | `NoEditVanishes`: a bundle that outlived no cooldown shows no edit that still waits and, if no operation can fail, all the others outside the parts it could not read |
| `TokioRun_proofs!OkIsComplete`, `StreamRun_proofs!OkIsComplete` | an Ok answer of the asynchronous runners is complete, and shown |
| `SinkStaysWithinCap`, `NoTaskIsLeft` | the streaming runner's sink is never given more than the cap; no answer leaves its task behind |
| `TokioRunKeepsContract`, `DuctRunKeepsContract`, `StreamRunKeepsContract` | the runners implement `CommandContract` |
| `AnswersStand`, in the three runners' modules | `AnswersFinal`: nothing that goes on after an answer, threads, grandchildren, sinks or a dropped future, changes it |
| `CaptureIsBounded` | `CaptureBounded`: the asynchronous runner holds at most one read beyond the cap |
| `KeptWithinCap`, `BreachesArePursued` | `RetainedWithinCap`; `BreachPursued`, the safety that `BreachEndsRun` stands on |
| `BreachIsBreach`, `OkLosesLittle` | the blocking runner's labels and what an Ok answer may leave out |
| `DeployIsAtomic` | `UnitDeploy` implements `AtomicDeploy`, meddlers and clock steps included |
| `PreviousIsKept` | if the clock is never set back, `PreviousKept` |
| `LedgerIsAppendOnly` | `LedgerKeepsRecords` |
| `EnablementIsRestored`, `ColdDeploysAreLaunched` | `EnablementRestored`, `ColdDeploysLaunched` |
| `DeploysTakeEffect`, `RecordedDeploysStand` | `DeployTakesEffect`; `LedgerNeverRolledBack` |
| `BackupsAreNotOverwritten`, `PruningSparesTheNewest` | if the clock is never set back no backup takes another's name (`BackupsNotOverwritten`); under any clock a backup goes only as the one of the call inside, to a copy of its name, or while as many newer ones stay as are to be retained (`PruningSparesNewest`) |
| `CallsExclude` | `OneAtATime`: one call at a time is past the units lock, and nobody who is gone holds it |
| `CacheIsHonest` | `CacheHonest` |
| `EditsAreAtomic` | `ConfigEdit` implements `EditedFile` |
| `AcknowledgedEditsStay` | `AcknowledgedUntilStray` |
| `LedgerIsDurable`, `AnswersAreCurrent`, `OnlyOwnRemovals` | `Durable`, `AnswersCurrent`, `OwnRemovals` |
| `AnswersAreRecorded`, `LedgerNamesItsOwn` | `AnswersRecorded`; `LedgerNamesOwn`: what was merely found on the host never enters the ledger |

### 4.1 The inductive invariants

- **SSH**: `TypeOK /\ InFlightExact /\ WriteTaskTracked` is inductive as it
  stands. Its key consequence is the lemma `NothingInFlight`: a count of zero
  means that the task's batch is empty, nothing is being reported and the
  channel is empty. Flushing then moves the queue into an empty batch, so
  `batch \o pending` (the abstract queue) is unchanged by it, which is the step
  the refinement turns on; the rest is algebra of concatenation.
  `OverwritesAreFresh` needs `Covered`: outside the cooldown a pending collection
  that has outlived none sees no operation in flight, so what it has read so far
  is the disk, but for the parts still unread and those it missed. `EveryOperationRunsOnce` needs `QInv`: `ran \o (batch \o pending)` is
  the identity sequence up to `submitted`; leaving cuts the last two off, so that
  `ran[i] = i` is stated by itself. Submitting extends both sides, executing moves
  the head, and nothing else touches them (`QueueStep`). `NoEditsVanish` joins
  `Covered`, `QInv` and, where nothing fails, `DiskIsRun` (the disk is the set of
  what has run).
- **Tokio**: `Accounted` (every unit written is in a pipe or has been captured),
  `DrainedAtEof` (a stream is given up at end of file only), `Suspended` and
  `Settled` (what is known at each await, and once there is an answer; that
  every answer comes after the child's end makes `AnswersFinal` follow, here and
  in the other two runners).
  `OkComplete` is not inductive: that nothing is lost needs `Accounted`, and that
  the pipes are empty needs `DrainedAtEof`, which in turn needs that a dead
  child's ends never open again.
- **Duct**: `Accounted` counts units in the pipes, in the readers' hands and in
  the counter; `Latched` says that only a reader that has counted past the cap
  latches, kills or leaves; `Waiting` says what the calling thread knows at each
  step, and that a stream it is done with is `Quiet` (no more will be counted);
  `InTime` that a latch seen at the end of the wait decides the answer. The case
  that needs all of them: a reader has counted past the cap, and not yet set the
  latch, when the calling thread has been woken by the natural exit; it is
  caught because `Judge` looks at the counter after both streams are quiet.
  `BreachPursued` is preserved beside it, one step of a reader at a time.
- **Stream**: `Counted` follows every unit from the child through the pipe, the task's
  hand and the channel to the counter; `Drains` says when a stream may be given
  up (for standard error: the task gone *and* the channel empty, the clause that
  `OkIsComplete` stands on); `Suspended` and `Settled` are as for `TokioRun`. That no
  task is left follows from `Suspended`: killing begins after the abort.
- **Deploy**: `TypeOK`, `Control` (a call is inside the critical section exactly
  when it holds the lock) and `Holding(lock)` (what the holder knows: its backup,
  if any, holds the version it found, and the file is what its program counter
  says). With the refinement mapping (the file as seen from outside is the one
  the holder found, until it answers) every interior step is a stutter and every
  answer an abstract answer. `PreviousIsKept` needs `KInv` besides: stamps do not
  exceed the clock, the holder's backup is the newest until it is spent (this is
  where pruning and an unsteady clock would break it), and after a failed call
  the version is still there. `LedgerIsAppendOnly` needs `LInv`: the copy a call
  is about to save is still the ledger. `EnablementIsRestored` needs `EInv`: what
  the holder has found out about the enablement is either still so or is undone
  on every way back. `ColdDeploysAreLaunched` needs `CInv`: a unit found dead stays
  dead until its deploy's start, and then starts what the reload has read, which
  `Holding` says is the new version. `DeploysTakeEffect` needs `InForce`: from
  the reload on systemd has read the holder's version, and from `enable` on the
  unit is enabled; once the lock is free the same is asked of the latest call.
  `RecordedDeploysStand` needs that nobody recorded is on the way back;
  `BackupsAreNotOverwritten` rests on stamps not exceeding the clock, and
  `PruningSparesTheNewest` on `UInv` (no two backups share a stamp, the name) with
  a counting argument: an older backup has more that are newer than it, so those
  newer than the newest candidate for pruning are all kept, and they are enough
  (`EnoughKept`). Removals may fail, so nothing bounds what stays.
- **Configuration**: `Placed` (a loader that has taken a stamp has a file), `Guarded`
  (a call inside holds the lock, unless its future is gone and a thread works for
  it, on a save only after `stray`), and, until a write strays, `Read` (what was
  read under a stamp that is still the file's is what the file holds) and
  `Current` (under the lock what was loaded is what is there). `CacheHonest` is
  the clause for entries already filed; `Read` is the same for those on the way,
  which is why a reader without the lock cannot spoil the cache. Under the
  mapping the renaming is the abstract edit, and a restore its undoing.
  `AcknowledgedEditsStay` is proved on the abstract specification and inherited:
  `AInv` says that an acknowledged edit alone on its hosts is in the file *and* in
  what the file may go back to (`Base`), without which an undoing by another
  call would take it away. It needs that at most one edit is applied and not yet
  acknowledged.
- **Applications**: `Owned` (whatever is in memory, in the document or on its way
  there was installed or adopted by toride), `Placed`, `Ordered` (at most one
  detached save is of the ledger as it is), `Informed` (the host and the listing
  lie within what was seen during the call) and `Founded` (what must have been
  learnt for the item in hand to have come this far). `Durable` turns on
  `Ordered`, `OnlyOwnRemovals` on `Owned` and `Founded`. `AnswersAreRecorded` needs
  `Noted`: while a save is under way in a call, the ledger already says what the
  verb asked for.

### 4.2 Only model-checked

Liveness (`RevertServed`, `QueuedOpsStart`, `ViewConverges`, `FedAnswered`,
`Answered`, `BreachEndsRun`, `CallEnds`, `EditEnds`), which is outside what the
prover does. Three of them stand on safety that is proved: a deferred revert has
a batch whose end it waits for (`RevertHasBatch`), a breach has somebody who will
kill the child (`BreachPursued`), and a units lock that is held is held by a call
that is still at work (`OneAtATime`). No recursive definition is used in any
module, and no invariant is left to TLC alone.

## 5. The plan

Done: the SSH pipeline; the three runners over one contract; unit deployment; the
edits of the SSH configuration with the atomic write they end in; the application
manager; the proofs of all their safety properties. What would come next:

1. The installer's swap of the installed binary, with a crash in between.
2. The backup client's restore and its schedule units; the fail2ban history
   store.
3. Versions and pins in `AppsFacade`, and a second process on the same document.
4. The registry's merge of catalogues as an algorithm against a reference
   definition.
5. `UnitDeploy`'s atomic write in the steps `ConfigEdit` takes it in.

To keep the whole checkable in minutes the project stays within a dozen runs and
forty properties: safety and liveness of one component share a run where the
state space allows. The type invariants are proved (`TypeCorrect` of each `_proofs`
module) and take no place in a run; nor do `EveryOpOnce`, `DiskInOrder`,
`NoEditVanishes`, `CaptureBounded`, `BreachPursued`, `AnswersFinal`,
`LedgerNeverRolledBack`, `BackupsNotOverwritten`, `PruningSparesNewest`, `OneAtATime`
and `LedgerNamesOwn`, which are proved for every value of the constants.

## 6. Not modelled

Pure parsing, formatting and command-line construction; rendering; the external
programs themselves (package managers, restic, ufw, fail2ban, mise); network
access. They keep no state whose interleavings could go wrong, or keep it in
programs that are not part of this repository. Components that are in the plan
but not yet modelled are listed under 5.
