------------------------------ MODULE TokioRun ------------------------------
(***************************************************************************)
(* TokioRunner::run of one captured command (tokio_runner.rs): one future  *)
(* that writes the child's stdin, then races draining both output pipes    *)
(* against the child's exit under a timeout, and kills and reaps the child *)
(* on every way out but the natural one.  It may be dropped at any await.  *)
(***************************************************************************)
EXTENDS ChildProcess

CONSTANTS
  Cap,           \* CommandSpec.output_limit, where there is one
  Payloads       \* sizes of stdin data, 0 for none

ASSUME TokioAssumption ==
  /\ Cap \in Nat
  /\ Payloads \subseteq Nat

VARIABLES
  timed,         \* does effective_timeout give one?
  capped,        \* does effective_output_limit give one?
  toSend,        \* stdin units still to write
  phase,         \* where the future is suspended
  verdict,       \* the error it will return once the child is reaped
  live,          \* output pipes not yet at end of file
  captured,      \* units read, the chunk that crossed the cap included
  result         \* what it returned

runVars == <<timed, capped, toSend, phase, verdict, live, captured, result>>
vars    == <<childVars, runVars>>

Errors == {"limit", "timeout", "stdin_failed"}

TypeOK ==
  /\ ChildTypeOK
  /\ timed \in BOOLEAN
  /\ capped \in BOOLEAN
  /\ toSend \in Nat
  /\ phase \in {"idle", "stdin", "race", "reap", "killing", "done"}
  /\ verdict \in Errors \cup {"none"}
  /\ live \subseteq Streams
  /\ captured \in 0..MaxOutput
  /\ result \in Errors \cup {"none", "ok", "refused", "cancelled"}

Init ==
  /\ ChildInit
  /\ timed \in BOOLEAN
  /\ capped \in BOOLEAN
  /\ toSend \in Payloads
  /\ phase = "idle"
  /\ verdict = "none"
  /\ live = Streams
  /\ captured = 0
  /\ result = "none"

Return(r) ==
  /\ phase' = "done" /\ result' = r
  /\ UNCHANGED verdict

KillFor(error) ==
  /\ phase' = "killing" /\ verdict' = error
  /\ UNCHANGED result

GoTo(p) ==
  /\ phase' = p
  /\ UNCHANGED <<verdict, result>>
-----------------------------------------------------------------------------
\* prepare_program and spawn may refuse; otherwise stdin comes first.
Start ==
  /\ phase = "idle"
  /\ \/ Return("refused") /\ UNCHANGED childVars
     \/ Spawned /\ GoTo(IF toSend = 0 THEN "race" ELSE "stdin")
  /\ UNCHANGED <<timed, capped, toSend, live, captured>>

\* write_stdin: write_all awaits room in the pipe, under no timeout.
WriteStdin ==
  /\ phase = "stdin"
  /\ "in" \in open /\ pipe["in"] < PipeSize
  /\ pipe' = [pipe EXCEPT !["in"] = @ + 1]
  /\ toSend' = toSend - 1
  /\ GoTo(IF toSend = 1 THEN "race" ELSE "stdin")
  /\ UNCHANGED <<child, reaped, open, wrote, timed, capped, live, captured>>

StdinBroken ==
  /\ phase = "stdin"
  /\ "in" \notin open
  /\ KillFor("stdin_failed")
  /\ UNCHANGED <<childVars, timed, capped, toSend, live, captured>>

\* Seeded fault: only standard output counts towards the cap.
BreachesByStdout(s, n) == capped /\ s = "out" /\ captured + n > Cap

Breaches(s, n) == capped /\ captured + n > Cap

\* The select! of the drain prefers stdout when both reads are ready; since
\* the child may write between the two polls, either may come first here.
Read(s) ==
  /\ phase = "race" /\ s \in live
  /\ \E n \in 1..pipe[s] :
       /\ Takes(s, n)
       /\ captured' = captured + n
       /\ IF Breaches(s, n) THEN KillFor("limit") ELSE GoTo("race")
  /\ UNCHANGED <<timed, capped, toSend, live>>

\* Seeded fault: the future ends as soon as the exit status is known.
RaceEndsOnExit(streams, exited) ==
  IF exited THEN Return("ok")
  ELSE IF streams = {} /\ capped THEN GoTo("reap")
  ELSE GoTo("race")

\* The race is over when both pipes are drained and the status is known; with
\* a cap, draining alone moves on to a bounded wait for the status.
RaceEnds(streams, exited) ==
  IF streams # {} THEN GoTo("race")
  ELSE IF exited THEN Return("ok")
  ELSE IF capped THEN GoTo("reap")
  ELSE GoTo("race")

Drained(s) ==
  /\ phase = "race" /\ s \in live
  /\ AtEof(s)
  /\ live' = live \ {s}
  /\ RaceEnds(live', reaped)
  /\ UNCHANGED <<childVars, timed, capped, toSend, captured>>

\* child.wait() resolves.
WaitResolves ==
  /\ phase = "race" /\ ~reaped
  /\ Reaps
  /\ RaceEnds(live, TRUE)
  /\ UNCHANGED <<timed, capped, toSend, live, captured>>

\* tokio::time::timeout around the race.
RaceTimeout ==
  /\ phase = "race" /\ timed
  /\ KillFor("timeout")
  /\ UNCHANGED <<childVars, timed, capped, toSend, live, captured>>

\* RaceOutcome::Drained: the status is awaited for POST_DRAIN_REAP_TIMEOUT.
LateStatus ==
  /\ phase = "reap"
  /\ Reaps
  /\ Return("ok")
  /\ UNCHANGED <<timed, capped, toSend, live, captured>>

\* Seeded fault: the wait for the status is not bounded.
ReapUnbounded == FALSE

ReapTimeout ==
  /\ phase = "reap"
  /\ KillFor("timeout")
  /\ UNCHANGED <<childVars, timed, capped, toSend, live, captured>>

\* Seeded fault: the error is returned without killing and reaping first.
ReturnErrorEarly ==
  /\ phase = "killing"
  /\ Return(verdict)
  /\ UNCHANGED <<childVars, timed, capped, toSend, live, captured>>

\* child.kill().await and child.wait().await, then the error.
KillAndReap ==
  /\ phase = "killing"
  /\ \/ child = "running" /\ Kill /\ GoTo("killing")
     \/ Reaps /\ Return(verdict)
  /\ UNCHANGED <<timed, capped, toSend, live, captured>>

\* The caller drops the future: kill_on_drop.
Dropped ==
  /\ phase \in {"stdin", "race", "reap", "killing"}
  /\ Return("cancelled")
  /\ Kill
  /\ UNCHANGED <<timed, capped, toSend, live, captured>>

\* The runtime reaps a child whose handle was dropped.
OrphanReaped ==
  /\ phase = "done" /\ ~reaped
  /\ Reaps
  /\ UNCHANGED runVars

Done == phase = "done" /\ UNCHANGED vars
-----------------------------------------------------------------------------
\* Everything the future does when polled.
Poll ==
  \/ Start \/ WriteStdin \/ StdinBroken
  \/ \E s \in Streams : Read(s) \/ Drained(s)
  \/ WaitResolves \/ LateStatus \/ KillAndReap

Next ==
  \/ Poll
  \/ RaceTimeout \/ ReapTimeout
  \/ Dropped \/ OrphanReaped \/ Done
  \/ ChildStep /\ UNCHANGED runVars

Spec == Init /\ [][Next]_vars

\* The future is polled when it can move, and timers fire.  Nothing is owed by
\* the child, which may never read, write, close or exit.
FairSpec ==
  Spec /\ WF_vars(Poll) /\ WF_vars(RaceTimeout) /\ WF_vars(ReapTimeout)
-----------------------------------------------------------------------------
\* A successful answer carries all the output and the child's own status:
\* nothing is lost to an early exit, a slow pipe or a kill (run_tokio_command,
\* run_tokio_limited).
OkComplete ==
  result = "ok" => child = "exited" /\ captured = wrote /\ (capped => captured <= Cap)

\* An answer ends the command: it stands, and the child, dead or killed, writes
\* nothing after it (kill_on_drop, and the kill on every failing path).
AnswersFinal ==
  [][result # "none" => UNCHANGED <<result, wrote, captured>>]_vars

\* What is held in memory passes the cap by one read at most, whichever pipe it
\* was on (run_tokio_limited's drain).
CaptureBounded == capped => captured <= Cap + PipeSize

\* "on expiry the child is killed and reaped" (lib.rs, capability matrix): a
\* command with a timeout is answered, whatever its child does.
Answered == (timed /\ phase # "idle") ~> phase = "done"

\* What holds of that promise whatever the payload: once standard input is
\* behind it, no child can keep a command with a timeout from its answer, not
\* even one whose pipes are drained and whose status never comes.
FedAnswered ==
  (timed /\ phase \in {"race", "reap", "killing"}) ~> phase = "done"

\* Output beyond the cap ends the command even if nothing else would: there
\* is no timeout and the child neither exits nor closes its pipes.
BreachEndsRun == (phase = "race" /\ capped /\ wrote > Cap) ~> phase = "done"

\* The contract that the two runners share.
Contract ==
  INSTANCE CommandContract WITH
    child <- IF child \in {"none", "running"} THEN child
             ELSE IF reaped THEN "reaped" ELSE "dead"

ImplementsContract == Contract!Spec
=============================================================================
