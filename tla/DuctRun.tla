------------------------------- MODULE DuctRun -------------------------------
(***************************************************************************)
(* DuctRunner::run of one command with an output cap (duct_runner.rs,      *)
(* run_duct_command_limited): the calling thread waits for the child while *)
(* two reader threads drain the output pipes, count the bytes of both in   *)
(* one atomic counter, and kill the child when the cap is passed; a fourth *)
(* thread writes stdin.  Threads are detached, never joined.               *)
(***************************************************************************)
EXTENDS ChildProcess

CONSTANTS
  Cap,           \* CommandSpec.output_limit
  Payloads       \* sizes of stdin data, 0 for none

ASSUME DuctAssumption ==
  /\ Cap \in Nat
  /\ Payloads \subseteq Nat

VARIABLES
  timed,         \* does effective_timeout give one?
  toSend,        \* stdin units still to write
  writer,        \* the stdin thread: "none", "writing", "ok" or "failed"
  reader,        \* what each reader thread does next
  chunk,         \* units it has read and not yet counted
  retained,      \* units it keeps
  counter,       \* units counted by both
  killed,        \* the breach latch
  main,          \* what the calling thread does next
  waited,        \* what ended its wait: "no", "exited" or "timeout"
  delivered,     \* units received from each reader
  verdict,       \* the error to return after cleaning up
  result,
  latchedFirst   \* history: the latch was set when the wait ended

threadVars == <<toSend, writer, reader, chunk, retained, counter, killed>>
mainVars   == <<main, waited, delivered, verdict, result, latchedFirst>>
vars       == <<childVars, timed, threadVars, mainVars>>

Errors == {"limit", "timeout", "stdin_failed"}

TypeOK ==
  /\ ChildTypeOK
  /\ timed \in BOOLEAN
  /\ toSend \in Nat
  /\ writer \in {"none", "writing", "ok", "failed"}
  /\ reader \in [Streams -> {"top", "read", "count", "latch", "kill", "sent", "gone"}]
  /\ chunk \in [Streams -> 0..PipeSize]
  /\ retained \in [Streams -> 0..Cap]
  /\ counter \in 0..MaxOutput
  /\ killed \in BOOLEAN
  /\ main \in {"idle", "wait", "check", "cleanup", "out", "err", "judge", "done"}
  /\ waited \in {"no", "exited", "timeout"}
  /\ delivered \in [Streams -> 0..Cap]
  /\ verdict \in Errors \cup {"none"}
  /\ result \in Errors \cup {"none", "ok", "refused"}
  /\ latchedFirst \in BOOLEAN

Zero == [s \in Streams |-> 0]

Init ==
  /\ ChildInit
  /\ timed \in BOOLEAN
  /\ toSend \in Payloads
  /\ writer = "none"
  /\ reader = [s \in Streams |-> "top"]
  /\ chunk = Zero
  /\ retained = Zero
  /\ counter = 0
  /\ killed = FALSE
  /\ main = "idle"
  /\ waited = "no"
  /\ delivered = Zero
  /\ verdict = "none"
  /\ result = "none"
  /\ latchedFirst = FALSE
-----------------------------------------------------------------------------
\* The stdin thread: one write_all, whose outcome it reports.

WriterSteps ==
  /\ writer = "writing"
  /\ \/ /\ "in" \in open /\ toSend > 0
        /\ pipe["in"] < PipeSize
        /\ pipe' = [pipe EXCEPT !["in"] = @ + 1]
        /\ toSend' = toSend - 1
        /\ UNCHANGED writer
     \/ /\ toSend = 0
        /\ writer' = "ok"
        /\ UNCHANGED <<toSend, pipe>>
     \/ /\ "in" \notin open /\ toSend > 0
        /\ writer' = "failed"
        /\ UNCHANGED <<toSend, pipe>>
  /\ UNCHANGED <<child, reaped, open, wrote, timed, reader, chunk, retained,
                 counter, killed, mainVars>>
-----------------------------------------------------------------------------
\* A reader thread: look at the latch, block in read, count, and then keep
\* the chunk or set the latch and kill the child.

ReaderRuns == child # "none"

ReaderGoes(s, to) == reader' = [reader EXCEPT ![s] = to]

LooksAtLatch(s) ==
  /\ ReaderRuns /\ reader[s] = "top"
  /\ ReaderGoes(s, IF killed THEN "gone" ELSE "read")
  /\ UNCHANGED <<childVars, chunk, retained, counter, killed>>

Reads(s) ==
  /\ reader[s] = "read"
  /\ \/ \E n \in 1..pipe[s] :
          /\ Takes(s, n)
          /\ chunk' = [chunk EXCEPT ![s] = n]
          /\ ReaderGoes(s, "count")
     \/ /\ AtEof(s)
        /\ ReaderGoes(s, "sent")
        /\ UNCHANGED <<childVars, chunk>>
  /\ UNCHANGED <<retained, counter, killed>>

\* Seeded fault: each stream is held against the cap by itself.
OverCapAlone(s) == retained[s] + chunk[s] > Cap

OverCap(s) == counter + chunk[s] > Cap

\* Seeded fault: the chunk is kept before the total is compared with the cap.
CountsThenChecks(s) ==
  /\ reader[s] = "count"
  /\ counter' = counter + chunk[s]
  /\ chunk' = [chunk EXCEPT ![s] = 0]
  /\ retained' = [retained EXCEPT ![s] = @ + chunk[s]]
  /\ ReaderGoes(s, IF OverCap(s) THEN "latch" ELSE "top")
  /\ UNCHANGED <<childVars, killed>>

Counts(s) ==
  /\ reader[s] = "count"
  /\ counter' = counter + chunk[s]
  /\ chunk' = [chunk EXCEPT ![s] = 0]
  /\ IF OverCap(s)
     THEN ReaderGoes(s, "latch") /\ UNCHANGED retained
     ELSE /\ ReaderGoes(s, "top")
          /\ retained' = [retained EXCEPT ![s] = @ + chunk[s]]
  /\ UNCHANGED <<childVars, killed>>

Latches(s) ==
  /\ reader[s] = "latch"
  /\ killed' = TRUE
  /\ ReaderGoes(s, "kill")
  /\ UNCHANGED <<childVars, chunk, retained, counter>>

Kills(s) ==
  /\ reader[s] = "kill"
  /\ Kill
  /\ ReaderGoes(s, "gone")
  /\ UNCHANGED <<chunk, retained, counter, killed>>

ReaderSteps(s) ==
  /\ LooksAtLatch(s) \/ Reads(s) \/ Counts(s) \/ Latches(s) \/ Kills(s)
  /\ UNCHANGED <<timed, toSend, writer, mainVars>>
-----------------------------------------------------------------------------
\* The calling thread.

Start ==
  /\ main = "idle"
  /\ \/ /\ main' = "done" /\ result' = "refused"
        /\ UNCHANGED <<childVars, writer>>
     \/ /\ main' = "wait" /\ UNCHANGED result
        /\ Spawned
        /\ writer' = IF toSend = 0 THEN "none" ELSE "writing"
  /\ UNCHANGED <<timed, toSend, reader, chunk, retained, counter, killed,
                 waited, delivered, verdict, latchedFirst>>

\* wait_timeout: the child is reaped, whoever killed it, or time is up.
WaitEnds ==
  /\ main = "wait"
  /\ main' = "check"
  /\ latchedFirst' = killed
  /\ \/ Reaps /\ waited' = "exited"
     \/ timed /\ waited' = "timeout" /\ UNCHANGED childVars
  /\ UNCHANGED <<timed, threadVars, delivered, verdict, result>>

\* Seeded fault: the outcome of the wait is looked at before the latch.
CheckTimeoutFirst ==
  /\ main = "check"
  /\ IF waited = "timeout" THEN main' = "cleanup" /\ verdict' = "timeout"
     ELSE IF killed THEN main' = "cleanup" /\ verdict' = "limit"
     ELSE main' = "out" /\ UNCHANGED verdict
  /\ UNCHANGED <<childVars, timed, threadVars, waited, delivered, result,
                 latchedFirst>>

\* The latch is looked at first: a breach whose kill races the timeout is
\* still a breach.
Check ==
  /\ main = "check"
  /\ IF killed THEN main' = "cleanup" /\ verdict' = "limit"
     ELSE IF waited = "timeout" THEN main' = "cleanup" /\ verdict' = "timeout"
     ELSE main' = "out" /\ UNCHANGED verdict
  /\ UNCHANGED <<childVars, timed, threadVars, waited, delivered, result,
                 latchedFirst>>

\* kill_and_reap; what the readers hold is discarded.
Cleanup ==
  /\ main = "cleanup"
  /\ \/ child = "running" /\ Kill /\ UNCHANGED <<main, result>>
     \/ Reaps /\ main' = "done" /\ result' = verdict
  /\ UNCHANGED <<timed, threadVars, waited, delivered, verdict, latchedFirst>>

\* Seeded faults: a reader still at work is given up, or one whose pipe a
\* grandchild holds never is.
TakesTooEarly(s) == TRUE
JoinsReader(s)   == reader[s] = "gone"

\* recv_timeout gives up on a reader that has gone, or that is still blocked
\* after READER_CLEAN_WAIT because a grandchild holds its pipe.
Unavailable(s) ==
  \/ reader[s] = "gone"
  \/ reader[s] = "read" /\ pipe[s] = 0 /\ s \in open

\* recv_reader_bytes(..).unwrap_or_default(), for stdout and then for stderr.
Collect(s) ==
  /\ main = s
  /\ \/ reader[s] = "sent" /\ delivered' = [delivered EXCEPT ![s] = retained[s]]
     \/ Unavailable(s) /\ UNCHANGED delivered
  /\ main' = IF s = "out" THEN "err" ELSE "judge"
  /\ UNCHANGED <<childVars, timed, threadVars, waited, verdict, result, latchedFirst>>

\* check_stdin_writer gives up likewise on a writer that is still blocked.
StdinAnswer ==
  \/ writer = "failed" /\ result' = "stdin_failed"
  \/ writer \in {"none", "ok"} /\ result' = "ok"
  \/ writer = "writing" /\ "in" \in open /\ result' = "ok"

\* Seeded fault: the latch and the counter are not looked at again.
JudgeStdinOnly ==
  /\ main = "judge"
  /\ main' = "done"
  /\ StdinAnswer
  /\ UNCHANGED <<childVars, timed, threadVars, waited, delivered, verdict, latchedFirst>>

\* The counter has the last word on the cap.
Judge ==
  /\ main = "judge"
  /\ main' = "done"
  /\ IF killed \/ counter > Cap THEN result' = "limit" ELSE StdinAnswer
  /\ UNCHANGED <<childVars, timed, threadVars, waited, delivered, verdict, latchedFirst>>

MainSteps ==
  \/ Start \/ WaitEnds \/ Check \/ Cleanup \/ Judge
  \/ \E s \in Streams : Collect(s)

Done == main = "done" /\ UNCHANGED vars
-----------------------------------------------------------------------------
Next ==
  \/ MainSteps
  \/ WriterSteps
  \/ \E s \in Streams : ReaderSteps(s)
  \/ ChildStep /\ UNCHANGED <<timed, threadVars, mainVars>>
  \/ Done

Spec == Init /\ [][Next]_vars

\* Threads are scheduled and timers fire; the child owes nothing.
FairSpec ==
  /\ Spec
  /\ WF_vars(MainSteps)
  /\ WF_vars(WriterSteps)
  /\ \A s \in Streams : WF_vars(ReaderSteps(s))
-----------------------------------------------------------------------------
\* A breach that was latched before the wait ended is reported as a breach,
\* even when the wait itself reports a timeout or a plain exit.
BreachNotMislabelled == latchedFirst => result \in {"none", "limit"}

\* A successful answer leaves out a stream only if a grandchild still held it
\* when its reader was given up, and never part of a stream.
OkLosesOnlyHeldStreams ==
  result = "ok" =>
    /\ retained["out"] + retained["err"] = wrote
    /\ \A s \in Streams :
         delivered[s] # retained[s] => delivered[s] = 0 /\ reader[s] # "gone"

\* Between them the readers never keep more than the cap, although each adds to
\* the counter and looks at the sum on its own (spawn_reader's loop).
RetainedWithinCap == retained["out"] + retained["err"] <= Cap

\* No breach is forgotten: once the count has passed the cap some reader is
\* about to kill the child, unless it is dead already.  A reader that finds the
\* latch set leaves the kill to the one that set it.
BreachPursued ==
  counter > Cap => Dead \/ \E s \in Streams : reader[s] \in {"latch", "kill"}

\* An answer ends the command: it stands, and the child, reaped before it, writes
\* nothing after it, though reader threads may still be at work.
AnswersFinal ==
  [][result # "none" => UNCHANGED <<result, wrote, delivered>>]_vars

\* A command with a timeout is answered, whatever its child does: the calling
\* thread is never the one blocked on a pipe.
Answered == (timed /\ main # "idle") ~> main = "done"

\* Output beyond the cap ends the command without a timeout and without any
\* help from the child.
BreachEndsRun == (main = "wait" /\ wrote > Cap) ~> main = "done"

Contract ==
  INSTANCE CommandContract WITH
    capped <- TRUE,
    child <- IF child \in {"none", "running"} THEN child
             ELSE IF reaped THEN "reaped" ELSE "dead"

ImplementsContract == Contract!Spec
=============================================================================
