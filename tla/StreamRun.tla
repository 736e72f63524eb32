------------------------------- MODULE StreamRun -------------------------------
(***************************************************************************)
(* TokioRunner::run_streaming (tokio_runner.rs): the future shows every    *)
(* chunk of output to a sink as it arrives.  It reads standard output      *)
(* itself; a task of its own relays standard error through a bounded       *)
(* channel.  The sink is the caller's: it may take an event, refuse it, or *)
(* hold on to it for ever.  The future may be dropped at any await.        *)
(***************************************************************************)
EXTENDS ChildProcess

CONSTANTS
  Cap,           \* CommandSpec.output_limit, where there is one
  Payloads,      \* sizes of stdin data, 0 for none
  ChannelSize    \* STREAM_CHANNEL_CHUNKS, 64 in the code

ASSUME StreamAssumption ==
  /\ Cap \in Nat
  /\ Payloads \subseteq Nat
  /\ ChannelSize \in Nat \ {0}

VARIABLES
  timed,         \* does effective_timeout give one?
  capped,        \* does effective_output_limit give one?
  redact,        \* spec.redact: is output held back up to a line's end?
  toSend,        \* stdin units still to write
  phase,         \* where the future is suspended
  verdict,       \* the error it will return once the child is reaped
  live,          \* the streams it has not seen the end of
  relay,         \* the stderr task
  held,          \* the chunk the task has read and not sent
  chunks,        \* how many chunks are in the channel
  queued,        \* and how many units they are
  captured,      \* units counted, the chunk that crossed the cap included
  offered,       \* units in the event before the sink
  shown,         \* units the sink has taken
  result         \* what the future returned

settings  == <<timed, capped, redact>>
relayVars == <<relay, held, chunks, queued>>
shownVars == <<offered, shown>>
runVars ==
  <<settings, toSend, phase, verdict, live, relayVars, captured, shownVars, result>>
vars == <<childVars, runVars>>

Errors == {"limit", "timeout", "stdin_failed", "sink_failed"}

\* The sink has an event.
SinkBusy == {"started", "chunk", "flush", "exited"}

\* What the timeout covers.
Exec == {"exec", "chunk", "flush", "wait", "exited"}

TypeOK ==
  /\ ChildTypeOK
  /\ {timed, capped, redact} \subseteq BOOLEAN
  /\ toSend \in Nat
  /\ phase \in Exec \cup {"idle", "started", "stdin", "aborting", "killing", "done"}
  /\ verdict \in Errors \cup {"none"}
  /\ live \subseteq Streams
  /\ relay \in {"none", "reading", "sending", "gone"}
  /\ held \in 0..PipeSize
  /\ chunks \in 0..ChannelSize /\ queued \in Nat
  /\ captured \in 0..MaxOutput
  /\ offered \in Nat /\ shown \in Nat /\ shown + offered <= captured
  /\ result \in Errors \cup {"none", "ok", "refused", "cancelled"}

Init ==
  /\ ChildInit
  /\ timed \in BOOLEAN /\ capped \in BOOLEAN /\ redact \in BOOLEAN
  /\ toSend \in Payloads
  /\ phase = "idle"
  /\ verdict = "none"
  /\ live = Streams
  /\ relay = "none" /\ held = 0 /\ chunks = 0 /\ queued = 0
  /\ captured = 0 /\ offered = 0 /\ shown = 0
  /\ result = "none"

Return(r) ==
  /\ phase' = "done" /\ result' = r
  /\ UNCHANGED verdict

GoTo(p) ==
  /\ phase' = p
  /\ UNCHANGED <<verdict, result>>

FailIn(p, error) ==
  /\ phase' = p /\ verdict' = error
  /\ UNCHANGED result

\* Once stdin is behind it, the future spawns the task and reads.
Proceed(left) ==
  IF left = 0
  THEN GoTo("exec") /\ relay' = "reading" /\ UNCHANGED <<held, chunks, queued>>
  ELSE GoTo("stdin") /\ UNCHANGED relayVars
-----------------------------------------------------------------------------
\* prepare_program and spawn may refuse; otherwise the sink is told first.
Start ==
  /\ phase = "idle"
  /\ \/ Return("refused") /\ UNCHANGED childVars
     \/ Spawned /\ GoTo("started")
  /\ UNCHANGED <<settings, toSend, live, relayVars, captured, shownVars>>

\* write_stdin: nobody reads the output yet, and no timeout runs.
WriteStdin ==
  /\ phase = "stdin"
  /\ "in" \in open /\ pipe["in"] < PipeSize
  /\ pipe' = [pipe EXCEPT !["in"] = @ + 1]
  /\ toSend' = toSend - 1
  /\ Proceed(toSend - 1)
  /\ UNCHANGED <<child, reaped, open, wrote, settings, live, captured, shownVars>>

StdinBroken ==
  /\ phase = "stdin"
  /\ "in" \notin open
  /\ FailIn("killing", "stdin_failed")
  /\ UNCHANGED <<childVars, settings, toSend, live, relayVars, captured, shownVars>>
-----------------------------------------------------------------------------
\* The task reads on whatever the future waits for, and blocks when the
\* channel is full.
RelayReads ==
  /\ relay = "reading"
  /\ \E n \in 1..pipe["err"] : Takes("err", n) /\ held' = n
  /\ relay' = "sending"
  /\ UNCHANGED <<chunks, queued>>

Sends ==
  /\ relay = "sending" /\ phase # "done"
  /\ chunks < ChannelSize
  /\ chunks' = chunks + 1 /\ queued' = queued + held
  /\ relay' = "reading" /\ held' = 0

\* End of file, or the receiver is gone.
RelayEnds ==
  /\ \/ relay = "reading" /\ AtEof("err")
     \/ relay = "sending" /\ phase = "done"
  /\ relay' = "gone" /\ held' = 0
  /\ UNCHANGED <<chunks, queued>>

Relay ==
  /\ \/ RelayReads
     \/ (Sends \/ RelayEnds) /\ UNCHANGED childVars
  /\ UNCHANGED <<settings, toSend, phase, verdict, live, captured, shownVars, result>>
-----------------------------------------------------------------------------
\* Seeded fault: the cap is checked before the chunk is counted.
BreachesLate(n) == capped /\ captured > Cap

Breaches(n) == capped /\ captured + n > Cap

\* forward_stream_chunk: as it came, or under redact what is complete by now.
Forward(n) ==
  LET pending == captured + n - shown IN
  /\ offered' \in IF redact THEN 0..pending ELSE {pending}
  /\ GoTo(IF offered' = 0 THEN "exec" ELSE "chunk")

Consume(n) ==
  /\ captured' = captured + n
  /\ IF Breaches(n)
     THEN FailIn("aborting", "limit") /\ UNCHANGED offered
     ELSE Forward(n)
  /\ UNCHANGED <<settings, toSend, live, relay, held, shown>>

\* The biased select! prefers standard output, but the child may write between
\* the two polls.
ReadOut ==
  /\ phase = "exec" /\ "out" \in live
  /\ \E n \in 1..pipe["out"] : Takes("out", n) /\ Consume(n)
  /\ UNCHANGED <<chunks, queued>>

\* recv() yields one chunk; which units are whose is left open.
RecvErr ==
  /\ phase = "exec" /\ "err" \in live
  /\ chunks > 0
  /\ \E n \in 1..queued :
       /\ IF chunks = 1 THEN n = queued ELSE queued - n >= chunks - 1
       /\ queued' = queued - n
       /\ Consume(n)
  /\ chunks' = chunks - 1
  /\ UNCHANGED childVars

\* Seeded fault: what is left in the channel is forgotten.
EndedWithTask(s) ==
  \/ s = "out" /\ AtEof("out")
  \/ s = "err" /\ relay = "gone"

\* A stream has ended: recv() gives None only once the task is gone and the
\* channel is empty.
Ended(s) ==
  \/ s = "out" /\ AtEof("out")
  \/ s = "err" /\ relay = "gone" /\ chunks = 0

\* flush_stream_line shows what was held back, and without redact the last line
\* once more, unless the output ended with a line's end.
Flush ==
  /\ offered' = captured - shown
  /\ \/ GoTo("flush") /\ IF redact THEN offered' > 0 ELSE captured > 0
     \/ GoTo("wait") /\ offered' = 0

StreamEnds(s) ==
  /\ phase = "exec" /\ s \in live
  /\ Ended(s)
  /\ live' = live \ {s}
  /\ IF live' = {} THEN Flush ELSE GoTo("exec") /\ UNCHANGED offered
  /\ UNCHANGED <<childVars, settings, toSend, relayVars, captured, shown>>

\* child.wait(), then the sink is told.
WaitResolves ==
  /\ phase = "wait"
  /\ Reaps
  /\ GoTo("exited")
  /\ UNCHANGED <<settings, toSend, live, relayVars, captured, shownVars>>
-----------------------------------------------------------------------------
\* The sink takes its event.
SinkTakes ==
  /\ shown' = shown + offered /\ offered' = 0
  /\ \/ phase = "started" /\ Proceed(toSend)
     \/ phase = "chunk" /\ GoTo("exec") /\ UNCHANGED relayVars
     \/ phase = "flush" /\ GoTo("wait") /\ UNCHANGED relayVars
     \/ phase = "exited" /\ Return("ok") /\ UNCHANGED relayVars
  /\ UNCHANGED <<childVars, settings, toSend, live, captured>>

\* Refusing Started drops the child, which kills it; refusing anything later
\* ends exec with an error.
SinkRefuses ==
  /\ \/ phase = "started" /\ Kill /\ Return("sink_failed")
     \/ phase \in SinkBusy \ {"started"}
        /\ FailIn("aborting", "sink_failed") /\ UNCHANGED childVars
  /\ UNCHANGED <<settings, toSend, live, relayVars, captured, shownVars>>
-----------------------------------------------------------------------------
\* Seeded fault: the sink is awaited outside the timeout.
TimeoutReading ==
  /\ phase \in Exec \ SinkBusy /\ timed
  /\ FailIn("aborting", "timeout")
  /\ UNCHANGED <<childVars, settings, toSend, live, relayVars, captured, shownVars>>

\* tokio::time::timeout around exec, the sink included.
Timeout ==
  /\ phase \in Exec /\ timed
  /\ FailIn("aborting", "timeout")
  /\ UNCHANGED <<childVars, settings, toSend, live, relayVars, captured, shownVars>>

\* Seeded fault: the task is left to itself.
AbortNothing ==
  /\ phase = "aborting"
  /\ GoTo("killing")
  /\ UNCHANGED <<childVars, settings, toSend, live, relayVars, captured, shownVars>>

\* handle.abort() and handle.await.
Abort ==
  /\ phase = "aborting"
  /\ relay' = "gone" /\ held' = 0
  /\ GoTo("killing")
  /\ UNCHANGED <<childVars, settings, toSend, live, chunks, queued, captured, shownVars>>

\* Seeded fault: the error is returned once the kill is sent.
KillOnly ==
  /\ phase = "killing"
  /\ \/ child = "running" /\ Kill /\ GoTo("killing")
     \/ Dead /\ Return(verdict) /\ UNCHANGED childVars
  /\ UNCHANGED <<settings, toSend, live, relayVars, captured, shownVars>>

\* Seeded fault: the child is awaited and not killed.
ReapOnly ==
  /\ phase = "killing"
  /\ \/ Dead /\ ~reaped /\ Reaps /\ GoTo("killing")
     \/ reaped /\ Return(verdict) /\ UNCHANGED childVars
  /\ UNCHANGED <<settings, toSend, live, relayVars, captured, shownVars>>

\* child.kill().await and child.wait().await, then the error.
KillAndReap ==
  /\ phase = "killing"
  /\ \/ child = "running" /\ Kill /\ GoTo("killing")
     \/ Dead /\ ~reaped /\ Reaps /\ GoTo("killing")
     \/ reaped /\ Return(verdict) /\ UNCHANGED childVars
  /\ UNCHANGED <<settings, toSend, live, relayVars, captured, shownVars>>

\* The caller drops the future: kill_on_drop.  The task is detached.
Dropped ==
  /\ phase \notin {"idle", "done"}
  /\ Return("cancelled")
  /\ Kill
  /\ UNCHANGED <<settings, toSend, live, relayVars, captured, shownVars>>

\* The runtime reaps a child whose handle was dropped.
OrphanReaped ==
  /\ phase = "done" /\ ~reaped
  /\ Reaps
  /\ UNCHANGED runVars

Done == phase = "done" /\ UNCHANGED vars
-----------------------------------------------------------------------------
\* What the future does when polled, while the sink has no event.
Poll ==
  \/ Start \/ WriteStdin \/ StdinBroken
  \/ ReadOut \/ RecvErr \/ \E s \in Streams : StreamEnds(s)
  \/ WaitResolves \/ Abort \/ KillAndReap

Next ==
  \/ Poll \/ Relay \/ Timeout
  \/ SinkTakes \/ SinkRefuses
  \/ Dropped \/ OrphanReaped \/ Done
  \/ ChildStep /\ UNCHANGED runVars

Spec == Init /\ [][Next]_vars

\* The future and its task are polled when they can move, and timers fire.
\* Nothing is owed by the child or by the sink.
FairSpec == Spec /\ WF_vars(Poll) /\ WF_vars(Relay) /\ WF_vars(Timeout)
-----------------------------------------------------------------------------
\* A successful answer carries all the output, the sink has seen every unit of
\* it, and both streams together stayed within the cap: nothing is lost in the
\* channel, in the stderr task or in a line held back (run_streaming_command).
OkComplete ==
  result = "ok" =>
    /\ child = "exited"
    /\ captured = wrote /\ shown = wrote
    /\ capped => wrote <= Cap

\* "the cap counts both streams' bytes mid-stream" (lib.rs, capability matrix):
\* the sink is never given more than the cap, however the chunks interleave.
SinkWithinCap == capped => shown + offered <= Cap

\* "Abort the stderr task on any terminating path so a lingering grandchild
\* cannot keep it, and its fd, alive" (run_streaming_command).  A dropped
\* future terminates nothing: its task goes on until it next has to send.
NoTaskLeft == result \notin {"none", "cancelled"} => relay \in {"none", "gone"}

\* An answer ends the session: it stands, the child writes nothing after it, and
\* neither the sink nor the count sees another unit, though a detached stderr
\* task may still read.
AnswersFinal ==
  [][result # "none" => UNCHANGED <<result, wrote, captured, shown, offered>>]_vars

\* Once standard input is behind it, neither a child that lingers nor a sink
\* that blocks ("can stall process output handling and deadlock",
\* CommandEventSink) keeps a session with a timeout from its answer.
FedAnswered == (timed /\ phase \in Exec \cup {"aborting", "killing"}) ~> phase = "done"

\* Output beyond the cap ends a session without a timeout, on whichever stream
\* it is, unless the sink holds on to an event for ever.
BreachEndsRun ==
  (phase \in Exec /\ capped /\ wrote > Cap)
    ~> (phase = "done" \/ [](phase \in SinkBusy))

\* The contract the runners share.  A sink's refusal counts as the caller's
\* loss of interest: refusing Started answers before the child is reaped.
Contract ==
  INSTANCE CommandContract WITH
    child <- IF child \in {"none", "running"} THEN child
             ELSE IF reaped THEN "reaped" ELSE "dead",
    result <- IF result = "sink_failed" THEN "cancelled" ELSE result

ImplementsContract == Contract!Spec
=============================================================================
