--------------------------- MODULE StreamRun_proofs ---------------------------
(***************************************************************************)
(* Proofs about StreamRun, for every pipe and channel size, cap and        *)
(* payload, whatever the child and the sink do.                            *)
(***************************************************************************)
EXTENDS StreamRun, TLAPS

(* Every unit written is in a pipe, with the task, in the channel or has been
   counted; only killing loses any. *)
Counted ==
  /\ captured + held + queued + pipe["out"] + pipe["err"] <= wrote
  /\ phase \notin {"killing", "done"} =>
       captured + held + queued + pipe["out"] + pipe["err"] = wrote
  /\ chunks <= queued /\ (chunks = 0 => queued = 0)
  /\ relay = "sending" <=> held > 0

(* A stream is given up once nothing more can come on it. *)
Drains ==
  /\ child # "none" => "out" \in live \/ AtEof("out")
  /\ "err" \notin live => relay = "gone" /\ chunks = 0
  /\ relay = "gone" /\ phase \notin {"killing", "done"} => AtEof("err")

(* What is known while the future is suspended at each await. *)
Suspended ==
  /\ phase = "idle" => child = "none"
  /\ phase \notin {"idle", "done"} => child # "none"
  /\ phase \notin {"killing", "done"} => child # "killed"
  /\ phase = "stdin" => toSend > 0
  /\ phase \in {"idle", "started", "stdin"} =>
       live = Streams /\ relay = "none" /\ chunks = 0 /\ captured = 0
  /\ phase \in Exec => relay # "none" /\ (capped => captured <= Cap)
  /\ phase \in {"exec", "chunk"} <=> phase \in Exec /\ live # {}
  /\ phase = "exec" => offered = 0
  /\ phase = "flush" => shown + offered = captured
  /\ phase \in {"wait", "exited"} => shown = captured /\ offered = 0
  /\ phase = "exited" => reaped
  /\ phase \in {"aborting", "killing"} => verdict \in Errors
  /\ phase = "killing" => relay \in {"none", "gone"}
  /\ verdict = "limit" => capped /\ captured > Cap
  /\ reaped => Dead

(* What is known once there is an answer. *)
Settled ==
  /\ result = "none" <=> phase # "done"
  /\ result = "refused" => child = "none"
  /\ result \notin {"none", "refused"} => Dead
  /\ result \in {"ok", "limit", "timeout", "stdin_failed"} => reaped
  /\ result = "ok" =>
       child = "exited" /\ captured = wrote /\ shown = wrote /\ (capped => captured <= Cap)
  /\ result = "limit" => capped /\ captured > Cap

IInv ==
  /\ TypeOK /\ Counted /\ Drains /\ Suspended /\ Settled
  /\ SinkWithinCap /\ NoTaskLeft

(* Spawning, or refusing to. *)
LEMMA StartIInv ==
  ASSUME IInv, Start
  PROVE  IInv'
<1> USE ChildAssumption, StreamAssumption DEF ChildAssumption, StreamAssumption, IInv
<1>1. TypeOK'
  BY DEF TypeOK, ChildTypeOK, Ends, Streams, Errors, Exec, Counted, Suspended,
     Start, Spawned, Return, GoTo, FailIn, settings, relayVars, shownVars,
     childVars
<1>2. Counted'
  BY DEF TypeOK, ChildTypeOK, Ends, Streams, Exec, Counted, Drains, Suspended,
     AtEof, Start, Spawned, Return, GoTo, FailIn, settings, relayVars,
     shownVars, childVars
<1>3. Drains'
  BY DEF TypeOK, ChildTypeOK, Ends, Streams, Exec, Counted, Drains, Suspended,
     AtEof, Start, Spawned, Return, GoTo, FailIn, settings, relayVars,
     shownVars, childVars
<1>4. Suspended'
  BY DEF TypeOK, ChildTypeOK, Ends, Streams, Errors, Exec, Counted, Suspended,
     Settled, Dead, Start, Spawned, Return, GoTo, FailIn, settings, relayVars,
     shownVars, childVars
<1>5. Settled'
  BY DEF TypeOK, ChildTypeOK, Ends, Streams, Errors, Exec, Counted, Drains,
     Suspended, Settled, Dead, AtEof, Start, Spawned, Return, GoTo, FailIn,
     settings, relayVars, shownVars, childVars
<1>6. SinkWithinCap' /\ NoTaskLeft'
  BY DEF TypeOK, Streams, Errors, Exec, Drains, Suspended, Settled,
     SinkWithinCap, NoTaskLeft, Start, Spawned, Return, GoTo, FailIn,
     settings, relayVars, shownVars, childVars
<1> QED
  BY <1>1, <1>2, <1>3, <1>4, <1>5, <1>6

(* A unit goes where there is room; after the last one the task is spawned. *)
LEMMA WriteStdinIInv ==
  ASSUME IInv, WriteStdin
  PROVE  IInv'
<1> USE ChildAssumption, StreamAssumption DEF ChildAssumption, StreamAssumption, IInv
<1>1. TypeOK'
  BY DEF TypeOK, ChildTypeOK, Ends, Streams, Errors, Exec, Counted, Suspended,
     WriteStdin, Proceed, Return, GoTo, FailIn, settings, relayVars,
     shownVars, childVars
<1>2. Counted'
  BY DEF TypeOK, ChildTypeOK, Ends, Streams, Exec, Counted, Drains, Suspended,
     AtEof, WriteStdin, Proceed, Return, GoTo, FailIn, settings, relayVars,
     shownVars, childVars
<1>3. Drains'
  BY DEF TypeOK, ChildTypeOK, Ends, Streams, Exec, Counted, Drains, Suspended,
     AtEof, WriteStdin, Proceed, Return, GoTo, FailIn, settings, relayVars,
     shownVars, childVars
<1>4. Suspended'
  BY DEF TypeOK, ChildTypeOK, Ends, Streams, Errors, Exec, Counted, Suspended,
     Settled, Dead, WriteStdin, Proceed, Return, GoTo, FailIn, settings,
     relayVars, shownVars, childVars
<1>5. Settled'
  BY DEF TypeOK, ChildTypeOK, Ends, Streams, Errors, Exec, Counted, Drains,
     Suspended, Settled, Dead, AtEof, WriteStdin, Proceed, Return, GoTo,
     FailIn, settings, relayVars, shownVars, childVars
<1>6. SinkWithinCap' /\ NoTaskLeft'
  BY DEF TypeOK, Streams, Errors, Exec, Drains, Suspended, Settled,
     SinkWithinCap, NoTaskLeft, WriteStdin, Proceed, Return, GoTo, FailIn,
     settings, relayVars, shownVars, childVars
<1> QED
  BY <1>1, <1>2, <1>3, <1>4, <1>5, <1>6

(* A broken stdin pipe condemns the child. *)
LEMMA StdinBrokenIInv ==
  ASSUME IInv, StdinBroken
  PROVE  IInv'
<1> USE ChildAssumption, StreamAssumption DEF ChildAssumption, StreamAssumption, IInv
<1>1. TypeOK'
  BY DEF TypeOK, ChildTypeOK, Ends, Streams, Errors, Exec, Counted, Suspended,
     StdinBroken, Return, GoTo, FailIn, settings, relayVars, shownVars,
     childVars
<1>2. Counted'
  BY DEF TypeOK, ChildTypeOK, Ends, Streams, Exec, Counted, Drains, Suspended,
     AtEof, StdinBroken, Return, GoTo, FailIn, settings, relayVars, shownVars,
     childVars
<1>3. Drains'
  BY DEF TypeOK, ChildTypeOK, Ends, Streams, Exec, Counted, Drains, Suspended,
     AtEof, StdinBroken, Return, GoTo, FailIn, settings, relayVars, shownVars,
     childVars
<1>4. Suspended'
  BY DEF TypeOK, ChildTypeOK, Ends, Streams, Errors, Exec, Counted, Suspended,
     Settled, Dead, StdinBroken, Return, GoTo, FailIn, settings, relayVars,
     shownVars, childVars
<1>5. Settled'
  BY DEF TypeOK, ChildTypeOK, Ends, Streams, Errors, Exec, Counted, Drains,
     Suspended, Settled, Dead, AtEof, StdinBroken, Return, GoTo, FailIn,
     settings, relayVars, shownVars, childVars
<1>6. SinkWithinCap' /\ NoTaskLeft'
  BY DEF TypeOK, Streams, Errors, Exec, Drains, Suspended, Settled,
     SinkWithinCap, NoTaskLeft, StdinBroken, Return, GoTo, FailIn, settings,
     relayVars, shownVars, childVars
<1> QED
  BY <1>1, <1>2, <1>3, <1>4, <1>5, <1>6

(* The task reads a chunk. *)
LEMMA RelayReadsIInv ==
  ASSUME IInv, RelayReads /\ UNCHANGED <<settings, toSend, phase, verdict, live, captured,
                                  shownVars, result>>
  PROVE  IInv'
<1> USE ChildAssumption, StreamAssumption DEF ChildAssumption, StreamAssumption, IInv
<1>1. TypeOK'
  BY DEF TypeOK, ChildTypeOK, Ends, Streams, Errors, Exec, Counted, Suspended,
     RelayReads, Takes, Return, GoTo, FailIn, settings, relayVars, shownVars,
     childVars
<1>2. Counted'
  BY DEF TypeOK, ChildTypeOK, Ends, Streams, Exec, Counted, Drains, Suspended,
     AtEof, RelayReads, Takes, Return, GoTo, FailIn, settings, relayVars,
     shownVars, childVars
<1>3. Drains'
  BY DEF TypeOK, ChildTypeOK, Ends, Streams, Exec, Counted, Drains, Suspended,
     AtEof, RelayReads, Takes, Return, GoTo, FailIn, settings, relayVars,
     shownVars, childVars
<1>4. Suspended'
  BY DEF TypeOK, ChildTypeOK, Ends, Streams, Errors, Exec, Counted, Suspended,
     Settled, Dead, RelayReads, Takes, Return, GoTo, FailIn, settings,
     relayVars, shownVars, childVars
<1>5. Settled'
  BY DEF TypeOK, ChildTypeOK, Ends, Streams, Errors, Exec, Counted, Drains,
     Suspended, Settled, Dead, AtEof, RelayReads, Takes, Return, GoTo, FailIn,
     settings, relayVars, shownVars, childVars
<1>6. SinkWithinCap' /\ NoTaskLeft'
  BY DEF TypeOK, Streams, Errors, Exec, Drains, Suspended, Settled,
     SinkWithinCap, NoTaskLeft, RelayReads, Takes, Return, GoTo, FailIn,
     settings, relayVars, shownVars, childVars
<1> QED
  BY <1>1, <1>2, <1>3, <1>4, <1>5, <1>6

(* The task puts its chunk into the channel. *)
LEMMA SendsIInv ==
  ASSUME IInv, Sends /\ UNCHANGED <<childVars, settings, toSend, phase, verdict, live, captured,
                             shownVars, result>>
  PROVE  IInv'
<1> USE ChildAssumption, StreamAssumption DEF ChildAssumption, StreamAssumption, IInv
<1>1. TypeOK'
  BY DEF TypeOK, ChildTypeOK, Ends, Streams, Errors, Exec, Counted, Suspended,
     Sends, Return, GoTo, FailIn, settings, relayVars, shownVars, childVars
<1>2. Counted'
  BY DEF TypeOK, ChildTypeOK, Ends, Streams, Exec, Counted, Drains, Suspended,
     AtEof, Sends, Return, GoTo, FailIn, settings, relayVars, shownVars,
     childVars
<1>3. Drains'
  BY DEF TypeOK, ChildTypeOK, Ends, Streams, Exec, Counted, Drains, Suspended,
     AtEof, Sends, Return, GoTo, FailIn, settings, relayVars, shownVars,
     childVars
<1>4. Suspended'
  BY DEF TypeOK, ChildTypeOK, Ends, Streams, Errors, Exec, Counted, Suspended,
     Settled, Dead, Sends, Return, GoTo, FailIn, settings, relayVars,
     shownVars, childVars
<1>5. Settled'
  BY DEF TypeOK, ChildTypeOK, Ends, Streams, Errors, Exec, Counted, Drains,
     Suspended, Settled, Dead, AtEof, Sends, Return, GoTo, FailIn, settings,
     relayVars, shownVars, childVars
<1>6. SinkWithinCap' /\ NoTaskLeft'
  BY DEF TypeOK, Streams, Errors, Exec, Drains, Suspended, Settled,
     SinkWithinCap, NoTaskLeft, Sends, Return, GoTo, FailIn, settings,
     relayVars, shownVars, childVars
<1> QED
  BY <1>1, <1>2, <1>3, <1>4, <1>5, <1>6

(* The task ends. *)
LEMMA RelayEndsIInv ==
  ASSUME IInv, RelayEnds /\ UNCHANGED <<childVars, settings, toSend, phase, verdict, live,
                                 captured, shownVars, result>>
  PROVE  IInv'
<1> USE ChildAssumption, StreamAssumption DEF ChildAssumption, StreamAssumption, IInv
<1>1. TypeOK'
  BY DEF TypeOK, ChildTypeOK, Ends, Streams, Errors, Exec, Counted, Suspended,
     RelayEnds, Return, GoTo, FailIn, settings, relayVars, shownVars,
     childVars
<1>2. Counted'
  BY DEF TypeOK, ChildTypeOK, Ends, Streams, Exec, Counted, Drains, Suspended,
     AtEof, RelayEnds, Return, GoTo, FailIn, settings, relayVars, shownVars,
     childVars
<1>3. Drains'
  BY DEF TypeOK, ChildTypeOK, Ends, Streams, Exec, Counted, Drains, Suspended,
     AtEof, RelayEnds, Return, GoTo, FailIn, settings, relayVars, shownVars,
     childVars
<1>4. Suspended'
  BY DEF TypeOK, ChildTypeOK, Ends, Streams, Errors, Exec, Counted, Suspended,
     Settled, Dead, RelayEnds, Return, GoTo, FailIn, settings, relayVars,
     shownVars, childVars
<1>5. Settled'
  BY DEF TypeOK, ChildTypeOK, Ends, Streams, Errors, Exec, Counted, Drains,
     Suspended, Settled, Dead, AtEof, RelayEnds, Return, GoTo, FailIn,
     settings, relayVars, shownVars, childVars
<1>6. SinkWithinCap' /\ NoTaskLeft'
  BY DEF TypeOK, Streams, Errors, Exec, Drains, Suspended, Settled,
     SinkWithinCap, NoTaskLeft, RelayEnds, Return, GoTo, FailIn, settings,
     relayVars, shownVars, childVars
<1> QED
  BY <1>1, <1>2, <1>3, <1>4, <1>5, <1>6

(* A chunk of standard output is counted, and shown or refused. *)
LEMMA ReadOutIInv ==
  ASSUME IInv, ReadOut
  PROVE  IInv'
<1> USE ChildAssumption, StreamAssumption DEF ChildAssumption, StreamAssumption, IInv
<1>1. TypeOK'
  BY DEF TypeOK, ChildTypeOK, Ends, Streams, Errors, Exec, Counted, Suspended,
     ReadOut, Takes, Consume, Breaches, Forward, Return, GoTo, FailIn,
     settings, relayVars, shownVars, childVars
<1>2. Counted'
  BY DEF TypeOK, ChildTypeOK, Ends, Streams, Exec, Counted, Drains, Suspended,
     AtEof, ReadOut, Takes, Consume, Breaches, Forward, Return, GoTo, FailIn,
     settings, relayVars, shownVars, childVars
<1>3. Drains'
  BY DEF TypeOK, ChildTypeOK, Ends, Streams, Exec, Counted, Drains, Suspended,
     AtEof, ReadOut, Takes, Consume, Breaches, Forward, Return, GoTo, FailIn,
     settings, relayVars, shownVars, childVars
<1>4. Suspended'
  BY DEF TypeOK, ChildTypeOK, Ends, Streams, Errors, Exec, Counted, Suspended,
     Settled, Dead, ReadOut, Takes, Consume, Breaches, Forward, Return, GoTo,
     FailIn, settings, relayVars, shownVars, childVars
<1>5. Settled'
  BY DEF TypeOK, ChildTypeOK, Ends, Streams, Errors, Exec, Counted, Drains,
     Suspended, Settled, Dead, AtEof, ReadOut, Takes, Consume, Breaches,
     Forward, Return, GoTo, FailIn, settings, relayVars, shownVars, childVars
<1>6. SinkWithinCap' /\ NoTaskLeft'
  BY DEF TypeOK, Streams, Errors, Exec, Drains, Suspended, Settled,
     SinkWithinCap, NoTaskLeft, ReadOut, Takes, Consume, Breaches, Forward,
     Return, GoTo, FailIn, settings, relayVars, shownVars, childVars
<1> QED
  BY <1>1, <1>2, <1>3, <1>4, <1>5, <1>6

(* So is one from the channel. *)
LEMMA RecvErrIInv ==
  ASSUME IInv, RecvErr
  PROVE  IInv'
<1> USE ChildAssumption, StreamAssumption DEF ChildAssumption, StreamAssumption, IInv
<1>1. TypeOK'
  BY DEF TypeOK, ChildTypeOK, Ends, Streams, Errors, Exec, Counted, Suspended,
     RecvErr, Consume, Breaches, Forward, Return, GoTo, FailIn, settings,
     relayVars, shownVars, childVars
<1>2. Counted'
  BY DEF TypeOK, ChildTypeOK, Ends, Streams, Exec, Counted, Drains, Suspended,
     AtEof, RecvErr, Consume, Breaches, Forward, Return, GoTo, FailIn,
     settings, relayVars, shownVars, childVars
<1>3. Drains'
  BY DEF TypeOK, ChildTypeOK, Ends, Streams, Exec, Counted, Drains, Suspended,
     AtEof, RecvErr, Consume, Breaches, Forward, Return, GoTo, FailIn,
     settings, relayVars, shownVars, childVars
<1>4. Suspended'
  BY DEF TypeOK, ChildTypeOK, Ends, Streams, Errors, Exec, Counted, Suspended,
     Settled, Dead, RecvErr, Consume, Breaches, Forward, Return, GoTo, FailIn,
     settings, relayVars, shownVars, childVars
<1>5. Settled'
  BY DEF TypeOK, ChildTypeOK, Ends, Streams, Errors, Exec, Counted, Drains,
     Suspended, Settled, Dead, AtEof, RecvErr, Consume, Breaches, Forward,
     Return, GoTo, FailIn, settings, relayVars, shownVars, childVars
<1>6. SinkWithinCap' /\ NoTaskLeft'
  BY DEF TypeOK, Streams, Errors, Exec, Drains, Suspended, Settled,
     SinkWithinCap, NoTaskLeft, RecvErr, Consume, Breaches, Forward, Return,
     GoTo, FailIn, settings, relayVars, shownVars, childVars
<1> QED
  BY <1>1, <1>2, <1>3, <1>4, <1>5, <1>6

(* The end of a stream. *)
LEMMA StreamEndsIInv ==
  ASSUME IInv, NEW s \in Streams, StreamEnds(s)
  PROVE  IInv'
<1> USE ChildAssumption, StreamAssumption DEF ChildAssumption, StreamAssumption, IInv
<1>1. TypeOK'
  BY DEF TypeOK, ChildTypeOK, Ends, Streams, Errors, Exec, Counted, Suspended,
     StreamEnds, Ended, Flush, Return, GoTo, FailIn, settings, relayVars,
     shownVars, childVars
<1>2. Counted'
  BY DEF TypeOK, ChildTypeOK, Ends, Streams, Exec, Counted, Drains, Suspended,
     AtEof, StreamEnds, Ended, Flush, Return, GoTo, FailIn, settings,
     relayVars, shownVars, childVars
<1>3. Drains'
  BY DEF TypeOK, ChildTypeOK, Ends, Streams, Exec, Counted, Drains, Suspended,
     AtEof, StreamEnds, Ended, Flush, Return, GoTo, FailIn, settings,
     relayVars, shownVars, childVars
<1>4. Suspended'
  <2>1. CASE live \ {s} = {}
    <3>1. /\ phase = "exec" /\ live' = {} /\ offered' = captured - shown
          /\ phase' = "flush" \/ (phase' = "wait" /\ offered' = 0)
          /\ UNCHANGED <<childVars, settings, relayVars, captured, shown, verdict, result>>
      BY <2>1 DEF StreamEnds, Flush, GoTo
    <3>2. captured \in Nat /\ shown \in Nat
      BY DEF TypeOK
    <3> QED
      BY <3>1, <3>2 DEF Errors, Exec, Suspended, Dead, settings, relayVars, childVars
  <2>2. CASE live \ {s} # {}
    BY <2>2
       DEF TypeOK, ChildTypeOK, Ends, Streams, Errors, Exec, Suspended, Dead, StreamEnds,
           Ended, GoTo, settings, relayVars, childVars
  <2> QED
    BY <2>1, <2>2
<1>5. Settled'
  BY DEF TypeOK, ChildTypeOK, Ends, Streams, Errors, Exec, Counted, Drains,
     Suspended, Settled, Dead, AtEof, StreamEnds, Ended, Flush, Return, GoTo,
     FailIn, settings, relayVars, shownVars, childVars
<1>6. SinkWithinCap' /\ NoTaskLeft'
  BY DEF TypeOK, Streams, Errors, Exec, Drains, Suspended, Settled,
     SinkWithinCap, NoTaskLeft, StreamEnds, Ended, Flush, Return, GoTo,
     FailIn, settings, relayVars, shownVars, childVars
<1> QED
  BY <1>1, <1>2, <1>3, <1>4, <1>5, <1>6

(* The exit status arrives. *)
LEMMA WaitResolvesIInv ==
  ASSUME IInv, WaitResolves
  PROVE  IInv'
<1> USE ChildAssumption, StreamAssumption DEF ChildAssumption, StreamAssumption, IInv
<1>1. TypeOK'
  BY DEF TypeOK, ChildTypeOK, Ends, Streams, Errors, Exec, Counted, Suspended,
     WaitResolves, Reaps, Return, GoTo, FailIn, settings, relayVars,
     shownVars, childVars
<1>2. Counted'
  BY DEF TypeOK, ChildTypeOK, Ends, Streams, Exec, Counted, Drains, Suspended,
     AtEof, WaitResolves, Reaps, Return, GoTo, FailIn, settings, relayVars,
     shownVars, childVars
<1>3. Drains'
  BY DEF TypeOK, ChildTypeOK, Ends, Streams, Exec, Counted, Drains, Suspended,
     AtEof, WaitResolves, Reaps, Return, GoTo, FailIn, settings, relayVars,
     shownVars, childVars
<1>4. Suspended'
  BY DEF TypeOK, ChildTypeOK, Ends, Streams, Errors, Exec, Counted, Suspended,
     Settled, Dead, WaitResolves, Reaps, Return, GoTo, FailIn, settings,
     relayVars, shownVars, childVars
<1>5. Settled'
  BY DEF TypeOK, ChildTypeOK, Ends, Streams, Errors, Exec, Counted, Drains,
     Suspended, Settled, Dead, AtEof, WaitResolves, Reaps, Return, GoTo,
     FailIn, settings, relayVars, shownVars, childVars
<1>6. SinkWithinCap' /\ NoTaskLeft'
  BY DEF TypeOK, Streams, Errors, Exec, Drains, Suspended, Settled,
     SinkWithinCap, NoTaskLeft, WaitResolves, Reaps, Return, GoTo, FailIn,
     settings, relayVars, shownVars, childVars
<1> QED
  BY <1>1, <1>2, <1>3, <1>4, <1>5, <1>6

(* The sink takes its event. *)
LEMMA SinkTakesIInv ==
  ASSUME IInv, SinkTakes
  PROVE  IInv'
<1> USE ChildAssumption, StreamAssumption DEF ChildAssumption, StreamAssumption, IInv
<1>1. TypeOK'
  BY DEF TypeOK, ChildTypeOK, Ends, Streams, Errors, Exec, Counted, Suspended,
     SinkTakes, Proceed, SinkBusy, Return, GoTo, FailIn, settings, relayVars,
     shownVars, childVars
<1>2. Counted'
  BY DEF TypeOK, ChildTypeOK, Ends, Streams, Exec, Counted, Drains, Suspended,
     AtEof, SinkTakes, Proceed, SinkBusy, Return, GoTo, FailIn, settings,
     relayVars, shownVars, childVars
<1>3. Drains'
  BY DEF TypeOK, ChildTypeOK, Ends, Streams, Exec, Counted, Drains, Suspended,
     AtEof, SinkTakes, Proceed, SinkBusy, Return, GoTo, FailIn, settings,
     relayVars, shownVars, childVars
<1>4. Suspended'
  BY DEF TypeOK, ChildTypeOK, Ends, Streams, Errors, Exec, Counted, Suspended,
     Settled, Dead, SinkTakes, Proceed, SinkBusy, Return, GoTo, FailIn,
     settings, relayVars, shownVars, childVars
<1>5. Settled'
  BY DEF TypeOK, ChildTypeOK, Ends, Streams, Errors, Exec, Counted, Drains,
     Suspended, Settled, Dead, AtEof, SinkTakes, Proceed, SinkBusy, Return,
     GoTo, FailIn, settings, relayVars, shownVars, childVars
<1>6. SinkWithinCap' /\ NoTaskLeft'
  BY DEF TypeOK, Streams, Errors, Exec, Drains, Suspended, Settled,
     SinkWithinCap, NoTaskLeft, SinkTakes, Proceed, SinkBusy, Return, GoTo,
     FailIn, settings, relayVars, shownVars, childVars
<1> QED
  BY <1>1, <1>2, <1>3, <1>4, <1>5, <1>6

(* The sink refuses it. *)
LEMMA SinkRefusesIInv ==
  ASSUME IInv, SinkRefuses
  PROVE  IInv'
<1> USE ChildAssumption, StreamAssumption DEF ChildAssumption, StreamAssumption, IInv
<1>1. TypeOK'
  BY DEF TypeOK, ChildTypeOK, Ends, Streams, Errors, Exec, Counted, Suspended,
     SinkRefuses, Kill, Inherited, SinkBusy, Return, GoTo, FailIn, settings,
     relayVars, shownVars, childVars
<1>2. Counted'
  BY DEF TypeOK, ChildTypeOK, Ends, Streams, Exec, Counted, Drains, Suspended,
     AtEof, SinkRefuses, Kill, Inherited, SinkBusy, Return, GoTo, FailIn,
     settings, relayVars, shownVars, childVars
<1>3. Drains'
  BY DEF TypeOK, ChildTypeOK, Ends, Streams, Exec, Counted, Drains, Suspended,
     AtEof, SinkRefuses, Kill, Inherited, SinkBusy, Return, GoTo, FailIn,
     settings, relayVars, shownVars, childVars
<1>4. Suspended'
  BY DEF TypeOK, ChildTypeOK, Ends, Streams, Errors, Exec, Counted, Suspended,
     Settled, Dead, SinkRefuses, Kill, Inherited, SinkBusy, Return, GoTo,
     FailIn, settings, relayVars, shownVars, childVars
<1>5. Settled'
  BY DEF TypeOK, ChildTypeOK, Ends, Streams, Errors, Exec, Counted, Drains,
     Suspended, Settled, Dead, AtEof, SinkRefuses, Kill, Inherited, SinkBusy,
     Return, GoTo, FailIn, settings, relayVars, shownVars, childVars
<1>6. SinkWithinCap' /\ NoTaskLeft'
  BY DEF TypeOK, Streams, Errors, Exec, Drains, Suspended, Settled,
     SinkWithinCap, NoTaskLeft, SinkRefuses, Kill, Inherited, SinkBusy,
     Return, GoTo, FailIn, settings, relayVars, shownVars, childVars
<1> QED
  BY <1>1, <1>2, <1>3, <1>4, <1>5, <1>6

(* The timeout fires. *)
LEMMA TimeoutIInv ==
  ASSUME IInv, Timeout
  PROVE  IInv'
<1> USE ChildAssumption, StreamAssumption DEF ChildAssumption, StreamAssumption, IInv
<1>1. TypeOK'
  BY DEF TypeOK, ChildTypeOK, Ends, Streams, Errors, Exec, Counted, Suspended,
     Timeout, Return, GoTo, FailIn, settings, relayVars, shownVars, childVars
<1>2. Counted'
  BY DEF TypeOK, ChildTypeOK, Ends, Streams, Exec, Counted, Drains, Suspended,
     AtEof, Timeout, Return, GoTo, FailIn, settings, relayVars, shownVars,
     childVars
<1>3. Drains'
  BY DEF TypeOK, ChildTypeOK, Ends, Streams, Exec, Counted, Drains, Suspended,
     AtEof, Timeout, Return, GoTo, FailIn, settings, relayVars, shownVars,
     childVars
<1>4. Suspended'
  BY DEF TypeOK, ChildTypeOK, Ends, Streams, Errors, Exec, Counted, Suspended,
     Settled, Dead, Timeout, Return, GoTo, FailIn, settings, relayVars,
     shownVars, childVars
<1>5. Settled'
  BY DEF TypeOK, ChildTypeOK, Ends, Streams, Errors, Exec, Counted, Drains,
     Suspended, Settled, Dead, AtEof, Timeout, Return, GoTo, FailIn, settings,
     relayVars, shownVars, childVars
<1>6. SinkWithinCap' /\ NoTaskLeft'
  BY DEF TypeOK, Streams, Errors, Exec, Drains, Suspended, Settled,
     SinkWithinCap, NoTaskLeft, Timeout, Return, GoTo, FailIn, settings,
     relayVars, shownVars, childVars
<1> QED
  BY <1>1, <1>2, <1>3, <1>4, <1>5, <1>6

(* The task is aborted. *)
LEMMA AbortIInv ==
  ASSUME IInv, Abort
  PROVE  IInv'
<1> USE ChildAssumption, StreamAssumption DEF ChildAssumption, StreamAssumption, IInv
<1>1. TypeOK'
  BY DEF TypeOK, ChildTypeOK, Ends, Streams, Errors, Exec, Counted, Suspended,
     Abort, Return, GoTo, FailIn, settings, relayVars, shownVars, childVars
<1>2. Counted'
  BY DEF TypeOK, ChildTypeOK, Ends, Streams, Exec, Counted, Drains, Suspended,
     AtEof, Abort, Return, GoTo, FailIn, settings, relayVars, shownVars,
     childVars
<1>3. Drains'
  BY DEF TypeOK, ChildTypeOK, Ends, Streams, Exec, Counted, Drains, Suspended,
     AtEof, Abort, Return, GoTo, FailIn, settings, relayVars, shownVars,
     childVars
<1>4. Suspended'
  BY DEF TypeOK, ChildTypeOK, Ends, Streams, Errors, Exec, Counted, Suspended,
     Settled, Dead, Abort, Return, GoTo, FailIn, settings, relayVars,
     shownVars, childVars
<1>5. Settled'
  BY DEF TypeOK, ChildTypeOK, Ends, Streams, Errors, Exec, Counted, Drains,
     Suspended, Settled, Dead, AtEof, Abort, Return, GoTo, FailIn, settings,
     relayVars, shownVars, childVars
<1>6. SinkWithinCap' /\ NoTaskLeft'
  BY DEF TypeOK, Streams, Errors, Exec, Drains, Suspended, Settled,
     SinkWithinCap, NoTaskLeft, Abort, Return, GoTo, FailIn, settings,
     relayVars, shownVars, childVars
<1> QED
  BY <1>1, <1>2, <1>3, <1>4, <1>5, <1>6

(* The child is killed, reaped, and the error returned. *)
LEMMA KillAndReapIInv ==
  ASSUME IInv, KillAndReap
  PROVE  IInv'
<1> USE ChildAssumption, StreamAssumption DEF ChildAssumption, StreamAssumption, IInv
<1>1. TypeOK'
  BY DEF TypeOK, ChildTypeOK, Ends, Streams, Errors, Exec, Counted, Suspended,
     KillAndReap, Kill, Inherited, Reaps, Return, GoTo, FailIn, settings,
     relayVars, shownVars, childVars
<1>2. Counted'
  BY DEF TypeOK, ChildTypeOK, Ends, Streams, Exec, Counted, Drains, Suspended,
     AtEof, KillAndReap, Kill, Inherited, Reaps, Return, GoTo, FailIn,
     settings, relayVars, shownVars, childVars
<1>3. Drains'
  BY DEF TypeOK, ChildTypeOK, Ends, Streams, Exec, Counted, Drains, Suspended,
     AtEof, KillAndReap, Kill, Inherited, Reaps, Return, GoTo, FailIn,
     settings, relayVars, shownVars, childVars
<1>4. Suspended'
  BY DEF TypeOK, ChildTypeOK, Ends, Streams, Errors, Exec, Counted, Suspended,
     Settled, Dead, KillAndReap, Kill, Inherited, Reaps, Return, GoTo, FailIn,
     settings, relayVars, shownVars, childVars
<1>5. Settled'
  BY DEF TypeOK, ChildTypeOK, Ends, Streams, Errors, Exec, Counted, Drains,
     Suspended, Settled, Dead, AtEof, KillAndReap, Kill, Inherited, Reaps,
     Return, GoTo, FailIn, settings, relayVars, shownVars, childVars
<1>6. SinkWithinCap' /\ NoTaskLeft'
  BY DEF TypeOK, Streams, Errors, Exec, Drains, Suspended, Settled,
     SinkWithinCap, NoTaskLeft, KillAndReap, Kill, Inherited, Reaps, Return,
     GoTo, FailIn, settings, relayVars, shownVars, childVars
<1> QED
  BY <1>1, <1>2, <1>3, <1>4, <1>5, <1>6

(* The future is dropped. *)
LEMMA DroppedIInv ==
  ASSUME IInv, Dropped
  PROVE  IInv'
<1> USE ChildAssumption, StreamAssumption DEF ChildAssumption, StreamAssumption, IInv
<1>1. TypeOK'
  BY DEF TypeOK, ChildTypeOK, Ends, Streams, Errors, Exec, Counted, Suspended,
     Dropped, Kill, Inherited, Return, GoTo, FailIn, settings, relayVars,
     shownVars, childVars
<1>2. Counted'
  BY DEF TypeOK, ChildTypeOK, Ends, Streams, Exec, Counted, Drains, Suspended,
     AtEof, Dropped, Kill, Inherited, Return, GoTo, FailIn, settings,
     relayVars, shownVars, childVars
<1>3. Drains'
  BY DEF TypeOK, ChildTypeOK, Ends, Streams, Exec, Counted, Drains, Suspended,
     AtEof, Dropped, Kill, Inherited, Return, GoTo, FailIn, settings,
     relayVars, shownVars, childVars
<1>4. Suspended'
  BY DEF TypeOK, ChildTypeOK, Ends, Streams, Errors, Exec, Counted, Suspended,
     Settled, Dead, Dropped, Kill, Inherited, Return, GoTo, FailIn, settings,
     relayVars, shownVars, childVars
<1>5. Settled'
  BY DEF TypeOK, ChildTypeOK, Ends, Streams, Errors, Exec, Counted, Drains,
     Suspended, Settled, Dead, AtEof, Dropped, Kill, Inherited, Return, GoTo,
     FailIn, settings, relayVars, shownVars, childVars
<1>6. SinkWithinCap' /\ NoTaskLeft'
  BY DEF TypeOK, Streams, Errors, Exec, Drains, Suspended, Settled,
     SinkWithinCap, NoTaskLeft, Dropped, Kill, Inherited, Return, GoTo,
     FailIn, settings, relayVars, shownVars, childVars
<1> QED
  BY <1>1, <1>2, <1>3, <1>4, <1>5, <1>6

(* The runtime reaps the dropped child. *)
LEMMA OrphanReapedIInv ==
  ASSUME IInv, OrphanReaped
  PROVE  IInv'
<1> USE ChildAssumption, StreamAssumption DEF ChildAssumption, StreamAssumption, IInv
<1>1. TypeOK'
  BY DEF TypeOK, ChildTypeOK, Ends, Streams, Errors, Exec, Counted, Suspended,
     OrphanReaped, Reaps, runVars, Return, GoTo, FailIn, settings, relayVars,
     shownVars, childVars
<1>2. Counted'
  BY DEF TypeOK, ChildTypeOK, Ends, Streams, Exec, Counted, Drains, Suspended,
     AtEof, OrphanReaped, Reaps, runVars, Return, GoTo, FailIn, settings,
     relayVars, shownVars, childVars
<1>3. Drains'
  BY DEF TypeOK, ChildTypeOK, Ends, Streams, Exec, Counted, Drains, Suspended,
     AtEof, OrphanReaped, Reaps, runVars, Return, GoTo, FailIn, settings,
     relayVars, shownVars, childVars
<1>4. Suspended'
  BY DEF TypeOK, ChildTypeOK, Ends, Streams, Errors, Exec, Counted, Suspended,
     Settled, Dead, OrphanReaped, Reaps, runVars, Return, GoTo, FailIn,
     settings, relayVars, shownVars, childVars
<1>5. Settled'
  BY DEF TypeOK, ChildTypeOK, Ends, Streams, Errors, Exec, Counted, Drains,
     Suspended, Settled, Dead, AtEof, OrphanReaped, Reaps, runVars, Return,
     GoTo, FailIn, settings, relayVars, shownVars, childVars
<1>6. SinkWithinCap' /\ NoTaskLeft'
  BY DEF TypeOK, Streams, Errors, Exec, Drains, Suspended, Settled,
     SinkWithinCap, NoTaskLeft, OrphanReaped, Reaps, runVars, Return, GoTo,
     FailIn, settings, relayVars, shownVars, childVars
<1> QED
  BY <1>1, <1>2, <1>3, <1>4, <1>5, <1>6

(* The child or a grandchild acts. *)
LEMMA ChildIInv ==
  ASSUME IInv, ChildStep /\ UNCHANGED runVars
  PROVE  IInv'
<1> USE ChildAssumption, StreamAssumption DEF ChildAssumption, StreamAssumption, IInv
<1>1. TypeOK'
  <2>1. pipe' \in [Ends -> 0..PipeSize] /\ wrote' \in 0..MaxOutput
    BY DEF TypeOK, ChildTypeOK, Ends, Streams, ChildStep, Writes, ReadsInput, Closes, Exits,
           Inherited
  <2>2. /\ open' \subseteq Ends /\ child' \in {"none", "running", "exited", "killed"}
        /\ reaped' \in BOOLEAN
    BY DEF TypeOK, ChildTypeOK, Ends, Streams, ChildStep, Writes, ReadsInput, Closes, Exits,
           Inherited
  <2> QED
    BY <2>1, <2>2 DEF TypeOK, ChildTypeOK, Exec, Errors, runVars, settings, relayVars,
                      shownVars
<1>2. Counted'
  BY DEF TypeOK, ChildTypeOK, Ends, Streams, Exec, Counted, Drains, Suspended,
     AtEof, ChildStep, Writes, ReadsInput, Closes, Exits, Inherited, runVars,
     Return, GoTo, FailIn, settings, relayVars, shownVars, childVars
<1>3. Drains'
  BY DEF TypeOK, ChildTypeOK, Ends, Streams, Exec, Counted, Drains, Suspended,
     AtEof, ChildStep, Writes, ReadsInput, Closes, Exits, Inherited, runVars,
     Return, GoTo, FailIn, settings, relayVars, shownVars, childVars
<1>4. Suspended'
  BY DEF TypeOK, ChildTypeOK, Ends, Streams, Errors, Exec, Counted, Suspended,
     Settled, Dead, ChildStep, Writes, ReadsInput, Closes, Exits, Inherited,
     runVars, Return, GoTo, FailIn, settings, relayVars, shownVars, childVars
<1>5. Settled'
  BY DEF TypeOK, ChildTypeOK, Ends, Streams, Errors, Exec, Counted, Drains,
     Suspended, Settled, Dead, AtEof, ChildStep, Writes, ReadsInput, Closes,
     Exits, Inherited, runVars, Return, GoTo, FailIn, settings, relayVars,
     shownVars, childVars
<1>6. SinkWithinCap' /\ NoTaskLeft'
  BY DEF TypeOK, Streams, Errors, Exec, Drains, Suspended, Settled,
     SinkWithinCap, NoTaskLeft, ChildStep, Writes, ReadsInput, Closes, Exits,
     Inherited, runVars, Return, GoTo, FailIn, settings, relayVars, shownVars,
     childVars
<1> QED
  BY <1>1, <1>2, <1>3, <1>4, <1>5, <1>6

(* Nothing happens. *)
LEMMA QuietIInv ==
  ASSUME IInv, Done \/ UNCHANGED vars
  PROVE  IInv'
<1>1. UNCHANGED childVars /\ UNCHANGED runVars
  BY DEF Done, vars
<1> USE <1>1 DEF IInv, childVars, runVars, settings, relayVars, shownVars
<1>2. TypeOK'
  BY DEF TypeOK, ChildTypeOK, Exec
<1>3. Counted' /\ Drains'
  BY DEF Counted, Drains, AtEof
<1>4. Suspended' /\ Settled'
  BY DEF Suspended, Settled, Dead, Exec
<1>5. SinkWithinCap' /\ NoTaskLeft'
  BY DEF SinkWithinCap, NoTaskLeft
<1> QED
  BY <1>2, <1>3, <1>4, <1>5

(* Everything above holds before the command is started. *)
LEMMA InitIInv == Init => IInv
<1> SUFFICES ASSUME Init PROVE IInv
  OBVIOUS
<1> USE ChildAssumption, StreamAssumption DEF ChildAssumption, StreamAssumption, Init, ChildInit
<1>1. ChildTypeOK
  <2>1. 0 \in 0..PipeSize /\ 0 \in 0..MaxOutput
    OBVIOUS
  <2>2. pipe \in [Ends -> 0..PipeSize]
    BY <2>1
  <2>3. reaped \in BOOLEAN
    OBVIOUS
  <2> QED
    BY <2>1, <2>2, <2>3 DEF ChildTypeOK
<1>2. {timed, capped, redact} \subseteq BOOLEAN
  OBVIOUS
<1>3. TypeOK
  BY <1>1, <1>2 DEF TypeOK, Streams
<1>4. Counted /\ Drains
  BY DEF Counted, Drains, Ends, Streams
<1>5. Suspended /\ Settled
  BY DEF Suspended, Settled, Errors, Dead, Exec, Streams
<1>6. SinkWithinCap /\ NoTaskLeft
  BY DEF SinkWithinCap, NoTaskLeft
<1> QED
  BY <1>3, <1>4, <1>5, <1>6 DEF IInv

(* No step breaks it. *)
LEMMA NextIInv == IInv /\ [Next]_vars => IInv'
<1> SUFFICES ASSUME IInv, [Next]_vars PROVE IInv'
  OBVIOUS
<1>1. CASE Poll
  BY <1>1, StartIInv, WriteStdinIInv, StdinBrokenIInv, ReadOutIInv, RecvErrIInv,
     StreamEndsIInv, WaitResolvesIInv, AbortIInv, KillAndReapIInv DEF Poll
<1>2. CASE Relay
  BY <1>2, RelayReadsIInv, SendsIInv, RelayEndsIInv DEF Relay
<1>3. CASE Timeout \/ SinkTakes \/ SinkRefuses \/ Dropped \/ OrphanReaped
  BY <1>3, TimeoutIInv, SinkTakesIInv, SinkRefusesIInv, DroppedIInv, OrphanReapedIInv
<1>4. CASE ChildStep /\ UNCHANGED runVars
  BY <1>4, ChildIInv
<1>5. CASE Done \/ UNCHANGED vars
  BY <1>5, QuietIInv
<1> QED
  BY <1>1, <1>2, <1>3, <1>4, <1>5 DEF Next

LEMMA Invariance == Spec => []IInv
BY InitIInv, NextIInv, PTL DEF Spec

(* The types are kept: pipes and the channel never hold more than they     *)
(* can, and the sink is never shown more than was read.                    *)
THEOREM TypeCorrect == Spec => []TypeOK
<1>1. IInv => TypeOK
  BY DEF IInv
<1> QED
  BY <1>1, Invariance, PTL

(* A successful answer carries everything the child wrote and the sink has *)
(* been shown all of it, within the cap.                                   *)
THEOREM OkIsComplete == Spec => []OkComplete
<1>1. IInv => OkComplete
  BY DEF IInv, Settled, OkComplete
<1> QED
  BY <1>1, Invariance, PTL

(* The sink is never given more than the cap, whatever the interleaving of *)
(* the two streams.                                                        *)
THEOREM SinkStaysWithinCap == Spec => []SinkWithinCap
<1>1. IInv => SinkWithinCap
  BY DEF IInv
<1> QED
  BY <1>1, Invariance, PTL

(* No answer leaves the stderr task behind; only a dropped future does.    *)
THEOREM NoTaskIsLeft == Spec => []NoTaskLeft
<1>1. IInv => NoTaskLeft
  BY DEF IInv
<1> QED
  BY <1>1, Invariance, PTL

(* No answer leaves the child running or the sink to be shown more: what a *)
(* detached task still does is seen by nobody.                             *)
THEOREM AnswersStand == Spec => AnswersFinal
<1>1. IInv /\ [Next]_vars
        => [result # "none" => UNCHANGED <<result, wrote, captured, shown, offered>>]_vars
  <2> SUFFICES ASSUME IInv, Next, result # "none"
               PROVE  UNCHANGED <<result, wrote, captured, shown, offered>>
    OBVIOUS
  <2>1. phase = "done" /\ child # "running"
    BY DEF IInv, Settled, Dead
  <2>2. ~Poll /\ ~Timeout /\ ~Dropped
    BY <2>1 DEF Poll, Start, WriteStdin, StdinBroken, ReadOut, RecvErr, StreamEnds,
       WaitResolves, Abort, KillAndReap, Timeout, Exec, Dropped
  <2>3. ~SinkTakes /\ ~SinkRefuses
    BY <2>1 DEF SinkTakes, SinkRefuses, SinkBusy
  <2>4. CASE Relay
    BY <2>4 DEF Relay, RelayReads, Takes, Sends, RelayEnds, childVars, shownVars
  <2>5. CASE OrphanReaped \/ Done
    BY <2>5 DEF OrphanReaped, Reaps, Done, vars, childVars, runVars, shownVars
  <2>6. CASE ChildStep /\ UNCHANGED runVars
    BY <2>1, <2>6 DEF ChildStep, Writes, ReadsInput, Closes, Exits, runVars, shownVars
  <2> QED
    BY <2>2, <2>3, <2>4, <2>5, <2>6 DEF Next
<1> QED
  BY <1>1, InitIInv, NextIInv, PTL DEF Spec, AnswersFinal

-----------------------------------------------------------------------------
(* Starting, or refusing to. *)
LEMMA StartRefines == IInv /\ Start => Contract!Start \/ Contract!Refuse
BY DEF IInv, Suspended, Settled, Start, Spawned, Return, GoTo, settings, childVars,
       Contract!Start, Contract!Refuse

(* Steps the contract does not see. *)
LEMMA SilentRefines ==
  ASSUME UNCHANGED <<capped, child, reaped, wrote, result>>
  PROVE  UNCHANGED Contract!vars
BY DEF Contract!vars

(* The exit status arrives. *)
LEMMA WaitRefines == IInv /\ WaitResolves => Contract!Reap \/ UNCHANGED Contract!vars
BY DEF WaitResolves, Reaps, Dead, GoTo, settings, Contract!Reap, Contract!vars

(* The sink takes the last event: the answer is a success. *)
LEMMA OkRefines ==
  ASSUME IInv, SinkTakes
  PROVE  Contract!Answer("ok") \/ UNCHANGED Contract!vars
<1>1. CASE phase = "exited" /\ Return("ok") /\ UNCHANGED relayVars
  <2>1. /\ child = "exited" /\ reaped /\ result = "none"
        /\ (capped => captured <= Cap)
    BY <1>1 DEF IInv, Suspended, Settled, Dead, Exec
  <2>2. captured = wrote
    <3>1. live = {} /\ AtEof("out") /\ AtEof("err") /\ chunks = 0 /\ relay = "gone"
      BY <1>1, <2>1 DEF IInv, TypeOK, Streams, Suspended, Drains, Exec
    <3> QED
      BY <1>1, <3>1, StreamAssumption, ChildAssumption
         DEF IInv, TypeOK, ChildTypeOK, Counted, AtEof, Ends, Streams, ChildAssumption
  <2> QED
    BY <1>1, <2>1, <2>2 DEF SinkTakes, Return, settings, childVars, Contract!Answer
<1>2. CASE phase # "exited"
  BY <1>2, SilentRefines DEF SinkTakes, Proceed, GoTo, settings, childVars
<1> QED
  BY <1>1, <1>2 DEF SinkTakes

(* The sink refuses: an error of the caller's own making. *)
LEMMA RefusalRefines ==
  ASSUME IInv, SinkRefuses
  PROVE  Contract!Cancel \/ UNCHANGED Contract!vars
<1>1. CASE phase = "started"
  BY <1>1 DEF IInv, Suspended, Settled, Dead, SinkRefuses, SinkBusy, Kill, Return, settings,
              childVars, Contract!Cancel
<1>2. CASE phase # "started"
  BY <1>2, SilentRefines DEF SinkRefuses, FailIn, settings, childVars
<1> QED
  BY <1>1, <1>2

(* Dying, being reaped, and the error: three steps, in that order. *)
LEMMA KillRefines ==
  ASSUME IInv, KillAndReap
  PROVE  \/ Contract!Die \/ Contract!Reap \/ Contract!Cancel
         \/ \E r \in {"ok", "limit", "timeout", "stdin_failed"} : Contract!Answer(r)
<1>1. CASE child = "running" /\ Kill /\ GoTo("killing")
  BY <1>1 DEF IInv, Suspended, Dead, Kill, GoTo, KillAndReap, settings, Contract!Die
<1>2. CASE Dead /\ ~reaped /\ Reaps /\ GoTo("killing")
  BY <1>2 DEF Dead, Reaps, GoTo, KillAndReap, settings, Contract!Reap
<1>3. CASE reaped /\ Return(verdict) /\ UNCHANGED childVars
  <2>1. /\ verdict \in Errors /\ result = "none" /\ Dead
        /\ verdict = "limit" => capped /\ captured > Cap
    BY <1>3 DEF IInv, Suspended, Settled, KillAndReap
  <2>2. captured <= wrote
    <3>1. /\ pipe["out"] \in Nat /\ pipe["err"] \in Nat /\ captured \in Nat /\ held \in Nat
          /\ queued \in Nat /\ wrote \in Nat
      BY ChildAssumption DEF IInv, TypeOK, ChildTypeOK, Ends, Streams, ChildAssumption
    <3> QED
      BY <3>1 DEF IInv, Counted
  <2>3. verdict = "limit" => capped /\ wrote > Cap
    BY <2>1, <2>2, ChildAssumption, StreamAssumption
       DEF IInv, TypeOK, ChildTypeOK, ChildAssumption, StreamAssumption
  <2>4. CASE verdict = "sink_failed"
    BY <1>3, <2>1, <2>4
       DEF Dead, Return, KillAndReap, settings, childVars, Contract!Cancel
  <2>5. CASE verdict # "sink_failed"
    <3>1. verdict \in {"limit", "timeout", "stdin_failed"}
      BY <2>1, <2>5 DEF Errors
    <3>2. Contract!Answer(verdict)
      BY <1>3, <2>1, <2>3, <3>1
         DEF Dead, Return, KillAndReap, settings, childVars, Contract!Answer
    <3> QED
      BY <3>1, <3>2
  <2> QED
    BY <2>4, <2>5
<1> QED
  BY <1>1, <1>2, <1>3 DEF KillAndReap

(* A dropped future takes its child with it. *)
LEMMA DropRefines ==
  ASSUME IInv, Dropped \/ OrphanReaped
  PROVE  Contract!Cancel \/ Contract!Reap
BY DEF IInv, Suspended, Settled, Dropped, Kill, childVars, settings, Return, OrphanReaped,
       Reaps, Dead, runVars, Contract!Cancel, Contract!Reap

(* The child's own steps. *)
LEMMA ChildRefines ==
  ASSUME IInv, ChildStep, UNCHANGED runVars
  PROVE  Contract!Write \/ Contract!Die \/ UNCHANGED Contract!vars
BY DEF IInv, TypeOK, ChildTypeOK, Suspended, ChildStep, Writes, ReadsInput, Closes,
       Exits, runVars, settings, Dead, Contract!Write, Contract!Die, Contract!vars

LEMMA StepRefines == IInv /\ [Next]_vars => [Contract!Next]_(Contract!vars)
<1> SUFFICES ASSUME IInv, [Next]_vars PROVE [Contract!Next]_(Contract!vars)
  OBVIOUS
<1>1. CASE Start
  BY <1>1, StartRefines DEF Contract!Next
<1>2. CASE WriteStdin \/ StdinBroken \/ Timeout \/ Abort \/ \E s \in Streams : StreamEnds(s)
  BY <1>2, SilentRefines
     DEF WriteStdin, StdinBroken, Timeout, Abort, StreamEnds, Proceed, GoTo, FailIn, Flush,
         settings, childVars
<1>3. CASE ReadOut \/ RecvErr
  BY <1>3, SilentRefines
     DEF ReadOut, RecvErr, Takes, Consume, Forward, GoTo, FailIn, settings, childVars
<1>4. CASE Relay
  BY <1>4, SilentRefines
     DEF Relay, RelayReads, Sends, RelayEnds, Takes, settings, childVars
<1>5. CASE WaitResolves
  BY <1>5, WaitRefines DEF Contract!Next
<1>6. CASE SinkTakes
  BY <1>6, OkRefines DEF Contract!Next
<1>7. CASE SinkRefuses
  BY <1>7, RefusalRefines DEF Contract!Next
<1>8. CASE KillAndReap
  BY <1>8, KillRefines DEF Contract!Next
<1>9. CASE Dropped \/ OrphanReaped
  BY <1>9, DropRefines DEF Contract!Next
<1>10. CASE ChildStep /\ UNCHANGED runVars
  BY <1>10, ChildRefines DEF Contract!Next
<1>11. CASE Done \/ UNCHANGED vars
  BY <1>11, SilentRefines DEF Done, vars, childVars, runVars, settings
<1> QED
  BY <1>1, <1>2, <1>3, <1>4, <1>5, <1>6, <1>7, <1>8, <1>9, <1>10, <1>11 DEF Next, Poll

(* Every answer comes after the child was reaped, once, and tells the      *)
(* truth about the cap; a dropped or refused session leaves no child       *)
(* running.                                                                *)
THEOREM StreamRunKeepsContract == Spec => ImplementsContract
<1>1. Init => Contract!Init
  BY DEF Init, ChildInit, Contract!Init
<1> QED
  BY <1>1, Invariance, StepRefines, PTL DEF Spec, ImplementsContract, Contract!Spec
=============================================================================
