--------------------------- MODULE TokioRun_proofs ---------------------------
(***************************************************************************)
(* Proofs about TokioRun, for every pipe size, cap, payload and output.    *)
(***************************************************************************)
EXTENDS TokioRun, TLAPS

(* Every unit written is in a pipe or has been read. *)
Accounted == captured + pipe["out"] + pipe["err"] = wrote

(* A stream is given up at end of file only, and stays there. *)
DrainedAtEof == child # "none" => \A s \in Streams : s \in live \/ AtEof(s)

(* What is known while the future is suspended at each await. *)
Suspended ==
  /\ phase = "idle" => child = "none" /\ captured = 0
  /\ phase \in {"stdin", "race", "reap", "killing"} =>
       child # "none" /\ result = "none"
  /\ phase \in {"stdin", "race", "reap"} => child # "killed"
  /\ phase = "stdin" => toSend > 0
  /\ phase \in {"idle", "stdin"} => live = Streams /\ captured = 0
  /\ phase \in {"race", "reap"} => (capped => captured <= Cap)
  /\ phase = "race" /\ reaped => live # {}
  /\ phase = "reap" => live = {}
  /\ phase = "killing" => verdict \in Errors
  /\ verdict = "limit" => capped /\ captured > Cap
  /\ reaped => Dead

(* What is known once there is an answer. *)
Settled ==
  /\ result = "none" <=> phase # "done"
  /\ result = "refused" => child = "none"
  /\ result \notin {"none", "refused"} => child \notin {"none", "running"}
  /\ result \in Errors \cup {"ok"} => reaped
  /\ result = "ok" => child = "exited" /\ live = {} /\ (capped => captured <= Cap)
  /\ result = "limit" => capped /\ captured > Cap

IInv == TypeOK /\ Accounted /\ DrainedAtEof /\ Suspended /\ Settled

(* Spawning resets nothing: the pipes are empty before it. *)
LEMMA StartIInv ==
  ASSUME IInv, Start
  PROVE  IInv'
<1>1. /\ TypeOK /\ child = "none" /\ captured = 0 /\ live = Streams /\ result = "none"
      /\ verdict # "limit" /\ reaped = FALSE /\ UNCHANGED <<reaped, pipe, wrote>>
      /\ UNCHANGED <<timed, capped, toSend, live, captured, verdict>>
  <2>1. phase = "idle" /\ TypeOK /\ Suspended /\ Settled
    BY DEF IInv, Start
  <2>2. /\ child = "none" /\ captured = 0 /\ live = Streams /\ result = "none"
        /\ verdict # "limit" /\ reaped = FALSE
    BY <2>1, TokioAssumption DEF Suspended, Settled, Dead, TypeOK, ChildTypeOK, TokioAssumption
  <2> QED
    BY <2>1, <2>2 DEF Start, Spawned, Return, GoTo, childVars
<1>2. Accounted'
  BY <1>1 DEF IInv, Accounted
<1>3. CASE Return("refused") /\ UNCHANGED childVars
  <2>1. child' = "none" /\ open' = open /\ phase' = "done" /\ result' = "refused"
    BY <1>1, <1>3 DEF Return, childVars
  <2>2. TypeOK'
    BY <1>1, <2>1 DEF TypeOK, ChildTypeOK
  <2>3. DrainedAtEof' /\ Suspended' /\ Settled'
    BY <1>1, <2>1 DEF DrainedAtEof, Suspended, Settled, Errors, Dead
  <2> QED
    BY <1>2, <2>2, <2>3 DEF IInv
<1>4. CASE Spawned /\ GoTo(IF toSend = 0 THEN "race" ELSE "stdin")
  <2>1. /\ child' = "running" /\ open' = Ends /\ phase' \in {"race", "stdin"}
        /\ result' = "none"
    BY <1>1, <1>4 DEF Spawned, GoTo
  <2>2. TypeOK'
    BY <1>1, <2>1 DEF TypeOK, ChildTypeOK
  <2>3. DrainedAtEof' /\ Suspended' /\ Settled'
    BY <1>1, <1>4, <2>1, TokioAssumption
       DEF DrainedAtEof, Suspended, Settled, Errors, Dead, TokioAssumption, TypeOK,
         Spawned, GoTo
  <2> QED
    BY <1>2, <2>2, <2>3 DEF IInv
<1> QED
  BY <1>3, <1>4 DEF Start

(* write_stdin puts a unit into the pipe only where there is room. *)
LEMMA WriteStdinIInv ==
  ASSUME IInv, WriteStdin
  PROVE  IInv'
<1> USE ChildAssumption, TokioAssumption DEF ChildAssumption, TokioAssumption
<1>1. TypeOK'
  <2>1. timed' \in BOOLEAN /\ capped' \in BOOLEAN /\ reaped' \in BOOLEAN
    BY DEF IInv, TypeOK, ChildTypeOK,
           WriteStdin, GoTo
  <2>2. pipe' \in [Ends -> 0..PipeSize] /\ wrote' \in 0..MaxOutput
    BY DEF IInv, TypeOK, ChildTypeOK, Ends, Streams,
           WriteStdin, GoTo
  <2>3. open' \subseteq Ends /\ child' \in {"none", "running", "exited", "killed"}
    BY DEF IInv, TypeOK, ChildTypeOK, Ends, Streams,
           WriteStdin, GoTo
  <2>4. /\ toSend' \in Nat /\ captured' \in 0..MaxOutput /\ live' \subseteq Streams
        /\ phase' \in {"idle", "stdin", "race", "reap", "killing", "done"}
        /\ verdict' \in Errors \cup {"none"}
        /\ result' \in Errors \cup {"none", "ok", "refused", "cancelled"}
    BY DEF IInv, TypeOK, ChildTypeOK, Errors, Suspended,
           WriteStdin, GoTo
  <2> QED
    BY <2>1, <2>2, <2>3, <2>4 DEF TypeOK, ChildTypeOK
<1>2. Accounted'
  BY DEF IInv, TypeOK, ChildTypeOK, Ends, Streams, Accounted, Suspended,
         WriteStdin, GoTo
<1>3. DrainedAtEof'
  BY DEF IInv, TypeOK, ChildTypeOK, Ends, Streams, DrainedAtEof, Suspended, AtEof,
         WriteStdin, GoTo
<1>4. Suspended'
  BY DEF IInv, TypeOK, ChildTypeOK, Ends, Streams, Errors, Suspended, Settled, Dead,
         WriteStdin, GoTo
<1>5. Settled'
  BY DEF IInv, TypeOK, ChildTypeOK, Ends, Streams, Errors, Suspended, Settled, Dead,
         WriteStdin, GoTo
<1> QED
  BY <1>1, <1>2, <1>3, <1>4, <1>5 DEF IInv

(* A broken stdin pipe condemns the child. *)
LEMMA StdinBrokenIInv ==
  ASSUME IInv, StdinBroken
  PROVE  IInv'
<1> USE ChildAssumption, TokioAssumption DEF ChildAssumption, TokioAssumption
<1>1. TypeOK'
  BY DEF IInv, TypeOK, ChildTypeOK, Ends, Streams, Errors, Accounted, Suspended,
         StdinBroken, KillFor, childVars
<1>2. Accounted'
  BY DEF IInv, TypeOK, ChildTypeOK, Ends, Streams, Accounted, Suspended,
         StdinBroken, KillFor, childVars
<1>3. DrainedAtEof'
  BY DEF IInv, TypeOK, ChildTypeOK, Ends, Streams, DrainedAtEof, Suspended, AtEof,
         StdinBroken, KillFor, childVars
<1>4. Suspended'
  BY DEF IInv, TypeOK, ChildTypeOK, Ends, Streams, Errors, Suspended, Settled, Dead,
         StdinBroken, KillFor, childVars
<1>5. Settled'
  BY DEF IInv, TypeOK, ChildTypeOK, Ends, Streams, Errors, Suspended, Settled, Dead,
         StdinBroken, KillFor, childVars
<1> QED
  BY <1>1, <1>2, <1>3, <1>4, <1>5 DEF IInv

(* A read moves units from a pipe to the buffer, or breaks the cap. *)
LEMMA ReadIInv ==
  ASSUME IInv, NEW s \in Streams, Read(s)
  PROVE  IInv'
<1> USE ChildAssumption, TokioAssumption DEF ChildAssumption, TokioAssumption
<1>1. TypeOK'
  BY DEF IInv, TypeOK, ChildTypeOK, Ends, Streams, Errors, Accounted, Suspended,
         Read, Takes, Breaches, KillFor, GoTo
<1>2. Accounted'
  BY DEF IInv, TypeOK, ChildTypeOK, Ends, Streams, Accounted, Suspended,
         Read, Takes, Breaches, KillFor, GoTo
<1>3. DrainedAtEof'
  BY DEF IInv, TypeOK, ChildTypeOK, Ends, Streams, DrainedAtEof, Suspended, AtEof,
         Read, Takes, Breaches, KillFor, GoTo
<1>4. Suspended'
  BY DEF IInv, TypeOK, ChildTypeOK, Ends, Streams, Errors, Suspended, Settled, Dead,
         Read, Takes, Breaches, KillFor, GoTo
<1>5. Settled'
  BY DEF IInv, TypeOK, ChildTypeOK, Ends, Streams, Errors, Suspended, Settled, Dead,
         Read, Takes, Breaches, KillFor, GoTo
<1> QED
  BY <1>1, <1>2, <1>3, <1>4, <1>5 DEF IInv

(* End of file on one stream. *)
LEMMA DrainedIInv ==
  ASSUME IInv, NEW s \in Streams, Drained(s)
  PROVE  IInv'
<1> USE ChildAssumption, TokioAssumption DEF ChildAssumption, TokioAssumption
<1>1. TypeOK'
  BY DEF IInv, TypeOK, ChildTypeOK, Ends, Streams, Errors, Accounted, Suspended,
         Drained, AtEof, RaceEnds, Return, GoTo, childVars
<1>2. Accounted'
  BY DEF IInv, TypeOK, ChildTypeOK, Ends, Streams, Accounted, Suspended,
         Drained, AtEof, RaceEnds, Return, GoTo, childVars
<1>3. DrainedAtEof'
  BY DEF IInv, TypeOK, ChildTypeOK, Ends, Streams, DrainedAtEof, Suspended, AtEof,
         Drained, AtEof, RaceEnds, Return, GoTo, childVars
<1>4. Suspended'
  BY DEF IInv, TypeOK, ChildTypeOK, Ends, Streams, Errors, Suspended, Settled, Dead,
         Drained, AtEof, RaceEnds, Return, GoTo, childVars
<1>5. Settled'
  BY DEF IInv, TypeOK, ChildTypeOK, Ends, Streams, Errors, Suspended, Settled, Dead,
         Drained, AtEof, RaceEnds, Return, GoTo, childVars
<1> QED
  BY <1>1, <1>2, <1>3, <1>4, <1>5 DEF IInv

(* The exit status arrives during the race. *)
LEMMA WaitResolvesIInv ==
  ASSUME IInv, WaitResolves
  PROVE  IInv'
<1> USE ChildAssumption, TokioAssumption DEF ChildAssumption, TokioAssumption
<1>1. TypeOK'
  BY DEF IInv, TypeOK, ChildTypeOK, Ends, Streams, Errors, Accounted, Suspended,
         WaitResolves, RaceEnds, Reaps, Dead, Return, GoTo
<1>2. Accounted'
  BY DEF IInv, TypeOK, ChildTypeOK, Ends, Streams, Accounted, Suspended,
         WaitResolves, RaceEnds, Reaps, Dead, Return, GoTo
<1>3. DrainedAtEof'
  BY DEF IInv, TypeOK, ChildTypeOK, Ends, Streams, DrainedAtEof, Suspended, AtEof,
         WaitResolves, RaceEnds, Reaps, Dead, Return, GoTo
<1>4. Suspended'
  BY DEF IInv, TypeOK, ChildTypeOK, Ends, Streams, Errors, Suspended, Settled, Dead,
         WaitResolves, RaceEnds, Reaps, Dead, Return, GoTo
<1>5. Settled'
  BY DEF IInv, TypeOK, ChildTypeOK, Ends, Streams, Errors, Suspended, Settled, Dead,
         WaitResolves, RaceEnds, Reaps, Dead, Return, GoTo
<1> QED
  BY <1>1, <1>2, <1>3, <1>4, <1>5 DEF IInv

(* A timeout condemns the child. *)
LEMMA TimeoutsIInv ==
  ASSUME IInv, RaceTimeout \/ ReapTimeout
  PROVE  IInv'
<1> USE ChildAssumption, TokioAssumption DEF ChildAssumption, TokioAssumption
<1>1. TypeOK'
  BY DEF IInv, TypeOK, ChildTypeOK, Ends, Streams, Errors, Accounted, Suspended,
         RaceTimeout, ReapTimeout, KillFor, childVars
<1>2. Accounted'
  BY DEF IInv, TypeOK, ChildTypeOK, Ends, Streams, Accounted, Suspended,
         RaceTimeout, ReapTimeout, KillFor, childVars
<1>3. DrainedAtEof'
  BY DEF IInv, TypeOK, ChildTypeOK, Ends, Streams, DrainedAtEof, Suspended, AtEof,
         RaceTimeout, ReapTimeout, KillFor, childVars
<1>4. Suspended'
  BY DEF IInv, TypeOK, ChildTypeOK, Ends, Streams, Errors, Suspended, Settled, Dead,
         RaceTimeout, ReapTimeout, KillFor, childVars
<1>5. Settled'
  BY DEF IInv, TypeOK, ChildTypeOK, Ends, Streams, Errors, Suspended, Settled, Dead,
         RaceTimeout, ReapTimeout, KillFor, childVars
<1> QED
  BY <1>1, <1>2, <1>3, <1>4, <1>5 DEF IInv

(* The exit status arrives after both streams were drained. *)
LEMMA LateStatusIInv ==
  ASSUME IInv, LateStatus
  PROVE  IInv'
<1> USE ChildAssumption, TokioAssumption DEF ChildAssumption, TokioAssumption
<1>1. TypeOK'
  BY DEF IInv, TypeOK, ChildTypeOK, Ends, Streams, Errors, Accounted, Suspended,
         LateStatus, Reaps, Dead, Return
<1>2. Accounted'
  BY DEF IInv, TypeOK, ChildTypeOK, Ends, Streams, Accounted, Suspended,
         LateStatus, Reaps, Dead, Return
<1>3. DrainedAtEof'
  BY DEF IInv, TypeOK, ChildTypeOK, Ends, Streams, DrainedAtEof, Suspended, AtEof,
         LateStatus, Reaps, Dead, Return
<1>4. Suspended'
  BY DEF IInv, TypeOK, ChildTypeOK, Ends, Streams, Errors, Suspended, Settled, Dead,
         LateStatus, Reaps, Dead, Return
<1>5. Settled'
  BY DEF IInv, TypeOK, ChildTypeOK, Ends, Streams, Errors, Suspended, Settled, Dead,
         LateStatus, Reaps, Dead, Return
<1> QED
  BY <1>1, <1>2, <1>3, <1>4, <1>5 DEF IInv

(* The child is killed, reaped, and the error returned. *)
LEMMA KillAndReapIInv ==
  ASSUME IInv, KillAndReap
  PROVE  IInv'
<1> USE ChildAssumption, TokioAssumption DEF ChildAssumption, TokioAssumption
<1>1. TypeOK'
  BY DEF IInv, TypeOK, ChildTypeOK, Ends, Streams, Errors, Accounted, Suspended,
         KillAndReap, Kill, Inherited, Reaps, Dead, Return, GoTo, childVars
<1>2. Accounted'
  BY DEF IInv, TypeOK, ChildTypeOK, Ends, Streams, Accounted, Suspended,
         KillAndReap, Kill, Inherited, Reaps, Dead, Return, GoTo, childVars
<1>3. DrainedAtEof'
  BY DEF IInv, TypeOK, ChildTypeOK, Ends, Streams, DrainedAtEof, Suspended, AtEof,
         KillAndReap, Kill, Inherited, Reaps, Dead, Return, GoTo, childVars
<1>4. Suspended'
  BY DEF IInv, TypeOK, ChildTypeOK, Ends, Streams, Errors, Suspended, Settled, Dead,
         KillAndReap, Kill, Inherited, Reaps, Dead, Return, GoTo, childVars
<1>5. Settled'
  BY DEF IInv, TypeOK, ChildTypeOK, Ends, Streams, Errors, Suspended, Settled, Dead,
         KillAndReap, Kill, Inherited, Reaps, Dead, Return, GoTo, childVars
<1> QED
  BY <1>1, <1>2, <1>3, <1>4, <1>5 DEF IInv

(* The future is dropped. *)
LEMMA DroppedIInv ==
  ASSUME IInv, Dropped
  PROVE  IInv'
<1> USE ChildAssumption, TokioAssumption DEF ChildAssumption, TokioAssumption
<1>1. TypeOK'
  BY DEF IInv, TypeOK, ChildTypeOK, Ends, Streams, Errors, Accounted, Suspended,
         Dropped, Kill, Inherited, Return, childVars
<1>2. Accounted'
  BY DEF IInv, TypeOK, ChildTypeOK, Ends, Streams, Accounted, Suspended,
         Dropped, Kill, Inherited, Return, childVars
<1>3. DrainedAtEof'
  BY DEF IInv, TypeOK, ChildTypeOK, Ends, Streams, DrainedAtEof, Suspended, AtEof,
         Dropped, Kill, Inherited, Return, childVars
<1>4. Suspended'
  BY DEF IInv, TypeOK, ChildTypeOK, Ends, Streams, Errors, Suspended, Settled, Dead,
         Dropped, Kill, Inherited, Return, childVars
<1>5. Settled'
  BY DEF IInv, TypeOK, ChildTypeOK, Ends, Streams, Errors, Suspended, Settled, Dead,
         Dropped, Kill, Inherited, Return, childVars
<1> QED
  BY <1>1, <1>2, <1>3, <1>4, <1>5 DEF IInv

(* The runtime reaps the dropped child. *)
LEMMA OrphanIInv ==
  ASSUME IInv, OrphanReaped
  PROVE  IInv'
<1> USE ChildAssumption, TokioAssumption DEF ChildAssumption, TokioAssumption
<1>1. TypeOK'
  BY DEF IInv, TypeOK, ChildTypeOK, Ends, Streams, Errors, Accounted, Suspended,
         OrphanReaped, Reaps, Dead, runVars
<1>2. Accounted'
  BY DEF IInv, TypeOK, ChildTypeOK, Ends, Streams, Accounted, Suspended,
         OrphanReaped, Reaps, Dead, runVars
<1>3. DrainedAtEof'
  BY DEF IInv, TypeOK, ChildTypeOK, Ends, Streams, DrainedAtEof, Suspended, AtEof,
         OrphanReaped, Reaps, Dead, runVars
<1>4. Suspended'
  BY DEF IInv, TypeOK, ChildTypeOK, Ends, Streams, Errors, Suspended, Settled, Dead,
         OrphanReaped, Reaps, Dead, runVars
<1>5. Settled'
  BY DEF IInv, TypeOK, ChildTypeOK, Ends, Streams, Errors, Suspended, Settled, Dead,
         OrphanReaped, Reaps, Dead, runVars
<1> QED
  BY <1>1, <1>2, <1>3, <1>4, <1>5 DEF IInv

(* The child or a grandchild acts. *)
LEMMA ChildIInv ==
  ASSUME IInv, ChildStep, UNCHANGED runVars
  PROVE  IInv'
<1> USE ChildAssumption, TokioAssumption DEF ChildAssumption, TokioAssumption
<1>1. TypeOK'
  <2>1. timed' \in BOOLEAN /\ capped' \in BOOLEAN /\ reaped' \in BOOLEAN
    BY DEF IInv, TypeOK, ChildTypeOK,
           ChildStep, Writes, ReadsInput, Closes, Exits, Inherited, runVars
  <2>2. pipe' \in [Ends -> 0..PipeSize] /\ wrote' \in 0..MaxOutput
    BY DEF IInv, TypeOK, ChildTypeOK, Ends, Streams,
           ChildStep, Writes, ReadsInput, Closes, Exits, Inherited, runVars
  <2>3. open' \subseteq Ends /\ child' \in {"none", "running", "exited", "killed"}
    BY DEF IInv, TypeOK, ChildTypeOK, Ends, Streams,
           ChildStep, Writes, ReadsInput, Closes, Exits, Inherited, runVars
  <2>4. /\ toSend' \in Nat /\ captured' \in 0..MaxOutput /\ live' \subseteq Streams
        /\ phase' \in {"idle", "stdin", "race", "reap", "killing", "done"}
        /\ verdict' \in Errors \cup {"none"}
        /\ result' \in Errors \cup {"none", "ok", "refused", "cancelled"}
    BY DEF IInv, TypeOK, ChildTypeOK, Errors,
           ChildStep, Writes, ReadsInput, Closes, Exits, Inherited, runVars
  <2> QED
    BY <2>1, <2>2, <2>3, <2>4 DEF TypeOK, ChildTypeOK
<1>2. Accounted'
  BY DEF IInv, TypeOK, ChildTypeOK, Ends, Streams, Accounted, Suspended,
         ChildStep, Writes, ReadsInput, Closes, Exits, Inherited, runVars
<1>3. DrainedAtEof'
  BY DEF IInv, TypeOK, ChildTypeOK, Ends, Streams, DrainedAtEof, Suspended, AtEof,
         ChildStep, Writes, ReadsInput, Closes, Exits, Inherited, runVars
<1>4. Suspended'
  BY DEF IInv, TypeOK, ChildTypeOK, Ends, Streams, Errors, Suspended, Settled, Dead,
         ChildStep, Writes, ReadsInput, Closes, Exits, Inherited, runVars
<1>5. Settled'
  BY DEF IInv, TypeOK, ChildTypeOK, Ends, Streams, Errors, Suspended, Settled, Dead,
         ChildStep, Writes, ReadsInput, Closes, Exits, Inherited, runVars
<1> QED
  BY <1>1, <1>2, <1>3, <1>4, <1>5 DEF IInv

(* Nothing happens. *)
LEMMA QuietIInv ==
  ASSUME IInv, Done \/ UNCHANGED vars
  PROVE  IInv'
<1>1. UNCHANGED childVars /\ UNCHANGED runVars
  BY DEF Done, vars
<1>2. TypeOK'
  BY <1>1 DEF IInv, TypeOK, ChildTypeOK, childVars, runVars
<1>3. Accounted' /\ DrainedAtEof'
  BY <1>1 DEF IInv, Accounted, DrainedAtEof, AtEof, childVars, runVars
<1>4. Suspended'
  BY <1>1 DEF IInv, Suspended, Dead, childVars, runVars
<1>5. Settled'
  BY <1>1 DEF IInv, Settled, childVars, runVars
<1> QED
  BY <1>2, <1>3, <1>4, <1>5 DEF IInv

(* Everything above holds before the command is started. *)
LEMMA InitIInv == Init => IInv
<1> SUFFICES ASSUME Init PROVE IInv
  OBVIOUS
<1>1. ChildTypeOK
  <2>1. 0 \in 0..PipeSize /\ 0 \in 0..MaxOutput
    BY ChildAssumption DEF ChildAssumption
  <2>2. pipe \in [Ends -> 0..PipeSize]
    BY <2>1 DEF Init, ChildInit
  <2>3. reaped \in BOOLEAN
    BY DEF Init, ChildInit
  <2> QED
    BY <2>1, <2>2, <2>3 DEF Init, ChildInit, ChildTypeOK
<1>2. timed \in BOOLEAN /\ capped \in BOOLEAN
  BY DEF Init
<1>3. TypeOK
  BY <1>1, <1>2, ChildAssumption, TokioAssumption
     DEF Init, TypeOK, ChildAssumption, TokioAssumption
<1>4. Accounted /\ DrainedAtEof
  BY DEF Init, ChildInit, Accounted, DrainedAtEof, Ends, Streams
<1>5. Suspended /\ Settled
  BY DEF Init, ChildInit, Suspended, Settled, Errors, Dead
<1> QED
  BY <1>3, <1>4, <1>5 DEF IInv

(* No step breaks it. *)
LEMMA NextIInv == IInv /\ [Next]_vars => IInv'
BY StartIInv, WriteStdinIInv, StdinBrokenIInv, ReadIInv, DrainedIInv, WaitResolvesIInv,
   TimeoutsIInv, LateStatusIInv, KillAndReapIInv, DroppedIInv, OrphanIInv, ChildIInv,
   QuietIInv
   DEF Next, Poll

(* The types are kept, pipes never hold more than they can, and what was   *)
(* read never exceeds what the child wrote.                                *)
THEOREM TypeCorrect == Spec => []TypeOK
<1>1. IInv => TypeOK
  BY DEF IInv
<1> QED
  BY <1>1, InitIInv, NextIInv, PTL DEF Spec

(* A successful answer carries everything the child wrote and the child's  *)
(* own exit status, within the cap.                                        *)
THEOREM OkIsComplete == Spec => []OkComplete
<1>1. IInv => OkComplete
  BY DEF IInv, TypeOK, ChildTypeOK, Accounted, DrainedAtEof, Settled, OkComplete, AtEof,
         Streams, Ends
<1> QED
  BY <1>1, InitIInv, NextIInv, PTL DEF Spec

(* No answer leaves the child running: nothing is written after it, and it *)
(* stands (kill_on_drop, KillAndReap).                                     *)
THEOREM AnswersStand == Spec => AnswersFinal
<1>1. IInv /\ [Next]_vars => [result # "none" => UNCHANGED <<result, wrote, captured>>]_vars
  <2> SUFFICES ASSUME IInv, Next, result # "none" PROVE UNCHANGED <<result, wrote, captured>>
    OBVIOUS
  <2>1. phase = "done" /\ child # "running"
    BY DEF IInv, Settled
  <2>2. ~Poll /\ ~RaceTimeout /\ ~ReapTimeout /\ ~Dropped
    BY <2>1 DEF Poll, Start, WriteStdin, StdinBroken, Read, Drained, WaitResolves, LateStatus,
       KillAndReap, RaceTimeout, ReapTimeout, Dropped
  <2>3. CASE OrphanReaped \/ Done
    BY <2>3 DEF OrphanReaped, Reaps, Done, vars, childVars, runVars
  <2>4. CASE ChildStep /\ UNCHANGED runVars
    BY <2>1, <2>4 DEF ChildStep, Writes, ReadsInput, Closes, Exits, runVars
  <2> QED
    BY <2>2, <2>3, <2>4 DEF Next
<1> QED
  BY <1>1, InitIInv, NextIInv, PTL DEF Spec, AnswersFinal

(* The capture passes the cap by one read at most: the read that crosses it *)
(* ends the race.                                                           *)
THEOREM CaptureIsBounded == Spec => []CaptureBounded
<1> USE ChildAssumption, TokioAssumption DEF ChildAssumption, TokioAssumption
<1>1. Init => CaptureBounded
  BY DEF Init, CaptureBounded
<1>2. IInv /\ CaptureBounded /\ [Next]_vars => CaptureBounded'
  <2> SUFFICES ASSUME IInv, CaptureBounded, [Next]_vars PROVE CaptureBounded'
    OBVIOUS
  <2>1. CASE UNCHANGED <<capped, captured>>
    BY <2>1 DEF CaptureBounded
  <2>2. ASSUME NEW s \in Streams, Read(s) PROVE CaptureBounded'
    <3>1. PICK n \in 1..pipe[s] : captured' = captured + n
      BY <2>2 DEF Read
    <3>2. pipe[s] \in 0..PipeSize /\ captured \in Nat
      BY DEF IInv, TypeOK, ChildTypeOK, Ends
    <3>3. capped' = capped /\ (capped => captured <= Cap)
      BY <2>2 DEF Read, IInv, Suspended
    <3> QED
      BY <3>1, <3>2, <3>3 DEF CaptureBounded
  <2>3. CASE Poll \/ RaceTimeout \/ ReapTimeout \/ Dropped \/ OrphanReaped \/ Done
    BY <2>1, <2>2, <2>3
       DEF Poll, Start, WriteStdin, StdinBroken, Drained, WaitResolves, LateStatus, KillAndReap,
           RaceTimeout, ReapTimeout, Dropped, OrphanReaped, Done, vars, runVars
  <2>4. CASE (ChildStep /\ UNCHANGED runVars) \/ UNCHANGED vars
    BY <2>1, <2>4 DEF vars, runVars
  <2> QED
    BY <2>3, <2>4 DEF Next
<1> QED
  BY <1>1, <1>2, InitIInv, NextIInv, PTL DEF Spec

-----------------------------------------------------------------------------
(* Starting, or refusing to. *)
LEMMA StartRefines == IInv /\ Start => Contract!Start \/ Contract!Refuse
BY DEF IInv, Suspended, Settled, Start, Spawned, Return, GoTo, childVars,
       Contract!Start, Contract!Refuse

(* Steps the contract does not see. *)
LEMMA SilentRefines ==
  ASSUME UNCHANGED <<capped, child, reaped, wrote, result>>
  PROVE  UNCHANGED Contract!vars
BY DEF Contract!vars

(* Once both streams are at end of file, all the output has been read. *)
LEMMA DrainedIsAll ==
  ASSUME IInv, child # "none"
  PROVE  /\ live = {} => captured = wrote
         /\ \A s \in Streams : live \ {s} = {} /\ AtEof(s) => captured = wrote
<1>1. /\ pipe["out"] \in Nat /\ pipe["err"] \in Nat /\ captured \in Nat
      /\ captured + pipe["out"] + pipe["err"] = wrote
  BY ChildAssumption DEF IInv, TypeOK, ChildTypeOK, Ends, Streams, Accounted, ChildAssumption
<1>2. \A s \in Streams : s \in live \/ pipe[s] = 0
  BY DEF IInv, DrainedAtEof, AtEof
<1> QED
  BY <1>1, <1>2 DEF Streams, AtEof

(* The steps that may answer "ok" answer after reaping, within the cap. *)
LEMMA OkRefines ==
  ASSUME IInv, WaitResolves \/ LateStatus \/ \E s \in Streams : Drained(s)
  PROVE  Contract!Answer("ok") \/ Contract!Reap \/ UNCHANGED Contract!vars
<1>1. CASE WaitResolves
  <2>1. /\ phase = "race" /\ ~reaped /\ result = "none" /\ (capped => captured <= Cap)
        /\ child = "exited" /\ (live = {} => captured = wrote)
    BY <1>1, DrainedIsAll DEF IInv, Suspended, WaitResolves, Reaps, Dead
  <2> QED
    BY <1>1, <2>1 DEF WaitResolves, Reaps, RaceEnds, Return, GoTo, Contract!Answer,
                      Contract!Reap
<1>2. CASE LateStatus
  <2>1. /\ phase = "reap" /\ result = "none" /\ (capped => captured <= Cap)
        /\ child = "exited" /\ captured = wrote
    BY <1>2, DrainedIsAll DEF IInv, Suspended, LateStatus, Reaps, Dead
  <2> QED
    BY <1>2, <2>1 DEF LateStatus, Reaps, Return, Contract!Answer
<1>3. CASE \E s \in Streams : Drained(s)
  <2>1. PICK s \in Streams : Drained(s)
    BY <1>3
  <2>2. /\ phase = "race" /\ result = "none" /\ (capped => captured <= Cap)
        /\ child \notin {"none", "killed"} /\ (live' = {} => captured = wrote)
        /\ (reaped => child = "exited")
    BY <2>1, DrainedIsAll DEF IInv, Suspended, Drained, Dead
  <2> QED
    BY <2>1, <2>2 DEF Drained, RaceEnds, Return, GoTo, childVars, Contract!Answer, Contract!vars
<1> QED
  BY <1>1, <1>2, <1>3

(* An error is returned once the child is reaped, and tells the truth. *)
LEMMA KillRefines ==
  ASSUME IInv, KillAndReap
  PROVE  Contract!Die \/ \E r \in {"ok", "limit", "timeout", "stdin_failed"} : Contract!Answer(r)
<1>1. CASE child = "running" /\ Kill /\ GoTo("killing")
  <2>1. ~reaped /\ ~reaped' /\ child' = "killed" /\ UNCHANGED <<capped, wrote, result>>
    BY <1>1 DEF IInv, Suspended, Dead, Kill, GoTo, KillAndReap
  <2> QED
    BY <1>1, <2>1 DEF Contract!Die
<1>2. CASE Reaps /\ Return(verdict)
  <2>1. verdict \in Errors /\ result = "none" /\ (verdict = "limit" => capped /\ wrote > Cap)
    <3>1. verdict \in Errors /\ result = "none" /\ (verdict = "limit" => capped /\ captured > Cap)
      BY DEF IInv, Suspended, KillAndReap
    <3>2. /\ pipe["out"] \in Nat /\ pipe["err"] \in Nat /\ captured \in Nat
          /\ captured + pipe["out"] + pipe["err"] = wrote
      BY ChildAssumption
         DEF IInv, TypeOK, ChildTypeOK, Ends, Streams, Accounted, ChildAssumption
    <3>3. captured <= wrote
      BY <3>2
    <3> QED
      BY <3>1, <3>2, <3>3, TokioAssumption DEF TokioAssumption
  <2>2. Contract!Answer(verdict)
    BY <1>2, <2>1 DEF Reaps, Dead, Return, KillAndReap, Errors, Contract!Answer
  <2> QED
    BY <2>1, <2>2 DEF Errors
<1> QED
  BY <1>1, <1>2 DEF KillAndReap

(* A dropped future takes its child with it. *)
LEMMA DropRefines ==
  ASSUME IInv, Dropped \/ OrphanReaped
  PROVE  Contract!Cancel \/ Contract!Reap
BY DEF IInv, Suspended, Settled, Dropped, Kill, childVars, Return, OrphanReaped, Reaps,
       Dead, runVars, Contract!Cancel, Contract!Reap

(* The child's own steps. *)
LEMMA ChildRefines ==
  ASSUME IInv, ChildStep, UNCHANGED runVars
  PROVE  Contract!Write \/ Contract!Die \/ UNCHANGED Contract!vars
BY DEF IInv, TypeOK, ChildTypeOK, Suspended, ChildStep, Writes, ReadsInput, Closes,
       Exits, runVars, Dead, Contract!Write, Contract!Die, Contract!vars

LEMMA StepRefines == IInv /\ [Next]_vars => [Contract!Next]_(Contract!vars)
<1> SUFFICES ASSUME IInv, [Next]_vars PROVE [Contract!Next]_(Contract!vars)
  OBVIOUS
<1>1. CASE Start
  BY <1>1, StartRefines DEF Contract!Next
<1>2. CASE WriteStdin \/ StdinBroken \/ RaceTimeout \/ ReapTimeout
  BY <1>2, SilentRefines
     DEF WriteStdin, StdinBroken, RaceTimeout, ReapTimeout, GoTo, KillFor, childVars
<1>3. CASE \E s \in Streams : Read(s)
  BY <1>3, SilentRefines DEF Read, Takes, GoTo, KillFor
<1>4. CASE WaitResolves \/ LateStatus \/ \E s \in Streams : Drained(s)
  BY <1>4, OkRefines DEF Contract!Next
<1>5. CASE KillAndReap
  BY <1>5, KillRefines DEF Contract!Next
<1>6. CASE Dropped \/ OrphanReaped
  BY <1>6, DropRefines DEF Contract!Next
<1>7. CASE ChildStep /\ UNCHANGED runVars
  BY <1>7, ChildRefines DEF Contract!Next
<1>8. CASE Done \/ UNCHANGED vars
  BY <1>8, SilentRefines DEF Done, vars, childVars, runVars
<1> QED
  BY <1>1, <1>2, <1>3, <1>4, <1>5, <1>6, <1>7, <1>8 DEF Next, Poll

(* Every answer comes after the child was reaped, once, and tells the      *)
(* truth about the cap; a dropped call leaves no child running.            *)
THEOREM TokioRunKeepsContract == Spec => ImplementsContract
<1>1. Init => Contract!Init
  BY DEF Init, ChildInit, Contract!Init
<1> QED
  BY <1>1, InitIInv, NextIInv, StepRefines, PTL
     DEF Spec, ImplementsContract, Contract!Spec

============================================================================
