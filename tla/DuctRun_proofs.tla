---------------------------- MODULE DuctRun_proofs ----------------------------
(***************************************************************************)
(* Proofs about DuctRun, for every pipe size, cap, payload and output.     *)
(***************************************************************************)
EXTENDS DuctRun, TLAPS

(* Every unit written is in a pipe, in a reader's hands or counted, and    *)
(* what is counted within the cap is kept.                                 *)
Accounted ==
  /\ counter + chunk["out"] + chunk["err"] + pipe["out"] + pipe["err"] = wrote
  /\ retained["out"] + retained["err"] <= counter
  /\ counter <= Cap => retained["out"] + retained["err"] = counter

(* The latch is set by a reader that counted past the cap, and by no other. *)
Latched ==
  /\ killed => counter > Cap
  /\ \A s \in Streams :
       /\ reader[s] \in {"latch", "kill"} => counter > Cap
       /\ reader[s] \in {"kill", "gone"} => killed
       /\ reader[s] # "count" => chunk[s] = 0
       /\ reader[s] = "sent" => AtEof(s)

(* A stream the calling thread is done with: nothing more will be counted. *)
Quiet(s) ==
  \/ reader[s] \in {"sent", "gone"}
  \/ reader[s] = "read" /\ pipe[s] = 0

(* Where the calling thread is, and what it knows there. *)
Waiting ==
  /\ main = "idle" => child = "none"
  /\ child = "none" => /\ main \in {"idle", "done"} /\ ~killed
                       /\ \A s \in Streams : reader[s] = "top"
  /\ main = "done" /\ child = "none" => result = "refused"
  /\ main \in {"out", "err", "judge"} => waited = "exited" /\ reaped
  /\ main = "check" /\ waited = "exited" => reaped
  /\ main = "check" => waited # "no"
  /\ main = "cleanup" => verdict \in {"limit", "timeout"}
  /\ verdict = "limit" => killed
  /\ main = "judge" \/ result = "ok" => Quiet("err")
  /\ main \in {"err", "judge"} \/ result = "ok" => Quiet("out")
  /\ \A s \in Streams : delivered[s] = 0 \/ (Quiet(s) /\ reaped /\ delivered[s] = retained[s])
  /\ reaped => Dead

(* The latch, once seen in time, decides the answer. *)
InTime ==
  latchedFirst =>
    /\ killed
    /\ main \in {"check", "cleanup", "done"}
    /\ main = "cleanup" => verdict = "limit"
    /\ main = "done" => result = "limit"

(* What is known once there is an answer. *)
Settled ==
  /\ result = "none" <=> main # "done"
  /\ result = "refused" => child = "none"
  /\ result \in Errors \cup {"ok"} => reaped
  /\ result = "ok" => counter <= Cap
  /\ result = "limit" => counter > Cap

IInv == TypeOK /\ Accounted /\ Latched /\ Waiting /\ InTime /\ Settled

(* The stdin thread acts. *)
LEMMA WriterIInv ==
  ASSUME IInv, WriterSteps
  PROVE  IInv'
<1> USE ChildAssumption, DuctAssumption DEF ChildAssumption, DuctAssumption
<1>1. TypeOK'
  <2>1. /\ timed' \in BOOLEAN /\ reaped' \in BOOLEAN /\ killed' \in BOOLEAN
        /\ latchedFirst' \in BOOLEAN
    BY DEF IInv, TypeOK, ChildTypeOK,
           WriterSteps, mainVars
  <2>2. /\ pipe' \in [Ends -> 0..PipeSize] /\ wrote' \in 0..MaxOutput
        /\ open' \subseteq Ends /\ child' \in {"none", "running", "exited", "killed"}
    BY DEF IInv, TypeOK, ChildTypeOK, Ends, Streams,
           WriterSteps, mainVars
  <2>3. /\ toSend' \in Nat /\ writer' \in {"none", "writing", "ok", "failed"}
        /\ main' \in {"idle", "wait", "check", "cleanup", "out", "err", "judge", "done"}
        /\ waited' \in {"no", "exited", "timeout"}
        /\ verdict' \in Errors \cup {"none"}
        /\ result' \in Errors \cup {"none", "ok", "refused"}
    BY DEF IInv, TypeOK, ChildTypeOK, Ends, Streams, Errors,
           WriterSteps, mainVars
  <2>4. /\ reader' \in [Streams -> {"top", "read", "count", "latch", "kill", "sent", "gone"}]
        /\ chunk' \in [Streams -> 0..PipeSize]
    BY DEF IInv, TypeOK, ChildTypeOK, Ends, Streams,
           WriterSteps, mainVars
  <2>5. /\ retained' \in [Streams -> 0..Cap] /\ delivered' \in [Streams -> 0..Cap]
        /\ counter' \in 0..MaxOutput
    BY DEF IInv, TypeOK, ChildTypeOK, Ends, Streams, Accounted,
           WriterSteps, mainVars
  <2> QED
    BY <2>1, <2>2, <2>3, <2>4, <2>5 DEF TypeOK, ChildTypeOK
<1>2. Accounted'
  BY DEF IInv, TypeOK, ChildTypeOK, Ends, Streams, Accounted,
         WriterSteps, mainVars
<1>3. Latched'
  BY DEF IInv, TypeOK, ChildTypeOK, Ends, Streams, Latched, Waiting, AtEof,
         WriterSteps, mainVars
<1>4. Waiting'
  BY DEF IInv, TypeOK, ChildTypeOK, Ends, Streams, Latched, Waiting, Settled, Quiet, Dead, AtEof, Errors,
         WriterSteps, mainVars
<1>5. InTime'
  BY DEF IInv, TypeOK, ChildTypeOK, Ends, Streams, InTime, Waiting, Settled, Latched,
         WriterSteps, mainVars
<1>6. Settled'
  BY DEF IInv, TypeOK, ChildTypeOK, Ends, Streams, Settled, Waiting, Latched, Accounted, Quiet, Errors, Dead,
         WriterSteps, mainVars
<1> QED
  BY <1>1, <1>2, <1>3, <1>4, <1>5, <1>6 DEF IInv

(* A reader looks at the latch. *)
LEMMA LooksIInv ==
  ASSUME IInv, NEW s \in Streams, LooksAtLatch(s), UNCHANGED <<timed, toSend, writer, mainVars>>
  PROVE  IInv'
<1> USE ChildAssumption, DuctAssumption DEF ChildAssumption, DuctAssumption
<1>1. TypeOK'
  <2>1. /\ timed' \in BOOLEAN /\ reaped' \in BOOLEAN /\ killed' \in BOOLEAN
        /\ latchedFirst' \in BOOLEAN
    BY DEF IInv, TypeOK, ChildTypeOK,
           LooksAtLatch, ReaderRuns, ReaderGoes, childVars, mainVars
  <2>2. /\ pipe' \in [Ends -> 0..PipeSize] /\ wrote' \in 0..MaxOutput
        /\ open' \subseteq Ends /\ child' \in {"none", "running", "exited", "killed"}
    BY DEF IInv, TypeOK, ChildTypeOK, Ends, Streams,
           LooksAtLatch, ReaderRuns, ReaderGoes, childVars, mainVars
  <2>3. /\ toSend' \in Nat /\ writer' \in {"none", "writing", "ok", "failed"}
        /\ main' \in {"idle", "wait", "check", "cleanup", "out", "err", "judge", "done"}
        /\ waited' \in {"no", "exited", "timeout"}
        /\ verdict' \in Errors \cup {"none"}
        /\ result' \in Errors \cup {"none", "ok", "refused"}
    BY DEF IInv, TypeOK, ChildTypeOK, Ends, Streams, Errors,
           LooksAtLatch, ReaderRuns, ReaderGoes, childVars, mainVars
  <2>4. /\ reader' \in [Streams -> {"top", "read", "count", "latch", "kill", "sent", "gone"}]
        /\ chunk' \in [Streams -> 0..PipeSize]
    BY DEF IInv, TypeOK, ChildTypeOK, Ends, Streams,
           LooksAtLatch, ReaderRuns, ReaderGoes, childVars, mainVars
  <2>5. /\ retained' \in [Streams -> 0..Cap] /\ delivered' \in [Streams -> 0..Cap]
        /\ counter' \in 0..MaxOutput
    BY DEF IInv, TypeOK, ChildTypeOK, Ends, Streams, Accounted,
           LooksAtLatch, ReaderRuns, ReaderGoes, childVars, mainVars
  <2> QED
    BY <2>1, <2>2, <2>3, <2>4, <2>5 DEF TypeOK, ChildTypeOK
<1>2. Accounted'
  BY DEF IInv, TypeOK, ChildTypeOK, Ends, Streams, Accounted,
         LooksAtLatch, ReaderRuns, ReaderGoes, childVars, mainVars
<1>3. Latched'
  BY DEF IInv, TypeOK, ChildTypeOK, Ends, Streams, Latched, Waiting, AtEof,
         LooksAtLatch, ReaderRuns, ReaderGoes, childVars, mainVars
<1>4. Waiting'
  BY DEF IInv, TypeOK, ChildTypeOK, Ends, Streams, Latched, Waiting, Settled, Quiet, Dead, AtEof, Errors,
         LooksAtLatch, ReaderRuns, ReaderGoes, childVars, mainVars
<1>5. InTime'
  BY DEF IInv, TypeOK, ChildTypeOK, Ends, Streams, InTime, Waiting, Settled, Latched,
         LooksAtLatch, ReaderRuns, ReaderGoes, childVars, mainVars
<1>6. Settled'
  BY DEF IInv, TypeOK, ChildTypeOK, Ends, Streams, Settled, Waiting, Latched, Accounted, Quiet, Errors, Dead,
         LooksAtLatch, ReaderRuns, ReaderGoes, childVars, mainVars
<1> QED
  BY <1>1, <1>2, <1>3, <1>4, <1>5, <1>6 DEF IInv

(* A reader takes a chunk, or reaches end of file. *)
LEMMA ReadsIInv ==
  ASSUME IInv, NEW s \in Streams, Reads(s), UNCHANGED <<timed, toSend, writer, mainVars>>
  PROVE  IInv'
<1> USE ChildAssumption, DuctAssumption DEF ChildAssumption, DuctAssumption
<1>1. TypeOK'
  <2>1. /\ timed' \in BOOLEAN /\ reaped' \in BOOLEAN /\ killed' \in BOOLEAN
        /\ latchedFirst' \in BOOLEAN
    BY DEF IInv, TypeOK, ChildTypeOK,
           Reads, Takes, ReaderGoes, childVars, mainVars
  <2>2. /\ pipe' \in [Ends -> 0..PipeSize] /\ wrote' \in 0..MaxOutput
        /\ open' \subseteq Ends /\ child' \in {"none", "running", "exited", "killed"}
    <3>1. CASE UNCHANGED childVars
      BY <3>1 DEF IInv, TypeOK, ChildTypeOK, childVars
    <3>2. CASE \E n \in 1..pipe[s] : Takes(s, n)
      BY <3>2 DEF IInv, TypeOK, ChildTypeOK, Ends, Streams, Takes
    <3> QED
      BY <3>1, <3>2 DEF Reads
  <2>3. /\ toSend' \in Nat /\ writer' \in {"none", "writing", "ok", "failed"}
        /\ main' \in {"idle", "wait", "check", "cleanup", "out", "err", "judge", "done"}
        /\ waited' \in {"no", "exited", "timeout"}
        /\ verdict' \in Errors \cup {"none"}
        /\ result' \in Errors \cup {"none", "ok", "refused"}
    BY DEF IInv, TypeOK, ChildTypeOK, Ends, Streams, Errors,
           Reads, Takes, ReaderGoes, childVars, mainVars
  <2>4. /\ reader' \in [Streams -> {"top", "read", "count", "latch", "kill", "sent", "gone"}]
        /\ chunk' \in [Streams -> 0..PipeSize]
    BY DEF IInv, TypeOK, ChildTypeOK, Ends, Streams,
           Reads, Takes, ReaderGoes, childVars, mainVars
  <2>5. /\ retained' \in [Streams -> 0..Cap] /\ delivered' \in [Streams -> 0..Cap]
        /\ counter' \in 0..MaxOutput
    BY DEF IInv, TypeOK, ChildTypeOK, Ends, Streams, Accounted,
           Reads, Takes, ReaderGoes, childVars, mainVars
  <2> QED
    BY <2>1, <2>2, <2>3, <2>4, <2>5 DEF TypeOK, ChildTypeOK
<1>2. Accounted'
  <2>1. CASE UNCHANGED <<childVars, chunk>>
    BY <2>1 DEF IInv, Accounted, Reads, childVars
  <2>2. CASE \E n \in 1..pipe[s] : Takes(s, n) /\ chunk' = [chunk EXCEPT ![s] = n]
    <3>1. chunk[s] = 0
      BY DEF IInv, Latched, Reads
    <3> QED
      BY <2>2, <3>1 DEF IInv, TypeOK, ChildTypeOK, Ends, Streams, Accounted, Takes, Reads
  <2> QED
    BY <2>1, <2>2 DEF Reads
<1>3. Latched'
  BY DEF IInv, TypeOK, ChildTypeOK, Ends, Streams, Latched, Waiting, AtEof,
         Reads, Takes, ReaderGoes, childVars, mainVars
<1>4. Waiting'
  BY DEF IInv, TypeOK, ChildTypeOK, Ends, Streams, Latched, Waiting, Settled, Quiet, Dead, AtEof, Errors,
         Reads, Takes, ReaderGoes, childVars, mainVars
<1>5. InTime'
  BY DEF IInv, TypeOK, ChildTypeOK, Ends, Streams, InTime, Waiting, Settled, Latched,
         Reads, Takes, ReaderGoes, childVars, mainVars
<1>6. Settled'
  BY DEF IInv, TypeOK, ChildTypeOK, Ends, Streams, Settled, Waiting, Latched, Accounted, Quiet, Errors, Dead,
         Reads, Takes, ReaderGoes, childVars, mainVars
<1> QED
  BY <1>1, <1>2, <1>3, <1>4, <1>5, <1>6 DEF IInv

(* A reader counts its chunk, and keeps it if the cap allows. *)
LEMMA CountsIInv ==
  ASSUME IInv, NEW s \in Streams, Counts(s), UNCHANGED <<timed, toSend, writer, mainVars>>
  PROVE  IInv'
<1> USE ChildAssumption, DuctAssumption DEF ChildAssumption, DuctAssumption
<1>1. TypeOK'
  <2>1. /\ timed' \in BOOLEAN /\ reaped' \in BOOLEAN /\ killed' \in BOOLEAN
        /\ latchedFirst' \in BOOLEAN
    BY DEF IInv, TypeOK, ChildTypeOK,
           Counts, OverCap, ReaderGoes, childVars, mainVars
  <2>2. /\ pipe' \in [Ends -> 0..PipeSize] /\ wrote' \in 0..MaxOutput
        /\ open' \subseteq Ends /\ child' \in {"none", "running", "exited", "killed"}
    BY DEF IInv, TypeOK, ChildTypeOK, Ends, Streams,
           Counts, OverCap, ReaderGoes, childVars, mainVars
  <2>3. /\ toSend' \in Nat /\ writer' \in {"none", "writing", "ok", "failed"}
        /\ main' \in {"idle", "wait", "check", "cleanup", "out", "err", "judge", "done"}
        /\ waited' \in {"no", "exited", "timeout"}
        /\ verdict' \in Errors \cup {"none"}
        /\ result' \in Errors \cup {"none", "ok", "refused"}
    BY DEF IInv, TypeOK, ChildTypeOK, Ends, Streams, Errors,
           Counts, OverCap, ReaderGoes, childVars, mainVars
  <2>4. /\ reader' \in [Streams -> {"top", "read", "count", "latch", "kill", "sent", "gone"}]
        /\ chunk' \in [Streams -> 0..PipeSize]
    BY DEF IInv, TypeOK, ChildTypeOK, Ends, Streams,
           Counts, OverCap, ReaderGoes, childVars, mainVars
  <2>5. /\ retained' \in [Streams -> 0..Cap] /\ delivered' \in [Streams -> 0..Cap]
        /\ counter' \in 0..MaxOutput
    BY DEF IInv, TypeOK, ChildTypeOK, Ends, Streams, Accounted,
           Counts, OverCap, ReaderGoes, childVars, mainVars
  <2> QED
    BY <2>1, <2>2, <2>3, <2>4, <2>5 DEF TypeOK, ChildTypeOK
<1>2. Accounted'
  BY DEF IInv, TypeOK, ChildTypeOK, Ends, Streams, Accounted,
         Counts, OverCap, ReaderGoes, childVars, mainVars
<1>3. Latched'
  BY DEF IInv, TypeOK, ChildTypeOK, Ends, Streams, Latched, Waiting, AtEof,
         Counts, OverCap, ReaderGoes, childVars, mainVars
<1>4. Waiting'
  BY DEF IInv, TypeOK, ChildTypeOK, Ends, Streams, Latched, Waiting, Settled, Quiet, Dead, AtEof, Errors,
         Counts, OverCap, ReaderGoes, childVars, mainVars
<1>5. InTime'
  BY DEF IInv, TypeOK, ChildTypeOK, Ends, Streams, InTime, Waiting, Settled, Latched,
         Counts, OverCap, ReaderGoes, childVars, mainVars
<1>6. Settled'
  BY DEF IInv, TypeOK, ChildTypeOK, Ends, Streams, Settled, Waiting, Latched, Accounted, Quiet, Errors, Dead,
         Counts, OverCap, ReaderGoes, childVars, mainVars
<1> QED
  BY <1>1, <1>2, <1>3, <1>4, <1>5, <1>6 DEF IInv

(* A reader sets the latch. *)
LEMMA LatchesIInv ==
  ASSUME IInv, NEW s \in Streams, Latches(s), UNCHANGED <<timed, toSend, writer, mainVars>>
  PROVE  IInv'
<1> USE ChildAssumption, DuctAssumption DEF ChildAssumption, DuctAssumption
<1>1. TypeOK'
  <2>1. /\ timed' \in BOOLEAN /\ reaped' \in BOOLEAN /\ killed' \in BOOLEAN
        /\ latchedFirst' \in BOOLEAN
    BY DEF IInv, TypeOK, ChildTypeOK,
           Latches, ReaderGoes, childVars, mainVars
  <2>2. /\ pipe' \in [Ends -> 0..PipeSize] /\ wrote' \in 0..MaxOutput
        /\ open' \subseteq Ends /\ child' \in {"none", "running", "exited", "killed"}
    BY DEF IInv, TypeOK, ChildTypeOK, Ends, Streams,
           Latches, ReaderGoes, childVars, mainVars
  <2>3. /\ toSend' \in Nat /\ writer' \in {"none", "writing", "ok", "failed"}
        /\ main' \in {"idle", "wait", "check", "cleanup", "out", "err", "judge", "done"}
        /\ waited' \in {"no", "exited", "timeout"}
        /\ verdict' \in Errors \cup {"none"}
        /\ result' \in Errors \cup {"none", "ok", "refused"}
    BY DEF IInv, TypeOK, ChildTypeOK, Ends, Streams, Errors,
           Latches, ReaderGoes, childVars, mainVars
  <2>4. /\ reader' \in [Streams -> {"top", "read", "count", "latch", "kill", "sent", "gone"}]
        /\ chunk' \in [Streams -> 0..PipeSize]
    BY DEF IInv, TypeOK, ChildTypeOK, Ends, Streams,
           Latches, ReaderGoes, childVars, mainVars
  <2>5. /\ retained' \in [Streams -> 0..Cap] /\ delivered' \in [Streams -> 0..Cap]
        /\ counter' \in 0..MaxOutput
    BY DEF IInv, TypeOK, ChildTypeOK, Ends, Streams, Accounted,
           Latches, ReaderGoes, childVars, mainVars
  <2> QED
    BY <2>1, <2>2, <2>3, <2>4, <2>5 DEF TypeOK, ChildTypeOK
<1>2. Accounted'
  BY DEF IInv, TypeOK, ChildTypeOK, Ends, Streams, Accounted,
         Latches, ReaderGoes, childVars, mainVars
<1>3. Latched'
  BY DEF IInv, TypeOK, ChildTypeOK, Ends, Streams, Latched, Waiting, AtEof,
         Latches, ReaderGoes, childVars, mainVars
<1>4. Waiting'
  BY DEF IInv, TypeOK, ChildTypeOK, Ends, Streams, Latched, Waiting, Settled, Quiet, Dead, AtEof, Errors,
         Latches, ReaderGoes, childVars, mainVars
<1>5. InTime'
  BY DEF IInv, TypeOK, ChildTypeOK, Ends, Streams, InTime, Waiting, Settled, Latched,
         Latches, ReaderGoes, childVars, mainVars
<1>6. Settled'
  BY DEF IInv, TypeOK, ChildTypeOK, Ends, Streams, Settled, Waiting, Latched, Accounted, Quiet, Errors, Dead,
         Latches, ReaderGoes, childVars, mainVars
<1> QED
  BY <1>1, <1>2, <1>3, <1>4, <1>5, <1>6 DEF IInv

(* A reader kills the child. *)
LEMMA KillsIInv ==
  ASSUME IInv, NEW s \in Streams, Kills(s), UNCHANGED <<timed, toSend, writer, mainVars>>
  PROVE  IInv'
<1> USE ChildAssumption, DuctAssumption DEF ChildAssumption, DuctAssumption
<1>1. TypeOK'
  <2>1. /\ timed' \in BOOLEAN /\ reaped' \in BOOLEAN /\ killed' \in BOOLEAN
        /\ latchedFirst' \in BOOLEAN
    BY DEF IInv, TypeOK, ChildTypeOK,
           Kills, Kill, Inherited, ReaderGoes, childVars, mainVars
  <2>2. /\ pipe' \in [Ends -> 0..PipeSize] /\ wrote' \in 0..MaxOutput
        /\ open' \subseteq Ends /\ child' \in {"none", "running", "exited", "killed"}
    BY DEF IInv, TypeOK, ChildTypeOK, Ends, Streams,
           Kills, Kill, Inherited, ReaderGoes, childVars, mainVars
  <2>3. /\ toSend' \in Nat /\ writer' \in {"none", "writing", "ok", "failed"}
        /\ main' \in {"idle", "wait", "check", "cleanup", "out", "err", "judge", "done"}
        /\ waited' \in {"no", "exited", "timeout"}
        /\ verdict' \in Errors \cup {"none"}
        /\ result' \in Errors \cup {"none", "ok", "refused"}
    BY DEF IInv, TypeOK, ChildTypeOK, Ends, Streams, Errors,
           Kills, Kill, Inherited, ReaderGoes, childVars, mainVars
  <2>4. /\ reader' \in [Streams -> {"top", "read", "count", "latch", "kill", "sent", "gone"}]
        /\ chunk' \in [Streams -> 0..PipeSize]
    BY DEF IInv, TypeOK, ChildTypeOK, Ends, Streams,
           Kills, Kill, Inherited, ReaderGoes, childVars, mainVars
  <2>5. /\ retained' \in [Streams -> 0..Cap] /\ delivered' \in [Streams -> 0..Cap]
        /\ counter' \in 0..MaxOutput
    BY DEF IInv, TypeOK, ChildTypeOK, Ends, Streams, Accounted,
           Kills, Kill, Inherited, ReaderGoes, childVars, mainVars
  <2> QED
    BY <2>1, <2>2, <2>3, <2>4, <2>5 DEF TypeOK, ChildTypeOK
<1>2. Accounted'
  BY DEF IInv, TypeOK, ChildTypeOK, Ends, Streams, Accounted,
         Kills, Kill, Inherited, ReaderGoes, childVars, mainVars
<1>3. Latched'
  BY DEF IInv, TypeOK, ChildTypeOK, Ends, Streams, Latched, Waiting, AtEof,
         Kills, Kill, Inherited, ReaderGoes, childVars, mainVars
<1>4. Waiting'
  BY DEF IInv, TypeOK, ChildTypeOK, Ends, Streams, Latched, Waiting, Settled, Quiet, Dead, AtEof, Errors,
         Kills, Kill, Inherited, ReaderGoes, childVars, mainVars
<1>5. InTime'
  BY DEF IInv, TypeOK, ChildTypeOK, Ends, Streams, InTime, Waiting, Settled, Latched,
         Kills, Kill, Inherited, ReaderGoes, childVars, mainVars
<1>6. Settled'
  BY DEF IInv, TypeOK, ChildTypeOK, Ends, Streams, Settled, Waiting, Latched, Accounted, Quiet, Errors, Dead,
         Kills, Kill, Inherited, ReaderGoes, childVars, mainVars
<1> QED
  BY <1>1, <1>2, <1>3, <1>4, <1>5, <1>6 DEF IInv

(* The command is started, or refused. *)
LEMMA StartIInv ==
  ASSUME IInv, Start
  PROVE  IInv'
<1> USE ChildAssumption, DuctAssumption DEF ChildAssumption, DuctAssumption
<1>1. TypeOK'
  <2>1. /\ timed' \in BOOLEAN /\ reaped' \in BOOLEAN /\ killed' \in BOOLEAN
        /\ latchedFirst' \in BOOLEAN
    BY DEF IInv, TypeOK, ChildTypeOK,
           Start, Spawned, childVars
  <2>2. /\ pipe' \in [Ends -> 0..PipeSize] /\ wrote' \in 0..MaxOutput
        /\ open' \subseteq Ends /\ child' \in {"none", "running", "exited", "killed"}
    BY DEF IInv, TypeOK, ChildTypeOK, Ends, Streams,
           Start, Spawned, childVars
  <2>3. /\ toSend' \in Nat /\ writer' \in {"none", "writing", "ok", "failed"}
        /\ main' \in {"idle", "wait", "check", "cleanup", "out", "err", "judge", "done"}
        /\ waited' \in {"no", "exited", "timeout"}
        /\ verdict' \in Errors \cup {"none"}
        /\ result' \in Errors \cup {"none", "ok", "refused"}
    BY DEF IInv, TypeOK, ChildTypeOK, Ends, Streams, Errors,
           Start, Spawned, childVars
  <2>4. /\ reader' \in [Streams -> {"top", "read", "count", "latch", "kill", "sent", "gone"}]
        /\ chunk' \in [Streams -> 0..PipeSize]
    BY DEF IInv, TypeOK, ChildTypeOK, Ends, Streams,
           Start, Spawned, childVars
  <2>5. /\ retained' \in [Streams -> 0..Cap] /\ delivered' \in [Streams -> 0..Cap]
        /\ counter' \in 0..MaxOutput
    BY DEF IInv, TypeOK, ChildTypeOK, Ends, Streams, Accounted,
           Start, Spawned, childVars
  <2> QED
    BY <2>1, <2>2, <2>3, <2>4, <2>5 DEF TypeOK, ChildTypeOK
<1>2. Accounted'
  BY DEF IInv, TypeOK, ChildTypeOK, Ends, Streams, Accounted,
         Start, Spawned, childVars
<1>3. Latched'
  BY DEF IInv, TypeOK, ChildTypeOK, Ends, Streams, Latched, Waiting, AtEof,
         Start, Spawned, childVars
<1>4. Waiting'
  BY DEF IInv, TypeOK, ChildTypeOK, Ends, Streams, Latched, Waiting, Settled, Quiet, Dead, AtEof, Errors,
         Start, Spawned, childVars
<1>5. InTime'
  BY DEF IInv, TypeOK, ChildTypeOK, Ends, Streams, InTime, Waiting, Settled, Latched,
         Start, Spawned, childVars
<1>6. Settled'
  BY DEF IInv, TypeOK, ChildTypeOK, Ends, Streams, Settled, Waiting, Latched, Accounted, Quiet, Errors, Dead,
         Start, Spawned, childVars
<1> QED
  BY <1>1, <1>2, <1>3, <1>4, <1>5, <1>6 DEF IInv

(* The wait ends. *)
LEMMA WaitEndsIInv ==
  ASSUME IInv, WaitEnds
  PROVE  IInv'
<1> USE ChildAssumption, DuctAssumption DEF ChildAssumption, DuctAssumption
<1>1. TypeOK'
  <2>1. /\ timed' \in BOOLEAN /\ reaped' \in BOOLEAN /\ killed' \in BOOLEAN
        /\ latchedFirst' \in BOOLEAN
    BY DEF IInv, TypeOK, ChildTypeOK,
           WaitEnds, Reaps, childVars, threadVars
  <2>2. /\ pipe' \in [Ends -> 0..PipeSize] /\ wrote' \in 0..MaxOutput
        /\ open' \subseteq Ends /\ child' \in {"none", "running", "exited", "killed"}
    BY DEF IInv, TypeOK, ChildTypeOK, Ends, Streams,
           WaitEnds, Reaps, childVars, threadVars
  <2>3. /\ toSend' \in Nat /\ writer' \in {"none", "writing", "ok", "failed"}
        /\ main' \in {"idle", "wait", "check", "cleanup", "out", "err", "judge", "done"}
        /\ waited' \in {"no", "exited", "timeout"}
        /\ verdict' \in Errors \cup {"none"}
        /\ result' \in Errors \cup {"none", "ok", "refused"}
    BY DEF IInv, TypeOK, ChildTypeOK, Ends, Streams, Errors,
           WaitEnds, Reaps, childVars, threadVars
  <2>4. /\ reader' \in [Streams -> {"top", "read", "count", "latch", "kill", "sent", "gone"}]
        /\ chunk' \in [Streams -> 0..PipeSize]
    BY DEF IInv, TypeOK, ChildTypeOK, Ends, Streams,
           WaitEnds, Reaps, childVars, threadVars
  <2>5. /\ retained' \in [Streams -> 0..Cap] /\ delivered' \in [Streams -> 0..Cap]
        /\ counter' \in 0..MaxOutput
    BY DEF IInv, TypeOK, ChildTypeOK, Ends, Streams, Accounted,
           WaitEnds, Reaps, childVars, threadVars
  <2> QED
    BY <2>1, <2>2, <2>3, <2>4, <2>5 DEF TypeOK, ChildTypeOK
<1>2. Accounted'
  BY DEF IInv, TypeOK, ChildTypeOK, Ends, Streams, Accounted,
         WaitEnds, Reaps, childVars, threadVars
<1>3. Latched'
  BY DEF IInv, TypeOK, ChildTypeOK, Ends, Streams, Latched, Waiting, AtEof,
         WaitEnds, Reaps, childVars, threadVars
<1>4. Waiting'
  BY DEF IInv, TypeOK, ChildTypeOK, Ends, Streams, Latched, Waiting, Settled, Quiet, Dead, AtEof, Errors,
         WaitEnds, Reaps, childVars, threadVars
<1>5. InTime'
  BY DEF IInv, TypeOK, ChildTypeOK, Ends, Streams, InTime, Waiting, Settled, Latched,
         WaitEnds, Reaps, childVars, threadVars
<1>6. Settled'
  BY DEF IInv, TypeOK, ChildTypeOK, Ends, Streams, Settled, Waiting, Latched, Accounted, Quiet, Errors, Dead,
         WaitEnds, Reaps, childVars, threadVars
<1> QED
  BY <1>1, <1>2, <1>3, <1>4, <1>5, <1>6 DEF IInv

(* The calling thread looks at the latch. *)
LEMMA CheckIInv ==
  ASSUME IInv, Check
  PROVE  IInv'
<1> USE ChildAssumption, DuctAssumption DEF ChildAssumption, DuctAssumption
<1>1. TypeOK'
  <2>1. /\ timed' \in BOOLEAN /\ reaped' \in BOOLEAN /\ killed' \in BOOLEAN
        /\ latchedFirst' \in BOOLEAN
    BY DEF IInv, TypeOK, ChildTypeOK,
           Check, childVars, threadVars
  <2>2. /\ pipe' \in [Ends -> 0..PipeSize] /\ wrote' \in 0..MaxOutput
        /\ open' \subseteq Ends /\ child' \in {"none", "running", "exited", "killed"}
    BY DEF IInv, TypeOK, ChildTypeOK, Ends, Streams,
           Check, childVars, threadVars
  <2>3. /\ toSend' \in Nat /\ writer' \in {"none", "writing", "ok", "failed"}
        /\ main' \in {"idle", "wait", "check", "cleanup", "out", "err", "judge", "done"}
        /\ waited' \in {"no", "exited", "timeout"}
        /\ verdict' \in Errors \cup {"none"}
        /\ result' \in Errors \cup {"none", "ok", "refused"}
    BY DEF IInv, TypeOK, ChildTypeOK, Ends, Streams, Errors,
           Check, childVars, threadVars
  <2>4. /\ reader' \in [Streams -> {"top", "read", "count", "latch", "kill", "sent", "gone"}]
        /\ chunk' \in [Streams -> 0..PipeSize]
    BY DEF IInv, TypeOK, ChildTypeOK, Ends, Streams,
           Check, childVars, threadVars
  <2>5. /\ retained' \in [Streams -> 0..Cap] /\ delivered' \in [Streams -> 0..Cap]
        /\ counter' \in 0..MaxOutput
    BY DEF IInv, TypeOK, ChildTypeOK, Ends, Streams, Accounted,
           Check, childVars, threadVars
  <2> QED
    BY <2>1, <2>2, <2>3, <2>4, <2>5 DEF TypeOK, ChildTypeOK
<1>2. Accounted'
  BY DEF IInv, TypeOK, ChildTypeOK, Ends, Streams, Accounted,
         Check, childVars, threadVars
<1>3. Latched'
  BY DEF IInv, TypeOK, ChildTypeOK, Ends, Streams, Latched, Waiting, AtEof,
         Check, childVars, threadVars
<1>4. Waiting'
  BY DEF IInv, TypeOK, ChildTypeOK, Ends, Streams, Latched, Waiting, Settled, Quiet, Dead, AtEof, Errors,
         Check, childVars, threadVars
<1>5. InTime'
  BY DEF IInv, TypeOK, ChildTypeOK, Ends, Streams, InTime, Waiting, Settled, Latched,
         Check, childVars, threadVars
<1>6. Settled'
  BY DEF IInv, TypeOK, ChildTypeOK, Ends, Streams, Settled, Waiting, Latched, Accounted, Quiet, Errors, Dead,
         Check, childVars, threadVars
<1> QED
  BY <1>1, <1>2, <1>3, <1>4, <1>5, <1>6 DEF IInv

(* The child is killed and reaped. *)
LEMMA CleanupIInv ==
  ASSUME IInv, Cleanup
  PROVE  IInv'
<1> USE ChildAssumption, DuctAssumption DEF ChildAssumption, DuctAssumption
<1>1. TypeOK'
  <2>1. /\ timed' \in BOOLEAN /\ reaped' \in BOOLEAN /\ killed' \in BOOLEAN
        /\ latchedFirst' \in BOOLEAN
    BY DEF IInv, TypeOK, ChildTypeOK,
           Cleanup, Kill, Inherited, Reaps, childVars, threadVars
  <2>2. /\ pipe' \in [Ends -> 0..PipeSize] /\ wrote' \in 0..MaxOutput
        /\ open' \subseteq Ends /\ child' \in {"none", "running", "exited", "killed"}
    BY DEF IInv, TypeOK, ChildTypeOK, Ends, Streams,
           Cleanup, Kill, Inherited, Reaps, childVars, threadVars
  <2>3. /\ toSend' \in Nat /\ writer' \in {"none", "writing", "ok", "failed"}
        /\ main' \in {"idle", "wait", "check", "cleanup", "out", "err", "judge", "done"}
        /\ waited' \in {"no", "exited", "timeout"}
        /\ verdict' \in Errors \cup {"none"}
        /\ result' \in Errors \cup {"none", "ok", "refused"}
    BY DEF IInv, TypeOK, ChildTypeOK, Ends, Streams, Errors,
           Cleanup, Kill, Inherited, Reaps, childVars, threadVars
  <2>4. /\ reader' \in [Streams -> {"top", "read", "count", "latch", "kill", "sent", "gone"}]
        /\ chunk' \in [Streams -> 0..PipeSize]
    BY DEF IInv, TypeOK, ChildTypeOK, Ends, Streams,
           Cleanup, Kill, Inherited, Reaps, childVars, threadVars
  <2>5. /\ retained' \in [Streams -> 0..Cap] /\ delivered' \in [Streams -> 0..Cap]
        /\ counter' \in 0..MaxOutput
    BY DEF IInv, TypeOK, ChildTypeOK, Ends, Streams, Accounted,
           Cleanup, Kill, Inherited, Reaps, childVars, threadVars
  <2> QED
    BY <2>1, <2>2, <2>3, <2>4, <2>5 DEF TypeOK, ChildTypeOK
<1>2. Accounted'
  BY DEF IInv, TypeOK, ChildTypeOK, Ends, Streams, Accounted,
         Cleanup, Kill, Inherited, Reaps, childVars, threadVars
<1>3. Latched'
  BY DEF IInv, TypeOK, ChildTypeOK, Ends, Streams, Latched, Waiting, AtEof,
         Cleanup, Kill, Inherited, Reaps, childVars, threadVars
<1>4. Waiting'
  BY DEF IInv, TypeOK, ChildTypeOK, Ends, Streams, Latched, Waiting, Settled, Quiet, Dead, AtEof, Errors,
         Cleanup, Kill, Inherited, Reaps, childVars, threadVars
<1>5. InTime'
  BY DEF IInv, TypeOK, ChildTypeOK, Ends, Streams, InTime, Waiting, Settled, Latched,
         Cleanup, Kill, Inherited, Reaps, childVars, threadVars
<1>6. Settled'
  BY DEF IInv, TypeOK, ChildTypeOK, Ends, Streams, Settled, Waiting, Latched, Accounted, Quiet, Errors, Dead,
         Cleanup, Kill, Inherited, Reaps, childVars, threadVars
<1> QED
  BY <1>1, <1>2, <1>3, <1>4, <1>5, <1>6 DEF IInv

(* The output of one stream is collected. *)
LEMMA CollectIInv ==
  ASSUME IInv, NEW s \in Streams, Collect(s)
  PROVE  IInv'
<1> USE ChildAssumption, DuctAssumption DEF ChildAssumption, DuctAssumption
<1>1. TypeOK'
  <2>1. /\ timed' \in BOOLEAN /\ reaped' \in BOOLEAN /\ killed' \in BOOLEAN
        /\ latchedFirst' \in BOOLEAN
    BY DEF IInv, TypeOK, ChildTypeOK,
           Collect, Unavailable, childVars, threadVars
  <2>2. /\ pipe' \in [Ends -> 0..PipeSize] /\ wrote' \in 0..MaxOutput
        /\ open' \subseteq Ends /\ child' \in {"none", "running", "exited", "killed"}
    BY DEF IInv, TypeOK, ChildTypeOK, Ends, Streams,
           Collect, Unavailable, childVars, threadVars
  <2>3. /\ toSend' \in Nat /\ writer' \in {"none", "writing", "ok", "failed"}
        /\ main' \in {"idle", "wait", "check", "cleanup", "out", "err", "judge", "done"}
        /\ waited' \in {"no", "exited", "timeout"}
        /\ verdict' \in Errors \cup {"none"}
        /\ result' \in Errors \cup {"none", "ok", "refused"}
    BY DEF IInv, TypeOK, ChildTypeOK, Ends, Streams, Errors,
           Collect, Unavailable, childVars, threadVars
  <2>4. /\ reader' \in [Streams -> {"top", "read", "count", "latch", "kill", "sent", "gone"}]
        /\ chunk' \in [Streams -> 0..PipeSize]
    BY DEF IInv, TypeOK, ChildTypeOK, Ends, Streams,
           Collect, Unavailable, childVars, threadVars
  <2>5. /\ retained' \in [Streams -> 0..Cap] /\ delivered' \in [Streams -> 0..Cap]
        /\ counter' \in 0..MaxOutput
    BY DEF IInv, TypeOK, ChildTypeOK, Ends, Streams, Accounted,
           Collect, Unavailable, childVars, threadVars
  <2> QED
    BY <2>1, <2>2, <2>3, <2>4, <2>5 DEF TypeOK, ChildTypeOK
<1>2. Accounted'
  BY DEF IInv, TypeOK, ChildTypeOK, Ends, Streams, Accounted,
         Collect, Unavailable, childVars, threadVars
<1>3. Latched'
  BY DEF IInv, TypeOK, ChildTypeOK, Ends, Streams, Latched, Waiting, AtEof,
         Collect, Unavailable, childVars, threadVars
<1>4. Waiting'
  BY DEF IInv, TypeOK, ChildTypeOK, Ends, Streams, Latched, Waiting, Settled, Quiet, Dead, AtEof, Errors,
         Collect, Unavailable, childVars, threadVars
<1>5. InTime'
  BY DEF IInv, TypeOK, ChildTypeOK, Ends, Streams, InTime, Waiting, Settled, Latched,
         Collect, Unavailable, childVars, threadVars
<1>6. Settled'
  BY DEF IInv, TypeOK, ChildTypeOK, Ends, Streams, Settled, Waiting, Latched, Accounted, Quiet, Errors, Dead,
         Collect, Unavailable, childVars, threadVars
<1> QED
  BY <1>1, <1>2, <1>3, <1>4, <1>5, <1>6 DEF IInv

(* The answer of a command that ended by itself. *)
LEMMA JudgeIInv ==
  ASSUME IInv, Judge
  PROVE  IInv'
<1> USE ChildAssumption, DuctAssumption DEF ChildAssumption, DuctAssumption
<1>1. TypeOK'
  <2>1. /\ timed' \in BOOLEAN /\ reaped' \in BOOLEAN /\ killed' \in BOOLEAN
        /\ latchedFirst' \in BOOLEAN
    BY DEF IInv, TypeOK, ChildTypeOK,
           Judge, StdinAnswer, childVars, threadVars
  <2>2. /\ pipe' \in [Ends -> 0..PipeSize] /\ wrote' \in 0..MaxOutput
        /\ open' \subseteq Ends /\ child' \in {"none", "running", "exited", "killed"}
    BY DEF IInv, TypeOK, ChildTypeOK, Ends, Streams,
           Judge, StdinAnswer, childVars, threadVars
  <2>3. /\ toSend' \in Nat /\ writer' \in {"none", "writing", "ok", "failed"}
        /\ main' \in {"idle", "wait", "check", "cleanup", "out", "err", "judge", "done"}
        /\ waited' \in {"no", "exited", "timeout"}
        /\ verdict' \in Errors \cup {"none"}
        /\ result' \in Errors \cup {"none", "ok", "refused"}
    BY DEF IInv, TypeOK, ChildTypeOK, Ends, Streams, Errors,
           Judge, StdinAnswer, childVars, threadVars
  <2>4. /\ reader' \in [Streams -> {"top", "read", "count", "latch", "kill", "sent", "gone"}]
        /\ chunk' \in [Streams -> 0..PipeSize]
    BY DEF IInv, TypeOK, ChildTypeOK, Ends, Streams,
           Judge, StdinAnswer, childVars, threadVars
  <2>5. /\ retained' \in [Streams -> 0..Cap] /\ delivered' \in [Streams -> 0..Cap]
        /\ counter' \in 0..MaxOutput
    BY DEF IInv, TypeOK, ChildTypeOK, Ends, Streams, Accounted,
           Judge, StdinAnswer, childVars, threadVars
  <2> QED
    BY <2>1, <2>2, <2>3, <2>4, <2>5 DEF TypeOK, ChildTypeOK
<1>2. Accounted'
  BY DEF IInv, TypeOK, ChildTypeOK, Ends, Streams, Accounted,
         Judge, StdinAnswer, childVars, threadVars
<1>3. Latched'
  BY DEF IInv, TypeOK, ChildTypeOK, Ends, Streams, Latched, Waiting, AtEof,
         Judge, StdinAnswer, childVars, threadVars
<1>4. Waiting'
  BY DEF IInv, TypeOK, ChildTypeOK, Ends, Streams, Latched, Waiting, Settled, Quiet, Dead, AtEof, Errors,
         Judge, StdinAnswer, childVars, threadVars
<1>5. InTime'
  BY DEF IInv, TypeOK, ChildTypeOK, Ends, Streams, InTime, Waiting, Settled, Latched,
         Judge, StdinAnswer, childVars, threadVars
<1>6. Settled'
  BY DEF IInv, TypeOK, ChildTypeOK, Ends, Streams, Settled, Waiting, Latched, Accounted, Quiet, Errors, Dead,
         Judge, StdinAnswer, childVars, threadVars
<1> QED
  BY <1>1, <1>2, <1>3, <1>4, <1>5, <1>6 DEF IInv

(* The child or a grandchild acts. *)
LEMMA ChildIInv ==
  ASSUME IInv, ChildStep, UNCHANGED <<timed, threadVars, mainVars>>
  PROVE  IInv'
<1> USE ChildAssumption, DuctAssumption DEF ChildAssumption, DuctAssumption
<1>1. TypeOK'
  <2>1. /\ timed' \in BOOLEAN /\ reaped' \in BOOLEAN /\ killed' \in BOOLEAN
        /\ latchedFirst' \in BOOLEAN
    BY DEF IInv, TypeOK, ChildTypeOK,
           ChildStep, Writes, ReadsInput, Closes, Exits, Inherited, threadVars, mainVars
  <2>2. /\ pipe' \in [Ends -> 0..PipeSize] /\ wrote' \in 0..MaxOutput
        /\ open' \subseteq Ends /\ child' \in {"none", "running", "exited", "killed"}
    <3>1. CASE \E s \in Streams : Writes(s)
      BY <3>1 DEF IInv, TypeOK, ChildTypeOK, Ends, Streams, Writes
    <3>2. CASE ReadsInput
      BY <3>2 DEF IInv, TypeOK, ChildTypeOK, Ends, Streams, ReadsInput
    <3>3. CASE (\E e \in Ends : Closes(e)) \/ Exits
      BY <3>3 DEF IInv, TypeOK, ChildTypeOK, Closes, Exits, Inherited
    <3> QED
      BY <3>1, <3>2, <3>3 DEF ChildStep
  <2>3. /\ toSend' \in Nat /\ writer' \in {"none", "writing", "ok", "failed"}
        /\ main' \in {"idle", "wait", "check", "cleanup", "out", "err", "judge", "done"}
        /\ waited' \in {"no", "exited", "timeout"}
        /\ verdict' \in Errors \cup {"none"}
        /\ result' \in Errors \cup {"none", "ok", "refused"}
    BY DEF IInv, TypeOK, ChildTypeOK, Ends, Streams, Errors,
           ChildStep, Writes, ReadsInput, Closes, Exits, Inherited, threadVars, mainVars
  <2>4. /\ reader' \in [Streams -> {"top", "read", "count", "latch", "kill", "sent", "gone"}]
        /\ chunk' \in [Streams -> 0..PipeSize]
    BY DEF IInv, TypeOK, ChildTypeOK, Ends, Streams,
           ChildStep, Writes, ReadsInput, Closes, Exits, Inherited, threadVars, mainVars
  <2>5. /\ retained' \in [Streams -> 0..Cap] /\ delivered' \in [Streams -> 0..Cap]
        /\ counter' \in 0..MaxOutput
    BY DEF IInv, TypeOK, ChildTypeOK, Ends, Streams, Accounted,
           ChildStep, Writes, ReadsInput, Closes, Exits, Inherited, threadVars, mainVars
  <2> QED
    BY <2>1, <2>2, <2>3, <2>4, <2>5 DEF TypeOK, ChildTypeOK
<1>2. Accounted'
  <2>1. CASE \E s \in Streams : Writes(s)
    BY <2>1 DEF IInv, TypeOK, ChildTypeOK, Ends, Streams, Accounted, Writes, threadVars
  <2>2. CASE ReadsInput
    BY <2>2 DEF IInv, TypeOK, ChildTypeOK, Ends, Streams, Accounted, ReadsInput, threadVars
  <2>3. CASE (\E e \in Ends : Closes(e)) \/ Exits
    BY <2>3 DEF IInv, Accounted, Closes, Exits, threadVars
  <2> QED
    BY <2>1, <2>2, <2>3 DEF ChildStep
<1>3. Latched'
  BY DEF IInv, TypeOK, ChildTypeOK, Ends, Streams, Latched, Waiting, AtEof,
         ChildStep, Writes, ReadsInput, Closes, Exits, Inherited, threadVars, mainVars
<1>4. Waiting'
  BY DEF IInv, TypeOK, ChildTypeOK, Ends, Streams, Latched, Waiting, Settled, Quiet, Dead, AtEof, Errors,
         ChildStep, Writes, ReadsInput, Closes, Exits, Inherited, threadVars, mainVars
<1>5. InTime'
  BY DEF IInv, TypeOK, ChildTypeOK, Ends, Streams, InTime, Waiting, Settled, Latched,
         ChildStep, Writes, ReadsInput, Closes, Exits, Inherited, threadVars, mainVars
<1>6. Settled'
  BY DEF IInv, TypeOK, ChildTypeOK, Ends, Streams, Settled, Waiting, Latched, Accounted, Quiet, Errors, Dead,
         ChildStep, Writes, ReadsInput, Closes, Exits, Inherited, threadVars, mainVars
<1> QED
  BY <1>1, <1>2, <1>3, <1>4, <1>5, <1>6 DEF IInv
(* Nothing happens. *)
LEMMA IdleIInv ==
  ASSUME IInv, Done \/ UNCHANGED vars
  PROVE  IInv'
<1>1. UNCHANGED childVars /\ UNCHANGED timed /\ UNCHANGED threadVars /\ UNCHANGED mainVars
  BY DEF Done, vars
<1>2. TypeOK'
  BY <1>1 DEF IInv, TypeOK, ChildTypeOK, childVars, threadVars, mainVars
<1>3. Accounted' /\ Latched'
  BY <1>1 DEF IInv, Accounted, Latched, AtEof, childVars, threadVars, mainVars
<1>4. Waiting'
  BY <1>1 DEF IInv, Waiting, Quiet, Dead, childVars, threadVars, mainVars
<1>5. InTime' /\ Settled'
  BY <1>1 DEF IInv, InTime, Settled, childVars, threadVars, mainVars
<1> QED
  BY <1>2, <1>3, <1>4, <1>5 DEF IInv

(* Everything above holds before the command is started. *)
LEMMA InitIInv == Init => IInv
<1> SUFFICES ASSUME Init PROVE IInv
  OBVIOUS
<1>1. 0 \in 0..PipeSize /\ 0 \in 0..MaxOutput /\ 0 \in 0..Cap
  BY ChildAssumption, DuctAssumption DEF ChildAssumption, DuctAssumption
<1>2. /\ pipe \in [Ends -> 0..PipeSize] /\ chunk \in [Streams -> 0..PipeSize]
      /\ retained \in [Streams -> 0..Cap] /\ delivered \in [Streams -> 0..Cap]
      /\ reader \in [Streams -> {"top", "read", "count", "latch", "kill", "sent", "gone"}]
  BY <1>1 DEF Init, ChildInit, Zero
<1>3. timed \in BOOLEAN /\ reaped \in BOOLEAN /\ killed \in BOOLEAN /\ latchedFirst \in BOOLEAN
  BY DEF Init, ChildInit
<1>4. TypeOK
  BY <1>1, <1>2, <1>3, DuctAssumption
     DEF Init, ChildInit, TypeOK, ChildTypeOK, DuctAssumption
<1>5. Accounted /\ Latched
  BY DEF Init, ChildInit, Zero, Accounted, Latched, Ends, Streams
<1>6. Waiting /\ InTime /\ Settled
  BY DEF Init, ChildInit, Zero, Waiting, InTime, Settled, Errors, Streams
<1> QED
  BY <1>4, <1>5, <1>6 DEF IInv

(* No step breaks it. *)
LEMMA NextIInv == IInv /\ [Next]_vars => IInv'
<1> SUFFICES ASSUME IInv, [Next]_vars PROVE IInv'
  OBVIOUS
<1>1. CASE MainSteps
  BY <1>1, StartIInv, WaitEndsIInv, CheckIInv, CleanupIInv, JudgeIInv, CollectIInv
     DEF MainSteps
<1>2. CASE \E s \in Streams : ReaderSteps(s)
  BY <1>2, LooksIInv, ReadsIInv, CountsIInv, LatchesIInv, KillsIInv DEF ReaderSteps
<1>3. CASE WriterSteps
  BY <1>3, WriterIInv
<1>4. CASE ChildStep /\ UNCHANGED <<timed, threadVars, mainVars>>
  BY <1>4, ChildIInv
<1>5. CASE Done \/ UNCHANGED vars
  BY <1>5, IdleIInv
<1> QED
  BY <1>1, <1>2, <1>3, <1>4, <1>5 DEF Next

(* The readers never keep more than the cap, whatever the child writes     *)
(* and however the threads interleave.                                     *)
THEOREM TypeCorrect == Spec => []TypeOK
<1>1. IInv => TypeOK
  BY DEF IInv
<1> QED
  BY <1>1, InitIInv, NextIInv, PTL DEF Spec

(* A breach latched before the wait ended is never reported as a timeout.  *)
THEOREM BreachIsBreach == Spec => []BreachNotMislabelled
<1>1. IInv => BreachNotMislabelled
  BY DEF IInv, InTime, Settled, BreachNotMislabelled
<1> QED
  BY <1>1, InitIInv, NextIInv, PTL DEF Spec

(* No answer leaves the child running: nothing is written after it, and it *)
(* stands, whatever the threads left behind still do.                      *)
THEOREM AnswersStand == Spec => AnswersFinal
<1>1. IInv /\ [Next]_vars => [result # "none" => UNCHANGED <<result, wrote, delivered>>]_vars
  <2> SUFFICES ASSUME IInv, Next, result # "none" PROVE UNCHANGED <<result, wrote, delivered>>
    OBVIOUS
  <2>1. main = "done" /\ child # "running"
    BY DEF IInv, TypeOK, Settled, Waiting, Dead
  <2>2. ~MainSteps
    BY <2>1 DEF MainSteps, Start, WaitEnds, Check, Cleanup, Judge, Collect, Streams
  <2>3. CASE WriterSteps
    BY <2>3 DEF WriterSteps, mainVars
  <2>4. ASSUME NEW s \in Streams, ReaderSteps(s) PROVE UNCHANGED <<result, wrote, delivered>>
    BY <2>4 DEF ReaderSteps, LooksAtLatch, Reads, Counts, Latches, Kills, Kill, Takes,
       childVars, mainVars
  <2>5. CASE ChildStep /\ UNCHANGED <<timed, threadVars, mainVars>>
    BY <2>1, <2>5 DEF ChildStep, Writes, ReadsInput, Closes, Exits, mainVars
  <2>6. CASE Done
    BY <2>6 DEF Done, vars, childVars, mainVars
  <2> QED
    BY <2>2, <2>3, <2>4, <2>5, <2>6 DEF Next
<1> QED
  BY <1>1, InitIInv, NextIInv, PTL DEF Spec, AnswersFinal

(* The two readers together never keep more than the cap: whoever would pass *)
(* it keeps nothing, and after that neither does the other.                  *)
THEOREM KeptWithinCap == Spec => []RetainedWithinCap
<1> USE ChildAssumption, DuctAssumption DEF ChildAssumption, DuctAssumption
<1>1. Init => RetainedWithinCap
  BY DEF Init, Zero, Streams, RetainedWithinCap
<1>2. IInv /\ RetainedWithinCap /\ [Next]_vars => RetainedWithinCap'
  <2> SUFFICES ASSUME IInv, RetainedWithinCap, [Next]_vars PROVE RetainedWithinCap'
    OBVIOUS
  <2>1. CASE retained' = retained
    BY <2>1 DEF RetainedWithinCap
  <2>2. ASSUME NEW s \in Streams, Counts(s) PROVE RetainedWithinCap'
    <3>1. /\ retained \in [Streams -> 0..Cap] /\ chunk \in [Streams -> 0..PipeSize]
          /\ counter \in Nat /\ Cap \in Nat
          /\ retained["out"] + retained["err"] <= counter
      BY DEF IInv, TypeOK, ChildTypeOK, Accounted
    <3>2. CASE OverCap(s)
      BY <2>1, <2>2, <3>2 DEF Counts
    <3>3. CASE ~OverCap(s)
      <4>1. counter + chunk[s] <= Cap /\ retained' = [retained EXCEPT ![s] = @ + chunk[s]]
        BY <2>2, <3>1, <3>3 DEF Counts, OverCap
      <4>2. retained'["out"] + retained'["err"] = retained["out"] + retained["err"] + chunk[s]
        BY <3>1, <4>1 DEF Streams
      <4>3. retained["out"] + retained["err"] \in Nat /\ chunk[s] \in Nat
        BY <3>1 DEF Streams
      <4> QED
        BY <3>1, <4>1, <4>2, <4>3 DEF RetainedWithinCap
    <3> QED
      BY <3>2, <3>3
  <2>3. ASSUME NEW s \in Streams, ReaderSteps(s) PROVE RetainedWithinCap'
    BY <2>1, <2>2, <2>3 DEF ReaderSteps, LooksAtLatch, Reads, Latches, Kills
  <2>4. CASE MainSteps \/ WriterSteps \/ Done \/ UNCHANGED vars
    BY <2>1, <2>4
       DEF MainSteps, Start, WaitEnds, Check, Cleanup, Judge, Collect, WriterSteps, Done, vars,
           threadVars
  <2>5. CASE ChildStep /\ UNCHANGED <<timed, threadVars, mainVars>>
    BY <2>1, <2>5 DEF threadVars
  <2> QED
    BY <2>3, <2>4, <2>5 DEF Next
<1> QED
  BY <1>1, <1>2, InitIInv, NextIInv, PTL DEF Spec

(* A breach once counted always ends the child: between the count, the latch *)
(* and the kill no other thread can make the reader forget it.               *)
THEOREM BreachesArePursued == Spec => []BreachPursued
<1> USE ChildAssumption, DuctAssumption DEF ChildAssumption, DuctAssumption
<1>1. Init => BreachPursued
  BY DEF Init, BreachPursued
<1>2. IInv /\ BreachPursued /\ [Next]_vars => BreachPursued'
  <2> SUFFICES ASSUME IInv, BreachPursued, [Next]_vars PROVE BreachPursued'
    OBVIOUS
  <2>0. /\ child \in {"none", "running", "exited", "killed"}
        /\ reader \in [Streams -> {"top", "read", "count", "latch", "kill", "sent", "gone"}]
        /\ child = "none" => \A s \in Streams : reader[s] = "top"
    BY DEF IInv, TypeOK, ChildTypeOK, Waiting
  <2>1. CASE UNCHANGED <<counter, reader>> /\ (Dead => Dead')
    BY <2>1 DEF BreachPursued
  <2>2. ASSUME NEW s \in Streams, ReaderSteps(s) PROVE BreachPursued'
    <3>1. CASE LooksAtLatch(s)
      BY <2>0, <3>1 DEF LooksAtLatch, ReaderGoes, childVars, Dead, BreachPursued
    <3>2. CASE Reads(s)
      BY <2>0, <3>2 DEF Reads, Takes, ReaderGoes, childVars, Dead, BreachPursued
    <3>3. CASE Counts(s)
      <4>1. CASE OverCap(s)
        BY <2>0, <3>3, <4>1 DEF Counts, ReaderGoes, BreachPursued
      <4>2. CASE ~OverCap(s)
        <5>1. counter \in Nat /\ chunk[s] \in Nat /\ counter' = counter + chunk[s]
          BY <3>3 DEF Counts, IInv, TypeOK, ChildTypeOK
        <5> QED
          BY <4>2, <5>1 DEF OverCap, BreachPursued
      <4> QED
        BY <4>1, <4>2
    <3>4. CASE Latches(s)
      BY <2>0, <3>4 DEF Latches, ReaderGoes, BreachPursued
    <3>5. CASE Kills(s)
      BY <2>0, <3>5 DEF Kills, Kill, childVars, Dead, BreachPursued
    <3> QED
      BY <2>2, <3>1, <3>2, <3>3, <3>4, <3>5 DEF ReaderSteps
  <2>3. CASE Start
    <3>1. counter' = counter /\ reader' = reader /\ ~Dead
      BY <2>3 DEF Start, IInv, Waiting, Dead
    <3> QED
      BY <3>1 DEF BreachPursued
  <2>4. CASE WaitEnds \/ Check \/ Cleanup \/ Judge \/ \E s \in Streams : Collect(s)
    BY <2>0, <2>1, <2>4
       DEF WaitEnds, Check, Cleanup, Judge, Collect, Reaps, Kill, threadVars, childVars, Dead
  <2>5. CASE WriterSteps \/ Done \/ UNCHANGED vars
    BY <2>1, <2>5 DEF WriterSteps, Done, vars, threadVars, childVars, Dead
  <2>6. CASE ChildStep /\ UNCHANGED <<timed, threadVars, mainVars>>
    <3>1. Dead => Dead'
      BY <2>6 DEF ChildStep, Writes, ReadsInput, Closes, Exits, Dead
    <3> QED
      BY <2>1, <2>6, <3>1 DEF threadVars
  <2> QED
    BY <2>2, <2>3, <2>4, <2>5, <2>6 DEF Next, MainSteps
<1> QED
  BY <1>1, <1>2, InitIInv, NextIInv, PTL DEF Spec

(* A stream that is no longer read was read to its end. *)
LEMMA QuietIsAll ==
  ASSUME IInv, Quiet("out"), Quiet("err"), counter <= Cap
  PROVE  /\ retained["out"] + retained["err"] = wrote /\ counter = wrote
         /\ reader["out"] # "gone" /\ reader["err"] # "gone"
<1>1. counter \in Nat /\ Cap \in Nat
  BY ChildAssumption, DuctAssumption DEF IInv, TypeOK, ChildAssumption, DuctAssumption
<1>2. ~killed
  BY <1>1 DEF IInv, Latched
<1>3. \A s \in Streams : reader[s] # "gone" /\ chunk[s] = 0 /\ pipe[s] = 0
  BY <1>2 DEF IInv, Latched, Quiet, AtEof, Streams
<1>4. /\ pipe["out"] = 0 /\ pipe["err"] = 0 /\ chunk["out"] = 0 /\ chunk["err"] = 0
      /\ reader["out"] # "gone" /\ reader["err"] # "gone"
  BY <1>3 DEF Streams
<1> QED
  BY <1>1, <1>4 DEF IInv, Accounted

(* A successful answer loses whole streams only, and only to a grandchild. *)
THEOREM OkLosesLittle == Spec => []OkLosesOnlyHeldStreams
<1>1. IInv => OkLosesOnlyHeldStreams
  <2> SUFFICES ASSUME IInv, result = "ok" PROVE OkLosesOnlyHeldStreams
    BY DEF OkLosesOnlyHeldStreams
  <2>1. Quiet("out") /\ Quiet("err") /\ counter <= Cap
    BY DEF IInv, Waiting, Settled
  <2>2. /\ retained["out"] + retained["err"] = wrote
        /\ \A s \in Streams : reader[s] # "gone"
    BY <2>1, QuietIsAll DEF Streams
  <2> QED
    BY <2>2 DEF IInv, Waiting, OkLosesOnlyHeldStreams
<1> QED
  BY <1>1, InitIInv, NextIInv, PTL DEF Spec
-----------------------------------------------------------------------------
(* The calling thread's steps are steps of the contract. *)
LEMMA MainRefines ==
  ASSUME IInv, MainSteps
  PROVE  [Contract!Next]_(Contract!vars)
<1>1. CASE Start
  BY <1>1 DEF IInv, Waiting, Settled, Start, Spawned, childVars, Dead,
              Contract!Next, Contract!Start, Contract!Refuse
<1>2. CASE WaitEnds
  BY <1>2 DEF WaitEnds, Reaps, Dead, childVars, Contract!Next, Contract!Reap, Contract!vars
<1>3. CASE Check \/ \E s \in Streams : Collect(s)
  BY <1>3 DEF Check, Collect, childVars, Contract!vars
<1>4. CASE Cleanup
  <2>1. CASE child = "running" /\ Kill /\ UNCHANGED <<main, result>>
    BY <2>1 DEF IInv, Waiting, Dead, Kill, Contract!Next, Contract!Die
  <2>2. CASE Reaps /\ main' = "done" /\ result' = verdict
    <3>1. verdict \in {"limit", "timeout"} /\ result = "none"
      BY <1>4 DEF IInv, Waiting, Settled, Cleanup
    <3>2. verdict = "limit" => wrote > Cap
      <4>1. verdict = "limit" => counter > Cap
        BY DEF IInv, Waiting, Latched
      <4>2. counter \in Nat /\ wrote \in Nat /\ counter <= wrote
        BY ChildAssumption
           DEF IInv, TypeOK, ChildTypeOK, Ends, Streams, Accounted, ChildAssumption
      <4> QED
        BY <4>1, <4>2, DuctAssumption DEF DuctAssumption
    <3>3. Contract!Answer(verdict)
      BY <2>2, <3>1, <3>2 DEF Reaps, Dead, Contract!Answer
    <3> QED
      BY <3>1, <3>3 DEF Contract!Next
  <2> QED
    BY <1>4, <2>1, <2>2 DEF Cleanup
<1>5. CASE Judge
  <2>1. /\ result = "none" /\ reaped /\ Dead /\ Quiet("out") /\ Quiet("err")
        /\ UNCHANGED <<child, reaped, wrote>>
    BY <1>5 DEF IInv, Waiting, Settled, Judge, childVars
  <2>2. counter \in Nat /\ wrote \in Nat /\ counter <= wrote /\ Cap \in Nat
    BY ChildAssumption, DuctAssumption
       DEF IInv, TypeOK, ChildTypeOK, Ends, Streams, Accounted, ChildAssumption, DuctAssumption
  <2>3. /\ killed \/ counter > Cap => wrote > Cap
        /\ ~(killed \/ counter > Cap) => wrote <= Cap
    BY <2>1, <2>2, QuietIsAll DEF IInv, Latched
  <2>4. /\ result' \in {"limit", "stdin_failed", "ok"}
        /\ result' = "limit" => wrote > Cap
        /\ result' = "ok" => wrote <= Cap
    BY <1>5, <2>3 DEF Judge, StdinAnswer
  <2>5. Contract!Answer(result')
    BY <2>1, <2>4 DEF Dead, Contract!Answer
  <2> QED
    BY <2>4, <2>5 DEF Contract!Next
<1> QED
  BY <1>1, <1>2, <1>3, <1>4, <1>5 DEF MainSteps

(* So are the child's, and a reader's kill. *)
LEMMA OthersRefine ==
  ASSUME IInv,
         \/ ChildStep /\ UNCHANGED <<timed, threadVars, mainVars>>
         \/ WriterSteps
         \/ \E s \in Streams : ReaderSteps(s)
         \/ Done \/ UNCHANGED vars
  PROVE  [Contract!Next]_(Contract!vars)
<1>1. CASE ChildStep /\ UNCHANGED <<timed, threadVars, mainVars>>
  BY <1>1 DEF IInv, TypeOK, ChildTypeOK, Waiting, ChildStep, Writes, ReadsInput, Closes,
              Exits, mainVars, Dead, Contract!Next, Contract!Write, Contract!Die,
              Contract!vars
<1>2. CASE \E s \in Streams : ReaderSteps(s)
  <2>1. PICK s \in Streams : ReaderSteps(s)
    BY <1>2
  <2>2. CASE Kills(s)
    BY <2>1, <2>2 DEF IInv, Waiting, Dead, ReaderSteps, Kills, Kill, childVars, mainVars,
                      Contract!Next, Contract!Die, Contract!vars
  <2>3. CASE ~Kills(s)
    BY <2>1, <2>3 DEF ReaderSteps, LooksAtLatch, Reads, Counts, Latches, Takes, childVars,
                      mainVars, Contract!vars
  <2> QED
    BY <2>2, <2>3
<1>3. CASE WriterSteps \/ Done \/ UNCHANGED vars
  BY <1>3 DEF WriterSteps, Done, vars, childVars, mainVars, Contract!vars
<1> QED
  BY <1>1, <1>2, <1>3

(* Every answer comes after the child was reaped, once, and tells the      *)
(* truth about the cap, for every interleaving of the four threads.        *)
THEOREM DuctRunKeepsContract == Spec => ImplementsContract
<1>1. Init => Contract!Init
  BY DEF Init, ChildInit, Contract!Init
<1>2. IInv /\ [Next]_vars => [Contract!Next]_(Contract!vars)
  BY MainRefines, OthersRefine DEF Next
<1> QED
  BY <1>1, <1>2, InitIInv, NextIInv, PTL DEF Spec, ImplementsContract, Contract!Spec

============================================================================
