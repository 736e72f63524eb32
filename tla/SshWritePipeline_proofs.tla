----------------------- MODULE SshWritePipeline_proofs -----------------------
(***************************************************************************)
(* Proofs about the SSH write pipeline, for any number of operations, any  *)
(* batch size and whatever operations do when they fail.                   *)
(***************************************************************************)
EXTENDS SshWritePipeline, SequenceTheorems, TLAPS

(* The operations a dialog queues are a sequence of operations. *)
LEMMA NewOpsType ==
  ASSUME NEW s \in 0..MaxOps, NEW n \in 1..MaxBatch, s + n <= MaxOps
  PROVE  /\ [i \in 1..n |-> s + i] \in Seq(Ops)
         /\ Len([i \in 1..n |-> s + i]) = n
<1>1. n \in Nat /\ \A i \in 1..n : s + i \in Ops
  BY PipelineAssumption DEF Ops, PipelineAssumption
<1>2. [i \in 1..n |-> s + i] \in [1..n -> Ops]
  BY <1>1
<1> QED
  BY <1>1, <1>2

(* flush_ssh_ops keeps the types, whatever queue it is given. *)
LEMMA FlushType ==
  ASSUME TypeOK, NEW q \in Seq(Ops), FlushSshOps(q)
  PROVE  /\ pending' \in Seq(Ops)
         /\ batch' \in Seq(Ops)
         /\ inFlight' \in Nat
         /\ cooldown' \in {"none", "young", "old"}
         /\ writeTask' \in BOOLEAN
<1>1. CASE SpawnsBatch(q, inFlight)
  BY <1>1 DEF FlushSshOps, SpawnBatch
<1>2. CASE ~SpawnsBatch(q, inFlight)
  BY <1>2 DEF FlushSshOps, TypeOK
<1> QED
  BY <1>1, <1>2

(* Every variable keeps its type. *)
LEMMA InitType == Init => TypeOK
<1> SUFFICES ASSUME Init PROVE TypeOK
  OBVIOUS
<1>1. revertPending \in BOOLEAN /\ writeTask \in BOOLEAN /\ stale \in BOOLEAN
  BY DEF Init
<1>2. grace \in 0..GraceTicks /\ submitted \in 0..MaxOps
  BY PipelineAssumption DEF Init, PipelineAssumption
<1> QED
  BY <1>1, <1>2 DEF Init, TypeOK, Sections, Branches, Failures


LEMMA StutterType == TypeOK /\ UNCHANGED vars => TypeOK'
BY DEF TypeOK, vars, uiVars, taskVars, colVars, viewVars

LEMMA SubmitType == ASSUME TypeOK, NEW n \in 1..MaxBatch, Submit(n) PROVE TypeOK'
<1> DEFINE new == [i \in 1..n |-> submitted + i]
<1>1. new \in Seq(Ops)
  BY NewOpsType DEF Submit, TypeOK
<1>2. pending \o new \in Seq(Ops)
  BY <1>1 DEF TypeOK
<1>3. /\ pending' \in Seq(Ops) /\ batch' \in Seq(Ops) /\ inFlight' \in Nat
      /\ cooldown' \in {"none", "young", "old"} /\ writeTask' \in BOOLEAN
  BY <1>2, FlushType DEF Submit
<1>4. submitted \in Nat /\ n \in Nat /\ MaxOps \in Nat /\ submitted + n <= MaxOps
  BY PipelineAssumption DEF Submit, TypeOK, PipelineAssumption
<1>5. submitted' \in 0..MaxOps
  BY <1>4 DEF Submit
<1>6. \A i \in 1..n : submitted + i \in Ops
  BY <1>4 DEF Ops
<1>7. shown' \subseteq Ops
  BY <1>6 DEF Submit, TypeOK
<1> QED
  BY <1>3, <1>5, <1>7 DEF Submit, EventFrame, NextTurn, TypeOK, colVars, viewVars, Branches

LEMMA PlainEventType ==
  ASSUME TypeOK, OtherEvent \/ Navigate \/ Quit
  PROVE  TypeOK'
<1>1. /\ pending' \in Seq(Ops) /\ batch' \in Seq(Ops) /\ inFlight' \in Nat
      /\ cooldown' \in {"none", "young", "old"} /\ writeTask' \in BOOLEAN
  BY FlushType DEF OtherEvent, Navigate, Quit, TypeOK
<1>2. revertPending' \in BOOLEAN
  BY DEF OtherEvent, Navigate, Quit, EventFrame, TypeOK
<1> QED
  BY <1>1, <1>2 DEF OtherEvent, Navigate, Quit, EventFrame, NextTurn, TypeOK, colVars,
         viewVars, Branches

LEMMA CollectorFires ==
  ASSUME TypeOK, StartCollector
  PROVE  /\ col' \in {"none", "started", "ready", "failed"} /\ seen' \subseteq Ops
      /\ unread' \subseteq Parts /\ missing' \subseteq Parts
BY DEF TypeOK, StartCollector, colVars, viewVars

LEMMA QuietType ==
  ASSUME TypeOK, NoEvent \/ NoError \/ NoDone \/ NoTick
  PROVE  TypeOK'
BY DEF TypeOK, NoEvent, NoError, NoDone, NoTick, PassTo, NextTurn, Branches, uiVars, taskVars,
       colVars, viewVars

LEMMA PollCollectorType == ASSUME TypeOK, PollCollector PROVE TypeOK'
<1>1. revertPending' \in BOOLEAN /\ writeTask' \in BOOLEAN
  BY DEF PollCollector, TypeOK
<1> QED
  BY <1>1 DEF TypeOK, PollCollector, Collected, PassTo, NextTurn, Branches, uiVars, taskVars,
         colVars, viewVars

LEMMA RecvErrorType == ASSUME TypeOK, RecvError PROVE TypeOK'
<1>1. revertPending' \in BOOLEAN
  BY DEF RecvError, TypeOK
<1>2. errQ' \in Seq({"ok"} \cup Failures)
  BY DEF RecvError, TypeOK
<1>3. /\ col' \in {"none", "started", "ready", "failed"} /\ seen' \subseteq Ops
      /\ unread' \subseteq Parts /\ missing' \subseteq Parts
  BY CollectorFires DEF RecvError, FireRevert, colVars, viewVars, TypeOK
<1> QED
  BY <1>1, <1>2, <1>3 DEF TypeOK, RecvError, FireRevert, NextTurn, Branches, uiVars, taskVars,
         colVars, viewVars

LEMMA RecvDoneType == ASSUME TypeOK, RecvDone PROVE TypeOK'
<1>1. revertPending' \in BOOLEAN
  BY DEF RecvDone, BatchEnded, TypeOK
<1>2. writeTask' \in BOOLEAN
  BY DEF RecvDone, BatchEnded, SpawnBatch, TypeOK
<1>3. /\ pending' \in Seq(Ops) /\ batch' \in Seq(Ops) /\ inFlight' \in Nat
      /\ cooldown' \in {"none", "young", "old"}
  <2>1. CASE Decrement(inFlight) # 0
    BY <2>1 DEF RecvDone, Decrement, TypeOK
  <2>2. CASE Decrement(inFlight) = 0 /\ SpawnsBatch(pending, 0)
    BY <2>2 DEF RecvDone, BatchEnded, FiresDeferredRevert, SpawnBatch, TypeOK
  <2>3. CASE Decrement(inFlight) = 0 /\ ~SpawnsBatch(pending, 0)
    BY <2>3 DEF RecvDone, BatchEnded, FireRevert, TypeOK
  <2> QED
    BY <2>1, <2>2, <2>3
<1>4. /\ col' \in {"none", "started", "ready", "failed"} /\ seen' \subseteq Ops
      /\ unread' \subseteq Parts /\ missing' \subseteq Parts
  BY CollectorFires DEF RecvDone, BatchEnded, FireRevert, colVars, viewVars, TypeOK
<1>5. doneQ' \in Nat
  BY DEF RecvDone, TypeOK
<1>6. stale' \in BOOLEAN
  BY DEF RecvDone, BatchEnded, FireRevert, colVars, viewVars, TypeOK
<1> QED
  BY <1>1, <1>2, <1>3, <1>4, <1>5, <1>6 DEF TypeOK, RecvDone, NextTurn, Branches, uiVars, viewVars

LEMMA TickType == ASSUME TypeOK, Tick PROVE TypeOK'
<1>1. /\ col' \in {"none", "started", "ready", "failed"} /\ seen' \subseteq Ops
      /\ unread' \subseteq Parts /\ missing' \subseteq Parts
      /\ cooldown' \in {"none", "young", "old"}
  BY CollectorFires DEF Tick, colVars, viewVars, TypeOK
<1>2. grace' \in 0..GraceTicks
  BY PipelineAssumption DEF Tick, Decrement, TypeOK, PipelineAssumption
<1>3. stale' \in BOOLEAN
  BY DEF Tick, colVars, viewVars, TypeOK
<1> QED
  BY <1>1, <1>2, <1>3 DEF TypeOK, Tick, NextTurn, Branches, taskVars, viewVars

LEMMA ExecuteOpType == ASSUME TypeOK, ExecuteOp PROVE TypeOK'
<1>1. Head(batch) \in Ops /\ batch' \in Seq(Ops) /\ ran' \in Seq(Ops)
  BY DEF ExecuteOp, TypeOK
<1>2. outcome' \in {"ok"} \cup Failures
  BY PipelineAssumption DEF ExecuteOp, PipelineAssumption
<1> QED
  BY <1>1, <1>2 DEF TypeOK, ExecuteOp, loopVars, uiVars, colVars, viewVars

LEMMA TaskSendType ==
  ASSUME TypeOK, SendError \/ SendDone
  PROVE  TypeOK'
<1>1. errQ' \in Seq({"ok"} \cup Failures)
  <2>1. errQ' = errQ \/ errQ' = Append(errQ, outcome)
    BY DEF SendError, SendDone
  <2>2. errQ \in Seq({"ok"} \cup Failures) /\ outcome \in {"ok"} \cup Failures
    BY DEF TypeOK
  <2> QED
    BY <2>1, <2>2
<1>2. revertPending' \in BOOLEAN /\ writeTask' \in BOOLEAN /\ stale' \in BOOLEAN
  BY DEF SendError, SendDone, loopVars, colVars, viewVars, TypeOK
<1> QED
  BY <1>1, <1>2 DEF SendError, SendDone, loopVars, uiVars, colVars, viewVars, TypeOK

LEMMA CollectorType ==
  ASSUME TypeOK, Collect \/ CooldownElapses
  PROVE  TypeOK'
<1>1. revertPending' \in BOOLEAN /\ writeTask' \in BOOLEAN
  BY DEF Collect, CollectRead, CollectNothing, CollectSend, CollectPanic,
         CooldownElapses, colFrame, TypeOK
<1>2. /\ col' \in {"none", "started", "ready", "failed"} /\ seen' \subseteq Ops
      /\ unread' \subseteq Parts /\ missing' \subseteq Parts /\ stale' \in BOOLEAN
  BY DEF Collect, CollectRead, CollectNothing, CollectSend, CollectPanic, OnDisk,
         CooldownElapses, TypeOK
<1>3. cooldown' \in {"none", "young", "old"}
  BY DEF Collect, CollectRead, CollectNothing, CollectSend, CollectPanic,
         CooldownElapses, colFrame, TypeOK
<1> QED
  BY <1>1, <1>2, <1>3
     DEF Collect, CollectRead, CollectNothing, CollectSend, CollectPanic,
         CooldownElapses, colFrame, uiVars, taskVars, viewVars, TypeOK

LEMMA DrainType ==
  ASSUME TypeOK, Leave
  PROVE  TypeOK'
<1>1. Gone /\ (CutOff \/ UNCHANGED disk)
  BY DEF Leave, DrainComplete, DrainTimeout, DrawFails
<1>2. batch # <<>> => Head(batch) \in Ops
  BY DEF TypeOK
<1>3. disk' \subseteq Ops
  BY <1>1, <1>2 DEF CutOff, TypeOK
<1>4. /\ pending' \in Seq(Ops) /\ batch' \in Seq(Ops)
      /\ errQ' \in Seq({"ok"} \cup Failures)
  BY <1>1 DEF Gone
<1>5. revertPending' \in BOOLEAN /\ writeTask' \in BOOLEAN /\ stale' \in BOOLEAN
  BY <1>1 DEF Gone, Collected
<1> QED
  BY <1>1, <1>3, <1>4, <1>5 DEF Gone, Collected, uiVars, viewVars, TypeOK

LEMMA NextType == TypeOK /\ [Next]_vars => TypeOK'
BY StutterType, SubmitType, PlainEventType, QuietType, PollCollectorType,
   RecvErrorType, RecvDoneType, TickType, ExecuteOpType, TaskSendType,
   CollectorType, DrainType
   DEF Next, Loop, Exited

(* The types hold in every reachable state. *)
THEOREM TypeCorrect == Spec => []TypeOK
BY InitType, NextType, PTL DEF Spec
-----------------------------------------------------------------------------
(***************************************************************************)
(* What the write task and the loop know of each other.  Neither conjunct  *)
(* needs the other; both need the types.                                   *)
(***************************************************************************)
IInv == TypeOK /\ InFlightExact /\ WriteTaskTracked

LEMMA InitIInv == Init => IInv
BY InitType DEF Init, IInv, InFlightExact, WriteTaskTracked, Unreported

(* With nothing in flight the task is over and every "done" was received.  *)
LEMMA NothingInFlight ==
  ASSUME IInv, mode # "exited", inFlight = 0
  PROVE  batch = <<>> /\ step = "idle" /\ doneQ = 0
<1>1. Len(batch) \in Nat /\ doneQ \in Nat
  BY DEF IInv, TypeOK
<1>2. Len(batch) = 0 /\ step = "idle" /\ doneQ = 0
  BY <1>1 DEF IInv, InFlightExact, Unreported
<1> QED
  BY <1>2 DEF IInv, TypeOK

LEMMA FlushIInv ==
  ASSUME IInv, mode # "exited", NEW q \in Seq(Ops), FlushSshOps(q),
         UNCHANGED <<step, doneQ>>
  PROVE  InFlightExact' /\ WriteTaskTracked'
<1>1. CASE SpawnsBatch(q, inFlight)
  <2>1. step = "idle" /\ doneQ = 0
    BY <1>1, NothingInFlight DEF SpawnsBatch
  <2> QED
    BY <1>1, <2>1 DEF FlushSshOps, SpawnBatch, InFlightExact, WriteTaskTracked, Unreported
<1>2. CASE ~SpawnsBatch(q, inFlight)
  BY <1>2 DEF FlushSshOps, IInv, InFlightExact, WriteTaskTracked, Unreported
<1> QED
  BY <1>1, <1>2

LEMMA EventIInv ==
  ASSUME IInv, (\E n \in 1..MaxBatch : Submit(n)) \/ OtherEvent \/ Navigate \/ Quit
  PROVE  InFlightExact' /\ WriteTaskTracked'
<1>1. mode # "exited" /\ UNCHANGED <<step, doneQ>>
  BY DEF Submit, OtherEvent, Navigate, Quit, EventFrame
<1>2. \E q \in Seq(Ops) : FlushSshOps(q)
  <2>1. CASE OtherEvent \/ Navigate \/ Quit
    BY <2>1 DEF OtherEvent, Navigate, Quit, IInv, TypeOK
  <2>2. ASSUME NEW n \in 1..MaxBatch, Submit(n)
        PROVE  \E q \in Seq(Ops) : FlushSshOps(q)
    <3> DEFINE new == [i \in 1..n |-> submitted + i]
    <3>1. new \in Seq(Ops)
      BY <2>2, NewOpsType DEF Submit, IInv, TypeOK
    <3>2. pending \o new \in Seq(Ops)
      BY <3>1 DEF IInv, TypeOK
    <3>3. FlushSshOps(pending \o new)
      BY <2>2 DEF Submit
    <3> QED
      BY <3>2, <3>3
  <2> QED
    BY <2>1, <2>2
<1> QED
  BY <1>1, <1>2, FlushIInv

LEMMA RecvDoneIInv ==
  ASSUME IInv, RecvDone
  PROVE  InFlightExact' /\ WriteTaskTracked'
<1>1. /\ mode # "exited" /\ mode' = mode /\ step' = step
      /\ doneQ \in Nat /\ doneQ > 0 /\ doneQ' = doneQ - 1
      /\ Len(batch) \in Nat /\ inFlight \in Nat
  BY DEF RecvDone, IInv, TypeOK
<1>2. inFlight = Unreported + doneQ
  BY <1>1 DEF IInv, InFlightExact
<1>3. CASE Decrement(inFlight) # 0
  <2>1. inFlight' = inFlight - 1 /\ UNCHANGED <<batch, writeTask>>
    BY <1>1, <1>3 DEF RecvDone, Decrement
  <2> QED
    BY <1>1, <1>2, <2>1 DEF IInv, InFlightExact, WriteTaskTracked, Unreported
<1>4. CASE Decrement(inFlight) = 0
  <2>1. Len(batch) = 0 /\ step = "idle" /\ doneQ = 1
    BY <1>1, <1>2, <1>4 DEF Decrement, Unreported
  <2>2. CASE SpawnsBatch(pending, 0)
    <3>1. batch' = pending /\ inFlight' = Len(pending) /\ writeTask'
      BY <1>4, <2>2 DEF RecvDone, BatchEnded, SpawnBatch
    <3>2. Len(pending) \in Nat
      BY DEF IInv, TypeOK
    <3> QED
      BY <1>1, <2>1, <3>1, <3>2 DEF InFlightExact, WriteTaskTracked, Unreported
  <2>3. CASE ~SpawnsBatch(pending, 0)
    <3>1. batch' = batch /\ inFlight' = 0
      BY <1>4, <2>3 DEF RecvDone, BatchEnded
    <3> QED
      BY <1>1, <2>1, <3>1 DEF InFlightExact, WriteTaskTracked, Unreported
  <2> QED
    BY <2>2, <2>3
<1> QED
  BY <1>3, <1>4

LEMMA TaskIInv ==
  ASSUME IInv, ExecuteOp \/ SendError \/ SendDone
  PROVE  InFlightExact' /\ WriteTaskTracked'
<1>1. CASE ExecuteOp
  <2>1. /\ batch # <<>> /\ batch' = Tail(batch) /\ step = "idle" /\ step' # "idle"
        /\ UNCHANGED <<mode, inFlight, writeTask, doneQ>>
    BY <1>1 DEF ExecuteOp, loopVars
  <2>2. Len(batch) \in Nat /\ Len(batch) > 0 /\ Len(batch') = Len(batch) - 1
    BY <2>1 DEF IInv, TypeOK
  <2> QED
    BY <2>1, <2>2 DEF IInv, TypeOK, InFlightExact, WriteTaskTracked, Unreported
<1>2. CASE SendError
  BY <1>2 DEF SendError, loopVars, IInv, InFlightExact, WriteTaskTracked, Unreported
<1>3. CASE SendDone
  <2>1. Len(batch) \in Nat /\ doneQ \in Nat
    BY DEF IInv, TypeOK
  <2> QED
    BY <1>3, <2>1 DEF SendDone, loopVars, IInv, InFlightExact, WriteTaskTracked, Unreported
<1> QED
  BY <1>1, <1>2, <1>3

(* Steps that touch neither the task nor the counters. *)
LEMMA QuietIInv ==
  ASSUME IInv,
         UNCHANGED <<batch, step, doneQ, inFlight, writeTask, mode>> \/ mode' = "exited"
  PROVE  InFlightExact' /\ WriteTaskTracked'
BY DEF IInv, InFlightExact, WriteTaskTracked, Unreported

LEMMA NextIInv == IInv /\ [Next]_vars => IInv'
<1> SUFFICES ASSUME IInv, [Next]_vars PROVE InFlightExact' /\ WriteTaskTracked'
  BY NextType DEF IInv
<1>1. CASE (\E n \in 1..MaxBatch : Submit(n)) \/ OtherEvent \/ Navigate \/ Quit
  BY <1>1, EventIInv
<1>2. CASE RecvDone
  BY <1>2, RecvDoneIInv
<1>3. CASE ExecuteOp \/ SendError \/ SendDone
  BY <1>3, TaskIInv
<1>4. CASE UNCHANGED vars \/ Exited
  BY <1>4, QuietIInv DEF vars, taskVars, Exited
<1>5. CASE NoEvent \/ NoError \/ NoDone \/ NoTick \/ PollCollector \/ RecvError
  BY <1>5, QuietIInv DEF NoEvent, NoError, NoDone, NoTick, PollCollector, RecvError, taskVars
<1>6. CASE Tick \/ Collect \/ CooldownElapses
  BY <1>6, QuietIInv
     DEF Tick, Collect, CollectRead, CollectNothing, CollectSend, CollectPanic,
         CooldownElapses, colFrame, taskVars
<1>7. CASE Leave
  BY <1>7, QuietIInv DEF Leave, DrainComplete, DrainTimeout, DrawFails, Gone, CutOff, Collected
<1> QED
  BY <1>1, <1>2, <1>3, <1>4, <1>5, <1>6, <1>7 DEF Next, Loop

(* The in-flight count is exact and the write task is never lost track of: *)
(* flush_ssh_ops, the done arm and the exit path agree on what is running. *)
THEOREM PipelineInvariant == Spec => [](InFlightExact /\ WriteTaskTracked)
<1>1. IInv => InFlightExact /\ WriteTaskTracked
  BY DEF IInv
<1> QED
  BY <1>1, InitIInv, NextIInv, PTL DEF Spec

(* The two halves of it, each in the words of its property: the count the *)
(* loop goes by is exact, and the handle is held while there is work left. *)
THEOREM InFlightIsExact == Spec => []InFlightExact
BY PipelineInvariant, PTL

(* See above. *)
THEOREM WriteTaskIsTracked == Spec => []WriteTaskTracked
BY PipelineInvariant, PTL

(* No deferred revert is left without a batch to wait for: the batch's end *)
(* fires it, unless it starts another one (the done arm of run).           *)
THEOREM DeferredRevertsWait == Spec => []RevertHasBatch
<1>1. Init => RevertHasBatch
  BY DEF Init, RevertHasBatch
<1>2. IInv /\ RevertHasBatch /\ [Next]_vars => RevertHasBatch'
  <2> SUFFICES ASSUME IInv, RevertHasBatch, [Next]_vars PROVE RevertHasBatch'
    OBVIOUS
  <2>0. inFlight \in Nat /\ pending \in Seq(Ops) /\ Len(pending) \in Nat
    BY DEF IInv, TypeOK
  <2>1. CASE UNCHANGED <<revertPending, inFlight>>
    BY <2>1 DEF RevertHasBatch
  <2>2. ASSUME NEW n \in 1..MaxBatch, Submit(n) PROVE RevertHasBatch'
    <3>1. revertPending' = revertPending /\ FlushSshOps(pending \o [i \in 1..n |-> submitted + i])
      BY <2>2 DEF Submit, EventFrame
    <3>2. inFlight > 0 => inFlight' = inFlight
      BY <2>0, <3>1 DEF FlushSshOps, SpawnsBatch
    <3> QED
      BY <3>1, <3>2 DEF RevertHasBatch
  <2>3. CASE OtherEvent \/ Navigate \/ Quit
    <3>1. revertPending' = revertPending /\ FlushSshOps(pending)
      BY <2>3 DEF OtherEvent, Navigate, Quit, EventFrame
    <3>2. inFlight > 0 => inFlight' = inFlight
      BY <2>0, <3>1 DEF FlushSshOps, SpawnsBatch
    <3> QED
      BY <3>1, <3>2 DEF RevertHasBatch
  <2>4. CASE RecvError
    <3>1. inFlight' = inFlight /\ (revertPending' => revertPending \/ inFlight > 0)
      BY <2>4 DEF RecvError
    <3> QED
      BY <3>1 DEF RevertHasBatch
  <2>5. CASE RecvDone
    <3>1. CASE Decrement(inFlight) # 0
      BY <2>0, <2>5, <3>1 DEF RecvDone, Decrement, RevertHasBatch
    <3>2. CASE Decrement(inFlight) = 0 /\ SpawnsBatch(pending, 0)
      <4>1. inFlight' = Len(pending) /\ pending # <<>>
        BY <2>5, <3>2 DEF RecvDone, BatchEnded, SpawnBatch, SpawnsBatch
      <4>2. Len(pending) > 0
        BY <2>0, <4>1
      <4> QED
        BY <4>1, <4>2 DEF RevertHasBatch
    <3>3. CASE Decrement(inFlight) = 0 /\ ~SpawnsBatch(pending, 0)
      BY <2>5, <3>3 DEF RecvDone, BatchEnded, FiresDeferredRevert, RevertHasBatch
    <3> QED
      BY <3>1, <3>2, <3>3
  <2>6. CASE NoEvent \/ PollCollector \/ NoError \/ NoDone \/ Tick \/ NoTick
    BY <2>1, <2>6 DEF NoEvent, PollCollector, NoError, NoDone, Tick, NoTick
  <2>7. CASE ExecuteOp \/ SendError \/ SendDone
    BY <2>1, <2>7 DEF ExecuteOp, SendError, SendDone, loopVars
  <2>8. CASE Collect \/ CooldownElapses
    BY <2>1, <2>8 DEF Collect, CollectRead, CollectNothing, CollectSend, CollectPanic,
           CooldownElapses, colFrame
  <2>9. CASE Exited \/ UNCHANGED vars
    BY <2>1, <2>9 DEF Exited, vars
  <2>10. CASE Leave
    <3>1. ~revertPending'
      BY <2>10 DEF Leave, DrainComplete, DrainTimeout, DrawFails, Gone
    <3> QED
      BY <3>1 DEF RevertHasBatch
  <2> QED
    BY <2>2, <2>3, <2>4, <2>5, <2>6, <2>7, <2>8, <2>9, <2>10 DEF Next, Loop
<1> QED
  BY <1>1, <1>2, InitIInv, NextIInv, PTL DEF Spec

(* Only the collector arm replaces the view. *)
LEMMA CollectorOverwrites ==
  ASSUME IInv, Next, Overwritten
  PROVE  PollCollector
<1>1. ASSUME NEW n \in 1..MaxBatch, Submit(n) PROVE FALSE
  BY <1>1, PipelineAssumption
     DEF Submit, Overwritten, viewVars, IInv, TypeOK, PipelineAssumption
<1>2. CASE OtherEvent \/ Navigate \/ Quit \/ NoEvent \/ RecvError \/ NoError
  BY <1>2 DEF OtherEvent, Navigate, Quit, NoEvent, RecvError, NoError, Overwritten, viewVars
<1>3. CASE RecvDone \/ NoDone \/ Tick \/ NoTick
  BY <1>3 DEF RecvDone, NoDone, Tick, NoTick, Overwritten, viewVars
<1>4. CASE ExecuteOp \/ SendError \/ SendDone
  BY <1>4 DEF ExecuteOp, SendError, SendDone, loopVars, Overwritten, viewVars
<1>5. CASE Collect \/ CooldownElapses
  BY <1>5 DEF Collect, CollectRead, CollectNothing, CollectSend, CollectPanic,
         CooldownElapses, colFrame, Overwritten, viewVars
<1>6. CASE Leave \/ Exited
  BY <1>6 DEF Leave, DrainComplete, DrainTimeout, DrawFails, Gone, CutOff, Collected, Exited,
         vars, Overwritten, viewVars
<1> QED
  BY <1>1, <1>2, <1>3, <1>4, <1>5, <1>6 DEF Next, Loop

(* What the collector arm shows, it shows with nothing in flight. *)
LEMMA ShownAtRest ==
  ASSUME IInv, Next, Overwritten
  PROVE  /\ mode = "running" /\ col = "ready" /\ shown' = seen /\ blank' = missing
         /\ inFlight = 0 /\ cooldown # "young"
<1>1. PollCollector
  BY CollectorOverwrites
<1>2. /\ mode = "running" /\ col = "ready" /\ shown' = seen /\ blank' = missing
      /\ ~ShouldSkipSshRefresh
  BY <1>1 DEF PollCollector, Overwritten, viewVars
<1> QED
  BY <1>2 DEF ShouldSkipSshRefresh, IInv, TypeOK

(* No bundle replaces the view while an operation of a batch is unexecuted *)
(* or unreported (the collector arm of run).                               *)
THEOREM NoOverwrite == Spec => NoOverwriteDuringWrite
<1>1. IInv /\ [Next]_vars => [Overwritten => Unreported = 0]_vars
  <2> SUFFICES ASSUME IInv, Next, Overwritten PROVE Unreported = 0
    OBVIOUS
  <2> QED
    BY ShownAtRest, NothingInFlight DEF Unreported
<1> QED
  BY <1>1, InitIInv, NextIInv, PTL DEF Spec, NoOverwriteDuringWrite
-----------------------------------------------------------------------------
(***************************************************************************)
(* The cooldown covers every collection that has outlived none: outside it *)
(* such a collection has seen no batch begin, so what it has read and not   *)
(* missed is what is on disk of those parts.                               *)
(***************************************************************************)
Trusted == mode # "exited" /\ col # "none" /\ ~stale /\ cooldown # "young"

Unmissed == {op \in disk : PartOf[op] \notin unread \cup missing}

Covered ==
  /\ Trusted => /\ inFlight = 0
                /\ col \in {"started", "ready"} => seen = Unmissed
  /\ col = "ready" => unread = {}
  /\ unread \cap missing = {}

(* Flushing either starts the cooldown or starts nothing. *)
LEMMA EventCovered ==
  ASSUME IInv, Covered,
         (\E n \in 1..MaxBatch : Submit(n)) \/ OtherEvent \/ Navigate \/ Quit
  PROVE  Covered'
<1>1. UNCHANGED <<disk, colVars>> /\ mode # "exited"
  BY DEF Submit, OtherEvent, Navigate, Quit, EventFrame
<1>2. cooldown' = "young" \/ UNCHANGED <<cooldown, inFlight>>
  BY DEF Submit, OtherEvent, Navigate, Quit, FlushSshOps, SpawnBatch
<1> QED
  BY <1>1, <1>2 DEF Covered, Trusted, Unmissed, colVars, viewVars

(* A collection just started has read nothing, and misses nothing yet. *)
LEMMA StartCovered ==
  ASSUME IInv, Covered, StartCollector, disk' = disk
  PROVE  /\ (col' = "ready" => unread' = {}) /\ unread' \cap missing' = {}
         /\ col = "none" => col' = "started" /\ seen' = Unmissed'
<1>1. CASE col = "none"
  <2>1. /\ col' = "started" /\ seen' = {} /\ unread' = Parts /\ missing' = {}
    BY <1>1 DEF StartCollector
  <2>2. \A op \in disk' : PartOf[op] \in Parts
    BY PipelineAssumption DEF IInv, TypeOK, PipelineAssumption
  <2>3. Unmissed' = {}
    BY <2>1, <2>2 DEF Unmissed
  <2> QED
    BY <2>1, <2>3
<1>2. CASE col # "none"
  BY <1>2 DEF StartCollector, Covered
<1> QED
  BY <1>1, <1>2

(* The end of a batch: a revert forgets the cooldown, and with it whatever is *)
(* pending.                                                                   *)
LEMMA LoopCovered ==
  ASSUME IInv, Covered, RecvError \/ RecvDone \/ Tick
  PROVE  Covered'
<1>1. disk' = disk /\ mode = "running" /\ mode' = mode /\ inFlight \in Nat
  BY DEF RecvError, RecvDone, Tick, taskVars, IInv, TypeOK
<1>2. CASE FireRevert /\ inFlight' = 0
  <2>1. /\ (col' = "ready" => unread' = {}) /\ unread' \cap missing' = {}
        /\ col = "none" => col' = "started" /\ seen' = Unmissed'
    BY <1>1, <1>2, StartCovered DEF FireRevert
  <2>2. inFlight' = 0 /\ stale' = (col # "none")
    BY <1>2 DEF FireRevert
  <2> QED
    BY <2>1, <2>2 DEF Covered, Trusted
<1>3. CASE UNCHANGED <<cooldown, colVars>> /\ (inFlight' = inFlight \/ inFlight # 0)
  BY <1>1, <1>3 DEF Covered, Trusted, Unmissed, colVars, viewVars
<1>4. CASE cooldown' = "young" /\ UNCHANGED colVars
  BY <1>4 DEF Covered, Trusted, colVars
<1>5. CASE Tick
  <2>1. CASE UNCHANGED <<cooldown, colVars>>
    BY <1>3, <1>5, <2>1 DEF Tick
  <2>2. CASE ~ShouldSkipSshRefresh /\ StartCollector /\ UNCHANGED stale
    <3>1. inFlight' = 0 /\ cooldown # "young"
      BY <1>1, <1>5, <2>2 DEF Tick, ShouldSkipSshRefresh
    <3>2. /\ (col' = "ready" => unread' = {}) /\ unread' \cap missing' = {}
          /\ col = "none" => col' = "started" /\ seen' = Unmissed'
      BY <1>1, <2>2, StartCovered
    <3>3. CASE col = "none"
      BY <3>1, <3>2, <3>3 DEF Covered, Trusted
    <3>4. CASE col # "none"
      <4>1. UNCHANGED <<col, seen, unread, missing, stale>>
        BY <2>2, <3>4 DEF StartCollector
      <4> QED
        BY <1>1, <3>1, <3>4, <4>1 DEF Covered, Trusted, Unmissed
    <3> QED
      BY <3>3, <3>4
  <2> QED
    BY <1>5, <2>1, <2>2 DEF Tick
<1>6. CASE RecvError
  BY <1>2, <1>3, <1>6 DEF RecvError
<1>7. CASE RecvDone
  <2>1. CASE Decrement(inFlight) # 0
    BY <1>1, <1>3, <1>7, <2>1 DEF RecvDone, Decrement
  <2>2. CASE Decrement(inFlight) = 0 /\ SpawnsBatch(pending, 0)
    BY <1>4, <1>7, <2>2 DEF RecvDone, BatchEnded, SpawnBatch, FiresDeferredRevert
  <2>3. CASE Decrement(inFlight) = 0 /\ ~SpawnsBatch(pending, 0)
    <3>1. inFlight # 0
      BY <1>7, NothingInFlight DEF RecvDone
    <3> QED
      BY <1>2, <1>3, <1>7, <2>3, <3>1 DEF RecvDone, BatchEnded
  <2> QED
    BY <2>1, <2>2, <2>3
<1> QED
  BY <1>5, <1>6, <1>7

(* An operation that reaches the disk is in flight. *)
LEMMA ExecuteCovered ==
  ASSUME IInv, Covered, ExecuteOp
  PROVE  Covered'
<1>1. inFlight # 0
  BY NothingInFlight DEF ExecuteOp
<1> QED
  BY <1>1 DEF ExecuteOp, loopVars, colVars, viewVars, Covered, Trusted, Unmissed

(* The collector adds what is on disk of a part, or counts the part missing. *)
LEMMA CollectCovered ==
  ASSUME IInv, Covered, Collect
  PROVE  Covered'
<1>1. UNCHANGED <<mode, stale, cooldown, inFlight, disk>>
  BY DEF Collect, CollectRead, CollectNothing, CollectSend, CollectPanic, colFrame, taskVars
<1>2. ASSUME NEW part \in Parts, CollectRead(part) PROVE Covered'
  <2>1. /\ col = "started" /\ col' = col /\ part \in unread
        /\ unread' = unread \ {part}
    BY <1>2 DEF CollectRead
  <2>2. ASSUME seen = Unmissed PROVE seen' = Unmissed'
    <3>1. CASE seen' = seen \cup OnDisk(part) /\ missing' = missing
      <4>1. part \notin missing
        BY <2>1 DEF Covered
      <4> QED
        BY <1>1, <2>1, <2>2, <3>1, <4>1 DEF Unmissed, OnDisk
    <3>2. CASE missing' = missing \cup {part} /\ seen' = seen
      BY <1>1, <2>1, <2>2, <3>2 DEF Unmissed
    <3> QED
      BY <1>2, <3>1, <3>2 DEF CollectRead
  <2>3. unread' \cap missing' = {}
    BY <1>2, <2>1 DEF CollectRead, Covered
  <2> QED
    BY <1>1, <2>1, <2>2, <2>3 DEF Covered, Trusted
<1>3. CASE CollectNothing
  <2>1. /\ col = "started" /\ col' = col /\ seen' = seen
        /\ unread = Parts /\ unread' = {} /\ missing' = Parts
    BY <1>3 DEF CollectNothing
  <2>2. \A op \in disk : PartOf[op] \in Parts
    BY PipelineAssumption DEF IInv, TypeOK, PipelineAssumption
  <2>3. Unmissed = {} /\ Unmissed' = {}
    BY <1>1, <2>1, <2>2 DEF Unmissed
  <2> QED
    BY <1>1, <2>1, <2>3 DEF Covered, Trusted
<1>4. CASE CollectSend \/ CollectPanic
  BY <1>1, <1>4 DEF CollectSend, CollectPanic, Covered, Trusted, Unmissed
<1> QED
  BY <1>2, <1>3, <1>4 DEF Collect

LEMMA NextCovered == IInv /\ Covered /\ [Next]_vars => Covered'
<1> SUFFICES ASSUME IInv, Covered, [Next]_vars PROVE Covered'
  OBVIOUS
<1>1. CASE PollCollector
  BY <1>1 DEF PollCollector, Collected, taskVars, colVars, viewVars, Covered, Trusted, Unmissed
<1>2. CASE Collect
  BY <1>2, CollectCovered DEF Collect
<1>3. CASE CooldownElapses
  BY <1>3 DEF CooldownElapses, Covered, Trusted, Unmissed
<1>4. CASE NoEvent \/ NoError \/ NoDone \/ NoTick
  BY <1>4 DEF NoEvent, NoError, NoDone, NoTick, taskVars, colVars, viewVars, Covered, Trusted,
         Unmissed
<1>5. CASE SendError \/ SendDone
  BY <1>5 DEF SendError, SendDone, loopVars, colVars, viewVars, Covered, Trusted, Unmissed
<1>6. CASE Leave \/ Exited \/ UNCHANGED vars
  BY <1>6 DEF Leave, DrainComplete, DrainTimeout, DrawFails, Gone, CutOff, Collected, Exited,
         vars, taskVars, colVars, viewVars, Covered, Trusted, Unmissed
<1> QED
  BY <1>1, <1>2, <1>3, <1>4, <1>5, <1>6, EventCovered, LoopCovered, ExecuteCovered
     DEF Next, Loop

(* A bundle that has outlived no cooldown is shown only if, apart from the   *)
(* parts it could not read and shows empty, it is the disk at that moment    *)
(* (should_skip_ssh_refresh, the collector arm of run, collect_real_data).   *)
THEOREM OverwritesAreFresh == Spec => OverwriteIsFresh
<1>1. Init => Covered
  BY DEF Init, Covered, Trusted, Unmissed
<1>2. IInv /\ Covered /\ [Next]_vars => [Overwritten /\ ~stale => shown' = Visible(disk,
       blank')]_vars
  <2> SUFFICES ASSUME IInv, Covered, Next, Overwritten, ~stale
               PROVE  shown' = Visible(disk, blank')
    OBVIOUS
  <2> QED
    BY ShownAtRest DEF Covered, Trusted, Unmissed, Visible
<1> QED
  BY <1>1, <1>2, InitIInv, NextIInv, NextCovered, PTL DEF Spec, OverwriteIsFresh
-----------------------------------------------------------------------------
(***************************************************************************)
(* The pipeline implements the operator's queue: what is queued is what    *)
(* the task still has to execute, then what waits in the dashboard.        *)
(***************************************************************************)
LEMMA TailOfConcat ==
  ASSUME NEW s \in Seq(Ops), s # <<>>, NEW t \in Seq(Ops)
  PROVE  Tail(s \o t) = Tail(s) \o t /\ Head(s \o t) = Head(s) /\ s \o t # <<>>
<1>1. Len(s) \in Nat /\ Len(s) > 0 /\ Len(t) \in Nat /\ s \o t \in Seq(Ops)
  OBVIOUS
<1>2. Len(s \o t) = Len(s) + Len(t)
  OBVIOUS
<1>3. Tail(s) \in Seq(Ops) /\ Len(Tail(s)) = Len(s) - 1
  BY <1>1
<1>4. /\ Tail(s) \o t \in Seq(Ops) /\ Tail(s \o t) \in Seq(Ops)
      /\ Len(Tail(s) \o t) = Len(s) + Len(t) - 1
      /\ Len(Tail(s \o t)) = Len(s) + Len(t) - 1
  BY <1>1, <1>2, <1>3
<1>5. \A i \in 1..(Len(s) + Len(t) - 1) : Tail(s \o t)[i] = (Tail(s) \o t)[i]
  BY <1>1, <1>2, <1>3
<1>6. Tail(s \o t) = Tail(s) \o t
  BY <1>4, <1>5, SeqEqual
<1> QED
  BY <1>1, <1>2, <1>6

(* Flushing moves operations from the dashboard to the task, in order. *)
LEMMA FlushWaiting ==
  ASSUME IInv, mode # "exited", NEW q \in Seq(Ops), FlushSshOps(q)
  PROVE  batch' \o pending' = batch \o q
<1>1. CASE SpawnsBatch(q, inFlight)
  <2>1. batch = <<>> /\ batch' = q /\ pending' = <<>>
    BY <1>1, NothingInFlight DEF SpawnsBatch, FlushSshOps, SpawnBatch
  <2> QED
    BY <2>1
<1>2. CASE ~SpawnsBatch(q, inFlight)
  BY <1>2 DEF FlushSshOps
<1> QED
  BY <1>1, <1>2

LEMMA SubmitRefines ==
  ASSUME IInv, NEW n \in 1..MaxBatch, Submit(n)
  PROVE  Abstract!Submit
<1> DEFINE new == [i \in 1..n |-> submitted + i]
<1>0. n \in Nat /\ n > 0 /\ submitted \in 0..MaxOps /\ submitted + n <= MaxOps
  BY PipelineAssumption DEF Submit, IInv, TypeOK, PipelineAssumption
<1>1. new \in Seq(Ops) /\ Len(new) = n /\ n \in Nat /\ n > 0
  BY <1>0, NewOpsType
<1>2. batch \in Seq(Ops) /\ pending \in Seq(Ops)
  BY DEF IInv, TypeOK
<1>3. pending \o new \in Seq(Ops) /\ batch \o pending \in Seq(Ops)
  BY <1>1, <1>2
<1>4. batch' \o pending' = batch \o (pending \o new)
  BY <1>3, FlushWaiting DEF Submit, EventFrame
<1>5. batch \o (pending \o new) = (batch \o pending) \o new
  BY <1>1, <1>2, ConcatAssociative
<1>6. /\ mode = "running" /\ mode' = "running" /\ ran' = ran
      /\ submitted' = submitted + n
  BY DEF Submit, EventFrame
<1> QED
  BY <1>4, <1>5, <1>6 DEF Abstract!Submit

LEMMA ExecuteRefines ==
  ASSUME IInv, ExecuteOp
  PROVE  Abstract!Run
<1>1. /\ batch \in Seq(Ops) /\ pending \in Seq(Ops) /\ batch # <<>>
      /\ batch' = Tail(batch) /\ pending' = pending /\ ran' = Append(ran, Head(batch))
      /\ mode # "exited" /\ mode' = mode /\ submitted' = submitted
  BY DEF IInv, TypeOK, ExecuteOp, loopVars
<1>2. /\ Tail(batch \o pending) = Tail(batch) \o pending
      /\ Head(batch \o pending) = Head(batch) /\ batch \o pending # <<>>
  BY <1>1, TailOfConcat
<1> QED
  BY <1>1, <1>2 DEF Abstract!Run

LEMMA PlainEventRefines ==
  ASSUME IInv, OtherEvent \/ Navigate \/ Quit
  PROVE  [Abstract!Next]_(Abstract!vars)
<1>1. /\ mode = "running" /\ ran' = ran /\ mode' \in {"running", "draining"}
      /\ submitted' = submitted
      /\ FlushSshOps(pending) /\ pending \in Seq(Ops)
  BY DEF OtherEvent, Navigate, Quit, EventFrame, IInv, TypeOK
<1>2. batch' \o pending' = batch \o pending
  BY <1>1, FlushWaiting
<1> QED
  BY <1>1, <1>2 DEF Abstract!Next, Abstract!Leave, Abstract!vars

LEMMA RecvDoneRefines ==
  ASSUME IInv, RecvDone
  PROVE  UNCHANGED Abstract!vars
<1>1. /\ mode = "running" /\ mode' = mode /\ ran' = ran /\ doneQ > 0
      /\ submitted' = submitted
      /\ pending \in Seq(Ops) /\ batch \in Seq(Ops)
  BY DEF RecvDone, IInv, TypeOK
<1>2. batch' \o pending' = batch \o pending
  <2>1. CASE Decrement(inFlight) # 0 \/ ~SpawnsBatch(pending, 0)
    BY <2>1 DEF RecvDone, BatchEnded
  <2>2. CASE Decrement(inFlight) = 0 /\ SpawnsBatch(pending, 0)
    <3>1. batch' = pending /\ pending' = <<>>
      BY <2>2 DEF RecvDone, BatchEnded, SpawnBatch
    <3>2. Len(batch) \in Nat /\ doneQ \in Nat /\ inFlight \in Nat
      BY DEF IInv, TypeOK
    <3>3. Len(batch) = 0
      BY <1>1, <2>2, <3>2 DEF IInv, InFlightExact, Unreported, Decrement
    <3> QED
      BY <1>1, <3>1, <3>3
  <2> QED
    BY <2>1, <2>2
<1> QED
  BY <1>1, <1>2 DEF Abstract!vars

LEMMA DrainRefines ==
  ASSUME IInv, Leave
  PROVE  Abstract!Leave \/ Abstract!Drop
<1>1. /\ Gone
      /\ mode \in {"running", "draining"}
  BY DEF Leave, DrainComplete, DrainTimeout, DrawFails
<1>2. CASE mode = "running"
  BY <1>1, <1>2 DEF Gone, Abstract!Leave
<1>3. CASE mode = "draining"
  BY <1>1, <1>3 DEF Gone, Abstract!Drop
<1> QED
  BY <1>1, <1>2, <1>3

LEMMA QuietRefines ==
  ASSUME UNCHANGED <<submitted, batch, pending, ran, mode>>
  PROVE  UNCHANGED Abstract!vars
BY DEF Abstract!vars

LEMMA StepRefines == IInv /\ [Next]_vars => [Abstract!Next]_(Abstract!vars)
<1> SUFFICES ASSUME IInv, [Next]_vars PROVE [Abstract!Next]_(Abstract!vars)
  OBVIOUS
<1>1. CASE \E n \in 1..MaxBatch : Submit(n)
  BY <1>1, SubmitRefines DEF Abstract!Next
<1>2. CASE OtherEvent \/ Navigate \/ Quit
  BY <1>2, PlainEventRefines
<1>3. CASE ExecuteOp
  BY <1>3, ExecuteRefines DEF Abstract!Next
<1>4. CASE RecvDone
  BY <1>4, RecvDoneRefines
<1>5. CASE Leave
  BY <1>5, DrainRefines DEF Abstract!Next
<1>6. CASE NoEvent \/ NoError \/ NoDone \/ NoTick \/ PollCollector \/ RecvError
  BY <1>6, QuietRefines DEF NoEvent, NoError, NoDone, NoTick, PollCollector, RecvError, taskVars
<1>7. CASE Tick \/ Collect \/ CooldownElapses
  BY <1>7, QuietRefines
     DEF Tick, Collect, CollectRead, CollectNothing, CollectSend, CollectPanic,
         CooldownElapses, colFrame, taskVars
<1>8. CASE SendError \/ SendDone \/ Exited \/ UNCHANGED vars
  BY <1>8, QuietRefines DEF SendError, SendDone, loopVars, Exited, vars, taskVars
<1> QED
  BY <1>1, <1>2, <1>3, <1>4, <1>5, <1>6, <1>7, <1>8 DEF Next, Loop

(* Operations run in the order submitted, each once, and none is lost      *)
(* before the operator leaves.                                             *)
THEOREM PipelineRefinesQueue == Spec => ImplementsOpQueue
<1>1. Init => Abstract!Init
  BY DEF Init, Abstract!Init
<1> QED
  BY <1>1, InitIInv, NextIInv, StepRefines, PTL
     DEF Spec, ImplementsOpQueue, Abstract!Spec
-----------------------------------------------------------------------------
(***************************************************************************)
(* What has run, what the task holds and what waits are together all the   *)
(* operations submitted, in order.  Leaving cuts the last two off, so what *)
(* has run is stated by itself.                                            *)
(***************************************************************************)
Count(n) == [i \in 1..n |-> i]

QInv ==
  /\ mode # "exited" => ran \o (batch \o pending) = Count(submitted)
  /\ \A i \in DOMAIN ran : ran[i] = i
  /\ Len(ran) <= submitted

LEMMA CountType ==
  ASSUME NEW n \in 0..MaxOps
  PROVE  Count(n) \in Seq(Ops) /\ Len(Count(n)) = n
<1>1. n \in Nat /\ \A i \in 1..n : i \in Ops
  BY PipelineAssumption DEF Ops, PipelineAssumption
<1>2. Count(n) \in [1..n -> Ops]
  BY <1>1 DEF Count
<1> QED
  BY <1>1, <1>2 DEF Count

(* Counting on from where another count ended. *)
LEMMA CountExtends ==
  ASSUME NEW s \in 0..MaxOps, NEW n \in 1..MaxBatch, s + n <= MaxOps
  PROVE  Count(s) \o [i \in 1..n |-> s + i] = Count(s + n)
<1> DEFINE new == [i \in 1..n |-> s + i]
<1>1. s \in Nat /\ n \in Nat /\ s + n \in 0..MaxOps
  BY PipelineAssumption DEF PipelineAssumption
<1>2. /\ Count(s) \in Seq(Ops) /\ Len(Count(s)) = s
      /\ Count(s + n) \in Seq(Ops) /\ Len(Count(s + n)) = s + n
      /\ new \in Seq(Ops) /\ Len(new) = n
  BY <1>1, CountType, NewOpsType
<1> HIDE DEF new
<1>3. /\ Count(s) \o new \in Seq(Ops) /\ Len(Count(s) \o new) = s + n
      /\ \A i \in 1..(s + n) :
           (Count(s) \o new)[i] = IF i <= s THEN Count(s)[i] ELSE new[i - s]
  <2> DEFINE c == Count(s)
  <2>1. c \in Seq(Ops) /\ Len(c) = s /\ new \in Seq(Ops) /\ Len(new) = n
    BY <1>2
  <2> HIDE DEF c
  <2>2. /\ c \o new \in Seq(Ops) /\ Len(c \o new) = Len(c) + Len(new)
        /\ \A i \in 1..(Len(c) + Len(new)) :
             (c \o new)[i] = IF i <= Len(c) THEN c[i] ELSE new[i - Len(c)]
    BY <2>1, ConcatProperties, ZenonT(30)
  <2>3. /\ c \o new \in Seq(Ops) /\ Len(c \o new) = s + n
        /\ \A i \in 1..(s + n) :
             (c \o new)[i] = IF i <= s THEN c[i] ELSE new[i - s]
    BY <2>1, <2>2, ZenonT(30)
  <2> QED
    BY <2>3 DEF c
<1>4. ASSUME NEW i \in 1..(s + n)
      PROVE  (Count(s) \o new)[i] = Count(s + n)[i]
  <2>1. CASE i <= s
    <3>1. i \in 1..s /\ (Count(s) \o new)[i] = Count(s)[i]
      BY <1>1, <1>3, <2>1
    <3> QED
      BY <3>1 DEF Count
  <2>2. CASE i > s
    <3>1. i - s \in 1..n /\ s + (i - s) = i
      BY <1>1, <2>2
    <3>2. (Count(s) \o new)[i] = new[i - s]
      BY <1>1, <1>3, <2>2
    <3>3. new[i - s] = s + (i - s)
      BY <3>1 DEF new
    <3> QED
      BY <3>1, <3>2, <3>3 DEF Count
  <2>3. i <= s \/ i > s
    BY <1>1
  <2> QED
    BY <2>1, <2>2, <2>3
<1>5. \A i \in 1..Len(Count(s) \o new) : (Count(s) \o new)[i] = Count(s + n)[i]
  BY <1>3, <1>4
<1>6. Count(s) \o new = Count(s + n)
  BY <1>2, <1>3, <1>5, SeqEqual
<1> QED
  BY <1>6 DEF new

(* Moving the head of a queue to the end of what precedes it. *)
LEMMA HeadMoves ==
  ASSUME NEW r \in Seq(Ops), NEW q \in Seq(Ops), q # <<>>
  PROVE  Append(r, Head(q)) \o Tail(q) = r \o q
<1>1. /\ Len(r) \in Nat /\ Len(q) \in Nat /\ Len(q) > 0 /\ Head(q) \in Ops
      /\ Tail(q) \in Seq(Ops) /\ Len(Tail(q)) = Len(q) - 1
      /\ Append(r, Head(q)) \in Seq(Ops) /\ Len(Append(r, Head(q))) = Len(r) + 1
  OBVIOUS
<1> DEFINE left == Append(r, Head(q)) \o Tail(q)
<1>2. /\ left \in Seq(Ops) /\ Len(left) = Len(r) + Len(q)
      /\ r \o q \in Seq(Ops) /\ Len(r \o q) = Len(r) + Len(q)
  BY <1>1
<1>3. ASSUME NEW i \in 1..(Len(r) + Len(q)) PROVE left[i] = (r \o q)[i]
  <2>1. CASE i <= Len(r)
    BY <1>1, <2>1
  <2>2. CASE i = Len(r) + 1
    BY <1>1, <2>2
  <2>3. CASE i > Len(r) + 1
    <3>1. left[i] = Tail(q)[i - (Len(r) + 1)]
      BY <1>1, <2>3
    <3>2. Tail(q)[i - (Len(r) + 1)] = q[i - Len(r)]
      BY <1>1, <2>3
    <3> QED
      BY <1>1, <2>3, <3>1, <3>2
  <2> QED
    BY <1>1, <2>1, <2>2, <2>3
<1> QED
  BY <1>2, <1>3, SeqEqual

(* The steps that the queue distinguishes. *)
Queue == batch \o pending

LEMMA QueueStep ==
  ASSUME IInv, [Next]_vars, mode' # "exited"
  PROVE  /\ mode # "exited"
         /\ \/ \E n \in 1..MaxBatch :
                 /\ submitted + n <= MaxOps /\ submitted' = submitted + n
                 /\ Queue' = Queue \o [i \in 1..n |-> submitted + i]
                 /\ ran' = ran
            \/ /\ batch # <<>> /\ submitted' = submitted
               /\ Queue # <<>> /\ Head(Queue) = Head(batch) /\ Queue' = Tail(Queue)
               /\ ran' = Append(ran, Head(batch))
            \/ UNCHANGED <<submitted, Queue, ran>>
<1>0. batch \in Seq(Ops) /\ pending \in Seq(Ops)
  BY DEF IInv, TypeOK
<1>1. ASSUME NEW n \in 1..MaxBatch, Submit(n)
      PROVE  /\ mode # "exited" /\ submitted + n <= MaxOps
             /\ submitted' = submitted + n /\ ran' = ran
             /\ Queue' = Queue \o [i \in 1..n |-> submitted + i]
  <2> DEFINE new == [i \in 1..n |-> submitted + i]
  <2>1. /\ mode = "running" /\ submitted + n <= MaxOps
        /\ submitted' = submitted + n /\ ran' = ran /\ FlushSshOps(pending \o new)
    BY <1>1 DEF Submit, EventFrame
  <2>2. new \in Seq(Ops)
    BY <2>1, NewOpsType DEF IInv, TypeOK
  <2>3. pending \o new \in Seq(Ops)
    BY <1>0, <2>2
  <2>4. batch' \o pending' = batch \o (pending \o new)
    BY <2>1, <2>3, FlushWaiting
  <2>5. batch \o (pending \o new) = (batch \o pending) \o new
    BY <1>0, <2>2, ConcatAssociative
  <2> QED
    BY <2>1, <2>4, <2>5 DEF Queue
<1>2. CASE OtherEvent \/ Navigate \/ Quit
  <2>1. mode = "running" /\ ran' = ran /\ submitted' = submitted /\ FlushSshOps(pending)
    BY <1>2 DEF OtherEvent, Navigate, Quit, EventFrame
  <2> QED
    BY <1>0, <2>1, FlushWaiting DEF Queue
<1>3. CASE RecvDone
  <2>1. UNCHANGED Abstract!vars /\ mode = "running" /\ mode' = "running"
    BY <1>3, RecvDoneRefines DEF RecvDone
  <2> QED
    BY <2>1 DEF Abstract!vars, Queue
<1>4. CASE ExecuteOp
  <2>1. /\ mode # "exited" /\ batch # <<>> /\ batch' = Tail(batch) /\ pending' = pending
        /\ submitted' = submitted /\ ran' = Append(ran, Head(batch))
    BY <1>4 DEF ExecuteOp, loopVars
  <2> QED
    BY <1>0, <2>1, TailOfConcat DEF Queue
<1>5. CASE Leave \/ Exited
  BY <1>5 DEF Leave, DrainComplete, DrainTimeout, DrawFails, Gone, CutOff, Collected, Exited, vars
<1>6. CASE NoEvent \/ NoError \/ NoDone \/ NoTick \/ PollCollector \/ RecvError
  BY <1>6 DEF NoEvent, NoError, NoDone, NoTick, PollCollector, RecvError, taskVars, Queue
<1>7. CASE Tick \/ Collect \/ CooldownElapses
  BY <1>7 DEF Tick, Collect, CollectRead, CollectNothing, CollectSend, CollectPanic,
         CooldownElapses, colFrame,
              taskVars, Queue
<1>8. CASE SendError \/ SendDone \/ UNCHANGED vars
  BY <1>8 DEF SendError, SendDone, loopVars, vars, taskVars, Queue
<1> QED
  BY <1>1, <1>2, <1>3, <1>4, <1>5, <1>6, <1>7, <1>8 DEF Next, Loop

(* The operation that the task executes next is the one after those run. *)
LEMMA HeadIsNext ==
  ASSUME IInv, QInv, mode # "exited", batch # <<>>
  PROVE  Head(batch) = Len(ran) + 1 /\ Len(ran) + 1 <= submitted
<1>1. /\ batch \in Seq(Ops) /\ pending \in Seq(Ops) /\ ran \in Seq(Ops)
      /\ submitted \in 0..MaxOps /\ submitted \in Nat
  BY PipelineAssumption DEF IInv, TypeOK, PipelineAssumption
<1>2. Queue \in Seq(Ops) /\ Queue # <<>> /\ Head(Queue) = Head(batch)
  BY <1>1, TailOfConcat DEF Queue
<1>3. ran \o Queue = Count(submitted)
  BY DEF QInv, Queue
<1>4. Len(ran) \in Nat /\ Len(Queue) \in Nat /\ Len(Queue) > 0
  BY <1>1, <1>2
<1>5. Len(ran \o Queue) = Len(ran) + Len(Queue)
  BY <1>1, <1>2
<1>6. submitted = Len(ran) + Len(Queue)
  BY <1>1, <1>3, <1>5, CountType
<1>7. (ran \o Queue)[Len(ran) + 1] = Queue[1]
  BY <1>1, <1>2, <1>4
<1>8. Count(submitted)[Len(ran) + 1] = Len(ran) + 1
  BY <1>4, <1>6 DEF Count
<1> QED
  BY <1>2, <1>3, <1>4, <1>6, <1>7, <1>8

(* Leaving cuts the queue off and changes nothing that has run. *)
LEMMA ExitKeeps ==
  ASSUME [Next]_vars, mode' = "exited"
  PROVE  UNCHANGED <<submitted, ran>>
<1>1. CASE Leave \/ Exited \/ UNCHANGED vars
  BY <1>1 DEF Leave, DrainComplete, DrainTimeout, DrawFails, Gone, CutOff, Collected, Exited,
         vars, taskVars
<1>2. CASE (\E n \in 1..MaxBatch : Submit(n)) \/ OtherEvent \/ Navigate \/ Quit
  BY <1>2 DEF Submit, OtherEvent, Navigate, Quit, EventFrame
<1>3. CASE NoEvent \/ NoError \/ NoDone \/ NoTick \/ PollCollector \/ RecvError \/ RecvDone
  BY <1>3 DEF NoEvent, NoError, NoDone, NoTick, PollCollector, RecvError, RecvDone
<1>4. CASE Tick \/ Collect \/ CooldownElapses
  BY <1>4 DEF Tick, Collect, CollectRead, CollectNothing, CollectSend, CollectPanic,
         CooldownElapses, colFrame,
              taskVars
<1>5. CASE ExecuteOp \/ SendError \/ SendDone
  BY <1>5 DEF ExecuteOp, SendError, SendDone
<1> QED
  BY <1>1, <1>2, <1>3, <1>4, <1>5 DEF Next, Loop

LEMMA NextQInv == IInv /\ QInv /\ [Next]_vars => QInv'
<1> SUFFICES ASSUME IInv, QInv, [Next]_vars PROVE QInv'
  OBVIOUS
<1>1. /\ batch \in Seq(Ops) /\ pending \in Seq(Ops) /\ ran \in Seq(Ops)
      /\ submitted \in 0..MaxOps /\ submitted \in Nat /\ Len(ran) \in Nat
  BY PipelineAssumption DEF IInv, TypeOK, PipelineAssumption
<1>2. Queue \in Seq(Ops)
  BY <1>1 DEF Queue
<1>3. CASE mode' = "exited"
  <2>1. UNCHANGED <<submitted, ran>>
    BY <1>3, ExitKeeps
  <2> QED
    BY <1>3, <2>1 DEF QInv
<1>4. CASE mode' # "exited"
  <2>0. mode # "exited" /\ ran \o Queue = Count(submitted)
    BY <1>4, QueueStep DEF QInv, Queue
  <2>1. ASSUME NEW n \in 1..MaxBatch, submitted + n <= MaxOps,
               submitted' = submitted + n, ran' = ran,
               Queue' = Queue \o [i \in 1..n |-> submitted + i]
        PROVE  QInv'
    <3> DEFINE new == [i \in 1..n |-> submitted + i]
    <3>0. n \in Nat /\ submitted + n <= MaxOps
      BY <2>1, PipelineAssumption DEF PipelineAssumption
    <3>1. new \in Seq(Ops)
      BY <1>1, <3>0, NewOpsType
    <3>2. Count(submitted) \o new = Count(submitted + n)
      BY <1>1, <3>0, CountExtends
    <3>3. /\ ran \o (Queue \o new) = (ran \o Queue) \o new
          /\ Queue' = Queue \o new
      <4> HIDE DEF new
      <4>1. ran \o (Queue \o new) = (ran \o Queue) \o new
        <5>1. ran \in Seq(Ops) /\ Queue \in Seq(Ops) /\ new \in Seq(Ops)
          BY <1>1, <1>2, <3>1
        <5> QED
          BY <5>1, ConcatAssociative
      <4> QED
        BY <2>1, <4>1 DEF new
    <3>4. ran' \o Queue' = Count(submitted')
      BY <2>0, <2>1, <3>2, <3>3
    <3>5. Len(ran') <= submitted' /\ \A i \in DOMAIN ran' : ran'[i] = i
      BY <1>1, <2>1, <3>0 DEF QInv
    <3> QED
      BY <3>4, <3>5 DEF QInv, Queue, Count
  <2>2. ASSUME batch # <<>>, submitted' = submitted,
               Queue # <<>>, Head(Queue) = Head(batch), Queue' = Tail(Queue),
               ran' = Append(ran, Head(batch))
        PROVE  QInv'
    <3>1. Head(batch) = Len(ran) + 1 /\ Len(ran) + 1 <= submitted
      BY <2>0, <2>2, HeadIsNext
    <3>2. ran' \o Queue' = ran \o Queue
      BY <1>1, <1>2, <2>2, HeadMoves
    <3>3. Head(batch) \in Ops
      BY <1>1, <2>2
    <3>4. /\ Len(ran') = Len(ran) + 1
          /\ \A i \in 1..(Len(ran) + 1) :
               ran'[i] = IF i = Len(ran) + 1 THEN Head(batch) ELSE ran[i]
      BY <1>1, <2>2, <3>3
    <3>5. DOMAIN ran' = 1..(Len(ran) + 1) /\ DOMAIN ran = 1..Len(ran)
      BY <1>1, <2>2, <3>3
    <3>6. \A i \in DOMAIN ran' : ran'[i] = i
      BY <1>1, <3>1, <3>4, <3>5 DEF QInv
    <3> QED
      BY <2>0, <2>2, <3>1, <3>2, <3>4, <3>6 DEF QInv, Queue, Count
  <2>3. CASE UNCHANGED <<submitted, Queue, ran>>
    BY <2>0, <2>3 DEF QInv, Queue, Count
  <2> QED
    BY <1>4, <2>1, <2>2, <2>3, QueueStep
<1> QED
  BY <1>3, <1>4

LEMMA InitQInv == Init => QInv
<1> SUFFICES ASSUME Init PROVE QInv
  OBVIOUS
<1>1. ran = <<>> /\ batch = <<>> /\ pending = <<>> /\ submitted = 0
  BY DEF Init
<1>2. <<>> \o (<<>> \o <<>>) = <<>> /\ Len(<<>>) = 0 /\ DOMAIN <<>> = {}
  OBVIOUS
<1>3. Count(0) = <<>>
  <2>1. Count(0) \in Seq(Ops) /\ Len(Count(0)) = 0
    BY PipelineAssumption, CountType DEF PipelineAssumption
  <2> QED
    BY <2>1
<1> QED
  BY <1>1, <1>2, <1>3 DEF QInv

(* Until the application is left every operation submitted is run, held by *)
(* the task or waiting, once and in order; what has run is always the      *)
(* first so many (flush_ssh_ops, the write task).                          *)
THEOREM EveryOperationRunsOnce == Spec => []EveryOpOnce
<1>1. IInv /\ QInv => EveryOpOnce
  <2> SUFFICES ASSUME IInv, QInv PROVE EveryOpOnce
    OBVIOUS
  <2>0. ran \in Seq(Ops) /\ batch \in Seq(Ops) /\ pending \in Seq(Ops)
    BY DEF IInv, TypeOK
  <2>1. ran \o (batch \o pending) = (ran \o batch) \o pending
    BY <2>0, ConcatAssociative
  <2> QED
    BY <2>1 DEF QInv, EveryOpOnce, Count
<1> QED
  BY <1>1, InitIInv, NextIInv, InitQInv, NextQInv, PTL DEF Spec

(* Only the task and the abort at the exit write to disk. *)
LEMMA QuietDisk ==
  ASSUME IInv, [Next]_vars, disk' # disk
  PROVE  \/ ExecuteOp
         \/ Leave /\ batch # <<>>
BY DEF Next, Loop, Submit, OtherEvent, Navigate, Quit, EventFrame, NoEvent, NoError, NoDone,
       NoTick, PollCollector, RecvError, RecvDone, Tick, Collect, CollectRead, CollectNothing,
              CollectSend, CollectPanic, CooldownElapses, colFrame, SendError, SendDone,
              Leave, DrainComplete, DrainTimeout, DrawFails, Gone, CutOff, Collected, Exited,
              vars, taskVars

(* Neither the number of operations submitted nor what has run shrinks, and *)
(* nothing is undone by leaving.                                            *)
LEMMA Onwards ==
  ASSUME IInv, [Next]_vars
  PROVE  /\ submitted' >= submitted /\ Len(ran') >= Len(ran)
         /\ mode = "exited" => mode' = "exited"
<1>1. ran \in Seq(Ops) /\ submitted \in Nat /\ Len(ran) \in Nat
  BY PipelineAssumption DEF IInv, TypeOK, PipelineAssumption
<1>2. CASE UNCHANGED <<submitted, ran>>
  <2>1. mode = "exited" => mode' = "exited"
    BY QueueStep
  <2> QED
    BY <1>1, <1>2, <2>1
<1>3. CASE mode' = "exited"
  <2>1. UNCHANGED <<submitted, ran>>
    BY <1>3, ExitKeeps
  <2> QED
    BY <1>1, <1>3, <2>1
<1>4. CASE mode' # "exited"
  <2>1. ASSUME NEW n \in 1..MaxBatch, submitted' = submitted + n, ran' = ran
        PROVE  submitted' >= submitted /\ Len(ran') >= Len(ran)
    BY <1>1, <2>1, PipelineAssumption DEF PipelineAssumption
  <2>2. ASSUME batch # <<>>, submitted' = submitted, ran' = Append(ran, Head(batch))
        PROVE  submitted' >= submitted /\ Len(ran') >= Len(ran)
    <3>1. Head(batch) \in Ops
      BY <2>2 DEF IInv, TypeOK
    <3> QED
      BY <1>1, <2>2, <3>1
  <2> QED
    BY <1>2, <1>4, <2>1, <2>2, QueueStep
<1> QED
  BY <1>3, <1>4

LEMMA NextDiskInOrder ==
  ASSUME IInv, QInv, DiskInOrder, [Next]_vars
  PROVE  DiskInOrder'
<1>1. /\ ran \in Seq(Ops) /\ Len(ran) \in Nat /\ submitted \in Nat /\ disk \subseteq Ops
      /\ ran' \in Seq(Ops) /\ Len(ran') \in Nat /\ submitted' \in Nat
      /\ \A op \in Ops : op \in Nat
  <2>1. TypeOK /\ TypeOK'
    BY NextType DEF IInv
  <2>2. /\ ran \in Seq(Ops) /\ Len(ran) \in Nat /\ submitted \in Nat /\ disk \subseteq Ops
    BY <2>1, PipelineAssumption DEF TypeOK, PipelineAssumption
  <2>3. ran' \in Seq(Ops) /\ Len(ran') \in Nat /\ submitted' \in Nat
    BY <2>1, PipelineAssumption DEF TypeOK, PipelineAssumption
  <2>4. \A op \in Ops : op \in Nat
    BY PipelineAssumption DEF Ops, PipelineAssumption
  <2> QED
    BY <2>2, <2>3, <2>4
<1>2. submitted' >= submitted /\ Len(ran') >= Len(ran)
  BY Onwards
<1>3. ASSUME NEW op \in disk
      PROVE  /\ op <= submitted'
             /\ op <= Len(ran') + (IF mode' = "exited" THEN 1 ELSE 0)
  <2>1. /\ op \in Nat /\ op <= submitted
        /\ op <= Len(ran) + (IF mode = "exited" THEN 1 ELSE 0)
    BY <1>1 DEF DiskInOrder
  <2>2. mode = "exited" => mode' = "exited"
    BY Onwards
  <2> QED
    BY <1>1, <1>2, <2>1, <2>2
<1>4. CASE disk' = disk
  BY <1>3, <1>4 DEF DiskInOrder
<1>5. CASE disk' # disk /\ ExecuteOp
  <2>1. /\ mode # "exited" /\ batch # <<>> /\ submitted' = submitted
        /\ ran' = Append(ran, Head(batch)) /\ disk' \subseteq disk \cup {Head(batch)}
    BY <1>5 DEF ExecuteOp, loopVars
  <2>2. Head(batch) = Len(ran) + 1 /\ Len(ran) + 1 <= submitted
    BY <2>1, HeadIsNext
  <2>3. Head(batch) \in Ops
    BY <2>1 DEF IInv, TypeOK
  <2>4. Len(ran') = Len(ran) + 1
    BY <1>1, <2>1, <2>3
  <2>5. Head(batch) <= submitted' /\ Head(batch) <= Len(ran')
    BY <1>1, <2>1, <2>2, <2>4
  <2>6. ASSUME NEW op \in disk', op \notin disk PROVE op = Head(batch)
    BY <2>1, <2>6
  <2>7. Head(batch) <= Len(ran') + (IF mode' = "exited" THEN 1 ELSE 0)
    BY <1>1, <2>2, <2>4
  <2> QED
    BY <1>3, <2>5, <2>6, <2>7 DEF DiskInOrder
<1>6. CASE disk' # disk /\ Leave /\ batch # <<>>
  <2>1. /\ mode # "exited" /\ mode' = "exited" /\ submitted' = submitted /\ ran' = ran
        /\ disk' = disk \cup {Head(batch)}
    BY <1>6 DEF Leave, DrainComplete, DrainTimeout, DrawFails, Gone, CutOff
  <2>2. Head(batch) = Len(ran) + 1 /\ Len(ran) + 1 <= submitted
    BY <1>6, <2>1, HeadIsNext
  <2>3. /\ Head(batch) <= submitted'
        /\ Head(batch) <= Len(ran') + (IF mode' = "exited" THEN 1 ELSE 0)
    BY <1>1, <2>1, <2>2
  <2>4. ASSUME NEW op \in disk', op \notin disk PROVE op = Head(batch)
    BY <2>1, <2>4
  <2> QED
    BY <1>3, <2>3, <2>4 DEF DiskInOrder
<1> QED
  BY <1>4, <1>5, <1>6, QuietDisk

(* The disk holds nothing that was not submitted, nothing that waits behind *)
(* an operation still to run and, once the task was aborted, at most the    *)
(* operation it was executing (execute_op, the exit path of run).           *)
THEOREM DiskFollowsTheOrder == Spec => []DiskInOrder
<1>1. Init => DiskInOrder
  BY DEF Init, DiskInOrder
<1> QED
  BY <1>1, InitIInv, NextIInv, InitQInv, NextQInv, NextDiskInOrder, PTL DEF Spec
-----------------------------------------------------------------------------
(***************************************************************************)
(* What a bundle shows.  Without failures the disk is exactly what has run *)
(* until the application is left.                                          *)
(***************************************************************************)
HasRun == {ran[i] : i \in DOMAIN ran}

DiskIsRun == Faults = {} /\ mode # "exited" => disk = HasRun

LEMMA NextDiskIsRun ==
  ASSUME IInv, DiskIsRun, [Next]_vars
  PROVE  DiskIsRun'
<1> SUFFICES ASSUME Faults = {}, mode' # "exited" PROVE disk' = HasRun'
  BY DEF DiskIsRun, HasRun
<1>1. mode # "exited" /\ disk = HasRun
  BY Onwards DEF DiskIsRun
<1>2. CASE ExecuteOp
  <2>1. batch # <<>> /\ ran' = Append(ran, Head(batch)) /\ disk' = disk \cup {Head(batch)}
    BY <1>2 DEF ExecuteOp
  <2>2. ran \in Seq(Ops) /\ Len(ran) \in Nat /\ Head(batch) \in Ops
    BY <2>1 DEF IInv, TypeOK
  <2>3. /\ DOMAIN ran = 1..Len(ran) /\ DOMAIN ran' = 1..(Len(ran) + 1)
        /\ \A i \in 1..Len(ran) : ran'[i] = ran[i]
        /\ ran'[Len(ran) + 1] = Head(batch)
    BY <2>1, <2>2
  <2>4. 1..(Len(ran) + 1) = (1..Len(ran)) \cup {Len(ran) + 1}
    BY <2>2
  <2>5. HasRun' = HasRun \cup {Head(batch)}
    BY <2>3, <2>4 DEF HasRun
  <2> QED
    BY <1>1, <2>1, <2>5
<1>3. CASE ~ExecuteOp
  <2>1. disk' = disk
    <3>1. ~Leave
      BY DEF Leave, DrainComplete, DrainTimeout, DrawFails, Gone
    <3> QED
      BY <1>3, <3>1, QuietDisk
  <2>2. ran' = ran
    BY <1>3 DEF Next, Loop, Submit, OtherEvent, Navigate, Quit, EventFrame, NoEvent, NoError,
       NoDone, NoTick, PollCollector, RecvError, RecvDone, Tick, Collect, CollectRead,
              CollectNothing, CollectSend, CollectPanic, CooldownElapses, colFrame, SendError,
              SendDone, Leave, DrainComplete, DrainTimeout, DrawFails, Gone, CutOff,
              Collected, Exited, vars, taskVars
  <2> QED
    BY <1>1, <2>1, <2>2 DEF HasRun
<1> QED
  BY <1>2, <1>3

(* With an empty task, what was submitted has run or waits, and never both. *)
LEMMA RunOrWaiting ==
  ASSUME IInv, QInv, mode # "exited", batch = <<>>
  PROVE  /\ 1..Len(ran) = (1..submitted) \ Waiting
         /\ HasRun = 1..Len(ran)
<1>1. /\ ran \in Seq(Ops) /\ pending \in Seq(Ops) /\ submitted \in 0..MaxOps
      /\ submitted \in Nat /\ Len(ran) \in Nat /\ Len(pending) \in Nat
  BY PipelineAssumption DEF IInv, TypeOK, PipelineAssumption
<1>2. <<>> \o pending = pending
  BY <1>1
<1>3. ran \o pending = Count(submitted)
  BY <1>2 DEF QInv
<1>4. submitted = Len(ran) + Len(pending)
  <2>1. Len(ran \o pending) = Len(ran) + Len(pending)
    BY <1>1
  <2> QED
    BY <1>1, <1>3, <2>1, CountType
<1>5. ASSUME NEW i \in 1..Len(pending) PROVE pending[i] = Len(ran) + i
  <2>1. (ran \o pending)[Len(ran) + i] = pending[i]
    BY <1>1
  <2>2. Count(submitted)[Len(ran) + i] = Len(ran) + i
    BY <1>1, <1>4 DEF Count
  <2> QED
    BY <1>3, <2>1, <2>2
<1>6. DOMAIN pending = 1..Len(pending) /\ DOMAIN ran = 1..Len(ran)
  BY <1>1
<1>7. Waiting = {Len(ran) + i : i \in 1..Len(pending)}
  BY <1>5, <1>6 DEF Waiting
<1>8. ASSUME NEW op \in 1..submitted PROVE op \in Waiting <=> op > Len(ran)
  <2>1. CASE op > Len(ran)
    <3>1. op - Len(ran) \in 1..Len(pending) /\ op = Len(ran) + (op - Len(ran))
      BY <1>1, <1>4, <2>1
    <3> QED
      BY <1>7, <2>1, <3>1
  <2>2. CASE ~(op > Len(ran))
    BY <1>1, <1>7, <2>2
  <2> QED
    BY <2>1, <2>2
<1>9. 1..Len(ran) = (1..submitted) \ Waiting
  BY <1>1, <1>4, <1>8
<1>10. HasRun = 1..Len(ran)
  BY <1>6 DEF QInv, HasRun
<1> QED
  BY <1>9, <1>10

(* A fresh bundle never shows an edit that still waits, and without failures *)
(* of operations it leaves out exactly the edits that wait and those of the  *)
(* parts that could not be read: nothing else vanishes from the view (the    *)
(* collector arm of run, should_skip_ssh_refresh, collect_real_data).        *)
THEOREM NoEditsVanish == Spec => NoEditVanishes
<1>1. Init => DiskInOrder /\ Covered /\ DiskIsRun
  BY DEF Init, DiskInOrder, Covered, Trusted, DiskIsRun, HasRun
<1>2. IInv /\ QInv /\ Covered /\ DiskInOrder /\ DiskIsRun /\ [Next]_vars
        => [Overwritten /\ ~stale =>
              /\ shown' \subseteq (1..submitted) \ Waiting
              /\ Faults = {} => shown' = Visible((1..submitted) \ Waiting, blank')]_vars
  <2> SUFFICES ASSUME IInv, QInv, Covered, DiskInOrder, DiskIsRun, Next, Overwritten, ~stale
               PROVE  /\ shown' \subseteq (1..submitted) \ Waiting
                      /\ Faults = {} => shown' = Visible((1..submitted) \ Waiting, blank')
    OBVIOUS
  <2>1. mode = "running" /\ shown' = Visible(disk, blank') /\ inFlight = 0
    BY ShownAtRest DEF Covered, Trusted, Unmissed, Visible
  <2>2. batch = <<>>
    BY <2>1, NothingInFlight
  <2>3. /\ 1..Len(ran) = (1..submitted) \ Waiting
        /\ HasRun = 1..Len(ran)
    BY <2>1, <2>2, RunOrWaiting
  <2>4. disk \subseteq 1..Len(ran)
    <3>1. ASSUME NEW op \in disk PROVE op \in 1..Len(ran)
      <4>1. op \in Nat /\ op >= 1 /\ Len(ran) \in Nat
        BY PipelineAssumption DEF IInv, TypeOK, Ops, PipelineAssumption
      <4>2. op <= Len(ran)
        BY <2>1, <4>1 DEF DiskInOrder
      <4> QED
        BY <4>1, <4>2
    <3> QED
      BY <3>1
  <2>5. shown' \subseteq disk
    BY <2>1 DEF Visible
  <2>6. Faults = {} => disk = HasRun
    BY <2>1 DEF DiskIsRun
  <2> QED
    BY <2>1, <2>3, <2>4, <2>5, <2>6
<1> QED
  BY <1>1, <1>2, InitIInv, NextIInv, InitQInv, NextQInv, NextCovered, NextDiskInOrder,
     NextDiskIsRun, PTL DEF Spec, NoEditVanishes
=============================================================================
