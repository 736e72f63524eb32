--------------------------- MODULE AppsFacade_proofs ---------------------------
(***************************************************************************)
(* Proofs about AppsFacade, for any applications, batches and number of    *)
(* dropped calls.                                                          *)
(***************************************************************************)
EXTENDS AppsFacade, SequenceTheorems, TLAPS

(* What was ever recorded was installed or adopted by toride. *)
Owned ==
  /\ records \subseteq claimed
  /\ doc = Unreadable \/ doc \subseteq claimed
  /\ \A s \in Slots : saves[s] # None => saves[s].snap \subseteq claimed
  /\ at = "verify" /\ verb # "uninstall" => item \in claimed

(* A call runs in a facade that was built, over a document it could read. *)
Placed ==
  /\ ~up => at = "idle" /\ ~Underway
  /\ up => doc # Unreadable
  /\ verb \in {"update", "adopt"} => Len(todo) = 1
  /\ verb = "adopt" => at \in {"foreign", "save"}

(* At most one save under way is of the ledger as it is; the others are older. *)
Ordered ==
  /\ \A s \in Slots : saves[s] # None /\ ~saves[s].stale =>
       /\ at # "save" /\ saves[s].snap = records
  /\ at = "save" /\ verb = "adopt" =>
       /\ item \in records
       /\ ~Underway /\ ~lost => doc = records \ {item}

(* What the call has learnt of the host. *)
Informed ==
  at # "idle" =>
    /\ host \subseteq seen /\ Apps \ host \subseteq missed
    /\ listing # None => listing \subseteq seen /\ Listed \ listing \subseteq missed

(* On what the item in hand has come this far. *)
Founded ==
  /\ at = "foreign" => item \notin records
  /\ at = "run" /\ verb = "uninstall" /\ ~insist => item \in records
  /\ at \in {"run", "verify", "save"} /\ verb = "ensure" /\ ~insist => item \in missed
  /\ at = "resolving" /\ verb = "ensure" /\ ~insist /\ item \in records => item \in missed
  /\ at = "save" /\ verb = "adopt" => item \in seen

IInv ==
  TypeOK /\ Owned /\ Placed /\ Ordered /\ Informed /\ Founded /\ Durable /\ AnswersCurrent

(* What a wait leaves of the call. *)
LEMMA AwaitFacts ==
  ASSUME TypeOK, at # "idle", NEW p, Await(p)
  PROVE  /\ todo' = todo /\ todo \in Seq(Apps) /\ Len(todo) <= MaxBatch /\ todo # <<>>
         /\ verb' = verb /\ verb \in Verbs /\ insist' = insist /\ at' = p /\ answer' = None
         /\ item' = item /\ item \in Apps
BY HeadTailProperties DEF Await, TypeOK, item

(* What an answer leaves of it: the next item, at its first wait. *)
LEMMA AnswerFacts ==
  ASSUME TypeOK, at # "idle", NEW is \in Answers, Answer(is)
  PROVE  /\ todo' \in Seq(Apps) /\ Len(todo') <= MaxBatch /\ insist' = insist
         /\ item \in Apps /\ answer' = [app |-> item, is |-> is]
         /\ verb' \in Verbs \cup {"none"} /\ verb \in Verbs
         /\ at' \in {"idle", "recorded", "resolving", "foreign", "run"}
         /\ (at' = "idle" <=> todo' = <<>>) /\ (at' = "idle" <=> verb' = "none")
         /\ at' # "idle" => verb' = verb /\ Len(todo) # 1
         /\ at' = "foreign" => verb = "adopt"
         /\ at' = "run" => verb = "uninstall" /\ item' \in records
         /\ at' = "resolving" => item' \notin records
<1>1. todo \in Seq(Apps) /\ todo # <<>> /\ verb \in Verbs /\ Len(todo) <= MaxBatch
  BY DEF TypeOK
<1>2. /\ item \in Apps /\ Tail(todo) \in Seq(Apps) /\ Len(Tail(todo)) = Len(todo) - 1
      /\ Len(todo) \in Nat
  BY <1>1, HeadTailProperties, LenProperties DEF item
<1>3. Len(Tail(todo)) <= MaxBatch
  BY <1>1, <1>2, AppsAssumption DEF AppsAssumption
<1>4. \A v \in Verbs : \A app :
        /\ FirstAwait(v, app) \in {"recorded", "resolving", "foreign", "run"}
        /\ FirstAwait(v, app) = "foreign" => v = "adopt"
        /\ FirstAwait(v, app) = "run" => v = "uninstall" /\ app \in records
        /\ FirstAwait(v, app) = "resolving" => app \notin records
  BY DEF FirstAwait, Verbs
<1>5. Tail(todo) # <<>> => Len(todo) > 1
  <2>1. Tail(todo) # <<>> => Len(Tail(todo)) \in Nat \ {0}
    BY <1>2, EmptySeq
  <2> QED
    BY <1>2, <2>1
<1>6. CASE Tail(todo) = <<>>
  BY <1>1, <1>2, <1>3, <1>6 DEF Answer, Verbs
<1>7. CASE Tail(todo) # <<>>
  BY <1>1, <1>2, <1>3, <1>4, <1>5, <1>7 DEF Answer, Verbs, item
<1> QED
  BY <1>6, <1>7

(* A save starts; the saves under way become old. *)
LEMMA SaveFacts ==
  ASSUME TypeOK, SaveLedger
  PROVE  /\ saves' \in [Slots -> {None} \cup Saves]
         /\ \A s \in Slots : saves'[s] = None <=> saves[s] = None
         /\ \A s \in Slots : saves[s] # None =>
              saves[s] \in Saves /\ saves'[s].snap = saves[s].snap /\ saves'[s].stale
<1>1. \A s \in Slots : saves[s] # None => saves[s] \in Saves
  BY DEF TypeOK
<1>2. ASSUME NEW r \in Saves
      PROVE  /\ [r EXCEPT !.stale = TRUE] \in Saves
             /\ [r EXCEPT !.stale = TRUE].snap = r.snap
             /\ [r EXCEPT !.stale = TRUE].stale = TRUE
             /\ [r EXCEPT !.stale = TRUE] # None
  <2>1. /\ [r EXCEPT !.stale = TRUE] \in Saves
        /\ [r EXCEPT !.stale = TRUE].snap = r.snap
        /\ [r EXCEPT !.stale = TRUE].stale = TRUE
    BY DEF Saves
  <2>2. None \notin Saves
    BY AppsAssumption DEF AppsAssumption, Saves
  <2> QED
    BY <2>1, <2>2
<1> QED
  BY <1>1, <1>2 DEF SaveLedger

(* A call that is over has no items; a process that is gone has no saves. *)
LEMMA OverFacts ==
  /\ <<>> \in Seq(Apps) /\ Len(<<>>) <= MaxBatch
  /\ [s \in Slots |-> None] \in [Slots -> {None} \cup Saves]
BY EmptySeq, AppsAssumption DEF AppsAssumption

(* A record's own identifiers are asked for. *)
LEMMA ProbeRecordIInv ==
  ASSUME IInv, ProbeRecord
  PROVE  IInv'
<1> USE DEF IInv, history, call, vars
<1>1. CASE Answer("failed")
  <2>1. /\ todo' \in Seq(Apps) /\ Len(todo') <= MaxBatch /\ insist' = insist
        /\ item \in Apps /\ answer' = [app |-> item, is |-> "failed"] /\ "failed" \in Answers
        /\ verb' \in Verbs \cup {"none"} /\ verb \in Verbs
        /\ at' \in {"idle", "recorded", "resolving", "foreign", "run"}
        /\ (at' = "idle" <=> todo' = <<>>) /\ (at' = "idle" <=> verb' = "none")
        /\ at' # "idle" => verb' = verb /\ Len(todo) # 1
        /\ at' = "foreign" => verb = "adopt"
        /\ at' = "run" => verb = "uninstall" /\ item' \in records
        /\ at' = "resolving" => item' \notin records
    BY <1>1, AnswerFacts DEF ProbeRecord, Answers
  <2>2. TypeOK'
    BY <1>1, <2>1 DEF TypeOK, ProbeRecord
  <2>3. Owned'
    BY <1>1, <2>1 DEF Owned, ProbeRecord
  <2>4. Placed'
    BY <1>1, <2>1 DEF Placed, Underway, Verbs, ProbeRecord
  <2>5. Ordered'
    BY <1>1, <2>1 DEF Ordered, Underway, ProbeRecord
  <2>6. Informed'
    BY <1>1, <2>1 DEF Informed, ProbeRecord
  <2>7. Founded'
    BY <1>1, <2>1 DEF Founded, Placed, Ordered, Informed, TypeOK, ProbeRecord
  <2>8. Durable'
    BY <1>1, <2>1 DEF Durable, Ordered, Placed, Underway, ProbeRecord
  <2>9. AnswersCurrent'
    BY <1>1, <2>1 DEF AnswersCurrent, Founded, Informed, TypeOK, ProbeRecord
  <2> QED
    BY <2>2, <2>3, <2>4, <2>5, <2>6, <2>7, <2>8, <2>9
<1>2. CASE verb = "ensure" /\ item \in host /\ Answer("present")
  <2>1. /\ todo' \in Seq(Apps) /\ Len(todo') <= MaxBatch /\ insist' = insist
        /\ item \in Apps /\ answer' = [app |-> item, is |-> "present"] /\ "present" \in Answers
        /\ verb' \in Verbs \cup {"none"} /\ verb \in Verbs
        /\ at' \in {"idle", "recorded", "resolving", "foreign", "run"}
        /\ (at' = "idle" <=> todo' = <<>>) /\ (at' = "idle" <=> verb' = "none")
        /\ at' # "idle" => verb' = verb /\ Len(todo) # 1
        /\ at' = "foreign" => verb = "adopt"
        /\ at' = "run" => verb = "uninstall" /\ item' \in records
        /\ at' = "resolving" => item' \notin records
    BY <1>2, AnswerFacts DEF ProbeRecord, Answers
  <2>2. TypeOK'
    BY <1>2, <2>1 DEF TypeOK, ProbeRecord
  <2>3. Owned'
    BY <1>2, <2>1 DEF Owned, ProbeRecord
  <2>4. Placed'
    BY <1>2, <2>1 DEF Placed, Underway, Verbs, ProbeRecord
  <2>5. Ordered'
    BY <1>2, <2>1 DEF Ordered, Underway, ProbeRecord
  <2>6. Informed'
    BY <1>2, <2>1 DEF Informed, ProbeRecord
  <2>7. Founded'
    BY <1>2, <2>1 DEF Founded, Placed, Ordered, Informed, TypeOK, ProbeRecord
  <2>8. Durable'
    BY <1>2, <2>1 DEF Durable, Ordered, Placed, Underway, ProbeRecord
  <2>9. AnswersCurrent'
    BY <1>2, <2>1 DEF AnswersCurrent, Founded, Informed, TypeOK, ProbeRecord
  <2> QED
    BY <2>2, <2>3, <2>4, <2>5, <2>6, <2>7, <2>8, <2>9
<1>3. CASE verb = "ensure" /\ (item \notin host \/ insist) /\ Await("resolving")
  <2>1. /\ todo' = todo /\ todo \in Seq(Apps) /\ Len(todo) <= MaxBatch /\ todo # <<>>
        /\ verb' = verb /\ verb \in Verbs /\ insist' = insist /\ at' = "resolving" /\ answer' = None
        /\ item' = item /\ item \in Apps
    BY <1>3, AwaitFacts DEF ProbeRecord
  <2>2. TypeOK'
    BY <1>3, <2>1 DEF TypeOK, ProbeRecord
  <2>3. Owned'
    BY <1>3, <2>1 DEF Owned, ProbeRecord
  <2>4. Placed'
    BY <1>3, <2>1 DEF Placed, Underway, Verbs, ProbeRecord
  <2>5. Ordered'
    BY <1>3, <2>1 DEF Ordered, Underway, ProbeRecord
  <2>6. Informed'
    BY <1>3, <2>1 DEF Informed, ProbeRecord
  <2>7. Founded'
    BY <1>3, <2>1 DEF Founded, Placed, Ordered, Informed, TypeOK, ProbeRecord
  <2>8. Durable'
    BY <1>3, <2>1 DEF Durable, Ordered, Placed, Underway, ProbeRecord
  <2>9. AnswersCurrent'
    BY <1>3, <2>1 DEF AnswersCurrent, Founded, Informed, TypeOK, ProbeRecord
  <2> QED
    BY <2>2, <2>3, <2>4, <2>5, <2>6, <2>7, <2>8, <2>9
<1>4. CASE verb = "update" /\ item \in host /\ Answer("current")
  <2>1. /\ todo' \in Seq(Apps) /\ Len(todo') <= MaxBatch /\ insist' = insist
        /\ item \in Apps /\ answer' = [app |-> item, is |-> "current"] /\ "current" \in Answers
        /\ verb' \in Verbs \cup {"none"} /\ verb \in Verbs
        /\ at' \in {"idle", "recorded", "resolving", "foreign", "run"}
        /\ (at' = "idle" <=> todo' = <<>>) /\ (at' = "idle" <=> verb' = "none")
        /\ at' # "idle" => verb' = verb /\ Len(todo) # 1
        /\ at' = "foreign" => verb = "adopt"
        /\ at' = "run" => verb = "uninstall" /\ item' \in records
        /\ at' = "resolving" => item' \notin records
    BY <1>4, AnswerFacts DEF ProbeRecord, Answers
  <2>2. TypeOK'
    BY <1>4, <2>1 DEF TypeOK, ProbeRecord
  <2>3. Owned'
    BY <1>4, <2>1 DEF Owned, ProbeRecord
  <2>4. Placed'
    BY <1>4, <2>1 DEF Placed, Underway, Verbs, ProbeRecord
  <2>5. Ordered'
    BY <1>4, <2>1 DEF Ordered, Underway, ProbeRecord
  <2>6. Informed'
    BY <1>4, <2>1 DEF Informed, ProbeRecord
  <2>7. Founded'
    BY <1>4, <2>1 DEF Founded, Placed, Ordered, Informed, TypeOK, ProbeRecord
  <2>8. Durable'
    BY <1>4, <2>1 DEF Durable, Ordered, Placed, Underway, ProbeRecord
  <2>9. AnswersCurrent'
    BY <1>4, <2>1 DEF AnswersCurrent, Founded, Informed, TypeOK, ProbeRecord
  <2> QED
    BY <2>2, <2>3, <2>4, <2>5, <2>6, <2>7, <2>8, <2>9
<1>5. CASE verb = "update" /\ Await("run")
  <2>1. /\ todo' = todo /\ todo \in Seq(Apps) /\ Len(todo) <= MaxBatch /\ todo # <<>>
        /\ verb' = verb /\ verb \in Verbs /\ insist' = insist /\ at' = "run" /\ answer' = None
        /\ item' = item /\ item \in Apps
    BY <1>5, AwaitFacts DEF ProbeRecord
  <2>2. TypeOK'
    BY <1>5, <2>1 DEF TypeOK, ProbeRecord
  <2>3. Owned'
    BY <1>5, <2>1 DEF Owned, ProbeRecord
  <2>4. Placed'
    BY <1>5, <2>1 DEF Placed, Underway, Verbs, ProbeRecord
  <2>5. Ordered'
    BY <1>5, <2>1 DEF Ordered, Underway, ProbeRecord
  <2>6. Informed'
    BY <1>5, <2>1 DEF Informed, ProbeRecord
  <2>7. Founded'
    BY <1>5, <2>1 DEF Founded, Placed, Ordered, Informed, TypeOK, ProbeRecord
  <2>8. Durable'
    BY <1>5, <2>1 DEF Durable, Ordered, Placed, Underway, ProbeRecord
  <2>9. AnswersCurrent'
    BY <1>5, <2>1 DEF AnswersCurrent, Founded, Informed, TypeOK, ProbeRecord
  <2> QED
    BY <2>2, <2>3, <2>4, <2>5, <2>6, <2>7, <2>8, <2>9
<1> QED
  BY <1>1, <1>2, <1>3, <1>4, <1>5 DEF ProbeRecord

(* The registry answers, and the plan is made. *)
LEMMA ResolveIInv ==
  ASSUME IInv, Resolve
  PROVE  IInv'
<1> USE DEF IInv, history, call, vars
<1>1. CASE Answer("failed")
  <2>1. /\ todo' \in Seq(Apps) /\ Len(todo') <= MaxBatch /\ insist' = insist
        /\ item \in Apps /\ answer' = [app |-> item, is |-> "failed"] /\ "failed" \in Answers
        /\ verb' \in Verbs \cup {"none"} /\ verb \in Verbs
        /\ at' \in {"idle", "recorded", "resolving", "foreign", "run"}
        /\ (at' = "idle" <=> todo' = <<>>) /\ (at' = "idle" <=> verb' = "none")
        /\ at' # "idle" => verb' = verb /\ Len(todo) # 1
        /\ at' = "foreign" => verb = "adopt"
        /\ at' = "run" => verb = "uninstall" /\ item' \in records
        /\ at' = "resolving" => item' \notin records
    BY <1>1, AnswerFacts DEF Resolve, Answers
  <2>2. TypeOK'
    BY <1>1, <2>1 DEF TypeOK, Resolve
  <2>3. Owned'
    BY <1>1, <2>1 DEF Owned, Resolve
  <2>4. Placed'
    BY <1>1, <2>1 DEF Placed, Underway, Verbs, Resolve
  <2>5. Ordered'
    BY <1>1, <2>1 DEF Ordered, Underway, Resolve
  <2>6. Informed'
    BY <1>1, <2>1 DEF Informed, Resolve
  <2>7. Founded'
    BY <1>1, <2>1 DEF Founded, Placed, Ordered, Informed, TypeOK, Resolve
  <2>8. Durable'
    BY <1>1, <2>1 DEF Durable, Ordered, Placed, Underway, Resolve
  <2>9. AnswersCurrent'
    BY <1>1, <2>1 DEF AnswersCurrent, Founded, Informed, TypeOK, Resolve
  <2> QED
    BY <2>2, <2>3, <2>4, <2>5, <2>6, <2>7, <2>8, <2>9
<1>2. CASE Await("run") /\ item \in records
  <2>1. /\ todo' = todo /\ todo \in Seq(Apps) /\ Len(todo) <= MaxBatch /\ todo # <<>>
        /\ verb' = verb /\ verb \in Verbs /\ insist' = insist /\ at' = "run" /\ answer' = None
        /\ item' = item /\ item \in Apps
    BY <1>2, AwaitFacts DEF Resolve
  <2>2. TypeOK'
    BY <1>2, <2>1 DEF TypeOK, Resolve
  <2>3. Owned'
    BY <1>2, <2>1 DEF Owned, Resolve
  <2>4. Placed'
    BY <1>2, <2>1 DEF Placed, Underway, Verbs, Resolve
  <2>5. Ordered'
    BY <1>2, <2>1 DEF Ordered, Underway, Resolve
  <2>6. Informed'
    BY <1>2, <2>1 DEF Informed, Resolve
  <2>7. Founded'
    BY <1>2, <2>1 DEF Founded, Placed, Ordered, Informed, TypeOK, Resolve
  <2>8. Durable'
    BY <1>2, <2>1 DEF Durable, Ordered, Placed, Underway, Resolve
  <2>9. AnswersCurrent'
    BY <1>2, <2>1 DEF AnswersCurrent, Founded, Informed, TypeOK, Resolve
  <2> QED
    BY <2>2, <2>3, <2>4, <2>5, <2>6, <2>7, <2>8, <2>9
<1>3. CASE Await("foreign") /\ item \notin records
  <2>1. /\ todo' = todo /\ todo \in Seq(Apps) /\ Len(todo) <= MaxBatch /\ todo # <<>>
        /\ verb' = verb /\ verb \in Verbs /\ insist' = insist /\ at' = "foreign" /\ answer' = None
        /\ item' = item /\ item \in Apps
    BY <1>3, AwaitFacts DEF Resolve
  <2>2. TypeOK'
    BY <1>3, <2>1 DEF TypeOK, Resolve
  <2>3. Owned'
    BY <1>3, <2>1 DEF Owned, Resolve
  <2>4. Placed'
    BY <1>3, <2>1 DEF Placed, Underway, Verbs, Resolve
  <2>5. Ordered'
    BY <1>3, <2>1 DEF Ordered, Underway, Resolve
  <2>6. Informed'
    BY <1>3, <2>1 DEF Informed, Resolve
  <2>7. Founded'
    BY <1>3, <2>1 DEF Founded, Placed, Ordered, Informed, TypeOK, Resolve
  <2>8. Durable'
    BY <1>3, <2>1 DEF Durable, Ordered, Placed, Underway, Resolve
  <2>9. AnswersCurrent'
    BY <1>3, <2>1 DEF AnswersCurrent, Founded, Informed, TypeOK, Resolve
  <2> QED
    BY <2>2, <2>3, <2>4, <2>5, <2>6, <2>7, <2>8, <2>9
<1> QED
  BY <1>1, <1>2, <1>3 DEF Resolve

(* The host is asked about an application without a record. *)
LEMMA ProbeForeignIInv ==
  ASSUME IInv, ProbeForeign
  PROVE  IInv'
<1> USE DEF IInv, history, call, vars
<1>1. CASE Answer("failed") /\ UNCHANGED <<records, listing, saves, claimed>>
  <2>1. /\ todo' \in Seq(Apps) /\ Len(todo') <= MaxBatch /\ insist' = insist
        /\ item \in Apps /\ answer' = [app |-> item, is |-> "failed"] /\ "failed" \in Answers
        /\ verb' \in Verbs \cup {"none"} /\ verb \in Verbs
        /\ at' \in {"idle", "recorded", "resolving", "foreign", "run"}
        /\ (at' = "idle" <=> todo' = <<>>) /\ (at' = "idle" <=> verb' = "none")
        /\ at' # "idle" => verb' = verb /\ Len(todo) # 1
        /\ at' = "foreign" => verb = "adopt"
        /\ at' = "run" => verb = "uninstall" /\ item' \in records
        /\ at' = "resolving" => item' \notin records
    BY <1>1, AnswerFacts DEF ProbeForeign, Answers
  <2>2. TypeOK'
    BY <1>1, <2>1 DEF TypeOK, ProbeForeign
  <2>3. Owned'
    BY <1>1, <2>1 DEF Owned, ProbeForeign
  <2>4. Placed'
    BY <1>1, <2>1 DEF Placed, Underway, Verbs, ProbeForeign
  <2>5. Ordered'
    BY <1>1, <2>1 DEF Ordered, Underway, ProbeForeign
  <2>6. Informed'
    BY <1>1, <2>1 DEF Informed, ProbeForeign
  <2>7. Founded'
    BY <1>1, <2>1 DEF Founded, Placed, Ordered, Informed, TypeOK, ProbeForeign
  <2>8. Durable'
    BY <1>1, <2>1 DEF Durable, Ordered, Placed, Underway, ProbeForeign
  <2>9. AnswersCurrent'
    BY <1>1, <2>1 DEF AnswersCurrent, Founded, Informed, TypeOK, ProbeForeign
  <2> QED
    BY <2>2, <2>3, <2>4, <2>5, <2>6, <2>7, <2>8, <2>9
<1>2. CASE verb = "ensure" /\ Answer("present") /\ item \in Known
             /\ listing' = (IF item \in Listed THEN Known ELSE listing)
             /\ UNCHANGED <<records, saves, claimed>>
  <2>1. /\ todo' \in Seq(Apps) /\ Len(todo') <= MaxBatch /\ insist' = insist
        /\ item \in Apps /\ answer' = [app |-> item, is |-> "present"] /\ "present" \in Answers
        /\ verb' \in Verbs \cup {"none"} /\ verb \in Verbs
        /\ at' \in {"idle", "recorded", "resolving", "foreign", "run"}
        /\ (at' = "idle" <=> todo' = <<>>) /\ (at' = "idle" <=> verb' = "none")
        /\ at' # "idle" => verb' = verb /\ Len(todo) # 1
        /\ at' = "foreign" => verb = "adopt"
        /\ at' = "run" => verb = "uninstall" /\ item' \in records
        /\ at' = "resolving" => item' \notin records
    BY <1>2, AnswerFacts DEF ProbeForeign, Answers
  <2>2. TypeOK'
    BY <1>2, <2>1 DEF TypeOK, ProbeForeign, Known
  <2>3. Owned'
    BY <1>2, <2>1 DEF Owned, ProbeForeign, Known
  <2>4. Placed'
    BY <1>2, <2>1 DEF Placed, Underway, Verbs, ProbeForeign, Known
  <2>5. Ordered'
    BY <1>2, <2>1 DEF Ordered, Underway, ProbeForeign, Known
  <2>6. Informed'
    BY <1>2, <2>1, AppsAssumption DEF Informed, ProbeForeign, Known, TypeOK,
       AppsAssumption
  <2>7. Founded'
    BY <1>2, <2>1 DEF Founded, Placed, Ordered, Informed, TypeOK, ProbeForeign, Known
  <2>8. Durable'
    BY <1>2, <2>1 DEF Durable, Ordered, Placed, Underway, ProbeForeign, Known
  <2>9. AnswersCurrent'
    BY <1>2, <2>1 DEF AnswersCurrent, Founded, Informed, TypeOK, ProbeForeign, Known
  <2> QED
    BY <2>2, <2>3, <2>4, <2>5, <2>6, <2>7, <2>8, <2>9
<1>3. CASE verb = "ensure" /\ Await("run") /\ (item \notin Known \/ insist)
             /\ listing' = (IF item \in Listed THEN Known ELSE listing)
             /\ UNCHANGED <<records, saves, claimed>>
  <2>1. /\ todo' = todo /\ todo \in Seq(Apps) /\ Len(todo) <= MaxBatch /\ todo # <<>>
        /\ verb' = verb /\ verb \in Verbs /\ insist' = insist /\ at' = "run" /\ answer' = None
        /\ item' = item /\ item \in Apps
    BY <1>3, AwaitFacts DEF ProbeForeign
  <2>2. TypeOK'
    BY <1>3, <2>1 DEF TypeOK, ProbeForeign, Known
  <2>3. Owned'
    BY <1>3, <2>1 DEF Owned, ProbeForeign, Known
  <2>4. Placed'
    BY <1>3, <2>1 DEF Placed, Underway, Verbs, ProbeForeign, Known
  <2>5. Ordered'
    BY <1>3, <2>1 DEF Ordered, Underway, ProbeForeign, Known
  <2>6. Informed'
    BY <1>3, <2>1, AppsAssumption DEF Informed, ProbeForeign, Known, TypeOK,
       AppsAssumption
  <2>7. Founded'
    BY <1>3, <2>1 DEF Founded, Placed, Ordered, Informed, TypeOK, ProbeForeign, Known
  <2>8. Durable'
    BY <1>3, <2>1 DEF Durable, Ordered, Placed, Underway, ProbeForeign, Known
  <2>9. AnswersCurrent'
    BY <1>3, <2>1 DEF AnswersCurrent, Founded, Informed, TypeOK, ProbeForeign, Known
  <2> QED
    BY <2>2, <2>3, <2>4, <2>5, <2>6, <2>7, <2>8, <2>9
<1>4. CASE verb = "uninstall" /\ item \notin host /\ Answer("absent")
             /\ UNCHANGED <<records, listing, saves, claimed>>
  <2>1. /\ todo' \in Seq(Apps) /\ Len(todo') <= MaxBatch /\ insist' = insist
        /\ item \in Apps /\ answer' = [app |-> item, is |-> "absent"] /\ "absent" \in Answers
        /\ verb' \in Verbs \cup {"none"} /\ verb \in Verbs
        /\ at' \in {"idle", "recorded", "resolving", "foreign", "run"}
        /\ (at' = "idle" <=> todo' = <<>>) /\ (at' = "idle" <=> verb' = "none")
        /\ at' # "idle" => verb' = verb /\ Len(todo) # 1
        /\ at' = "foreign" => verb = "adopt"
        /\ at' = "run" => verb = "uninstall" /\ item' \in records
        /\ at' = "resolving" => item' \notin records
    BY <1>4, AnswerFacts DEF ProbeForeign, Answers
  <2>2. TypeOK'
    BY <1>4, <2>1 DEF TypeOK, ProbeForeign
  <2>3. Owned'
    BY <1>4, <2>1 DEF Owned, ProbeForeign
  <2>4. Placed'
    BY <1>4, <2>1 DEF Placed, Underway, Verbs, ProbeForeign
  <2>5. Ordered'
    BY <1>4, <2>1 DEF Ordered, Underway, ProbeForeign
  <2>6. Informed'
    BY <1>4, <2>1 DEF Informed, ProbeForeign
  <2>7. Founded'
    BY <1>4, <2>1 DEF Founded, Placed, Ordered, Informed, TypeOK, ProbeForeign
  <2>8. Durable'
    BY <1>4, <2>1 DEF Durable, Ordered, Placed, Underway, ProbeForeign
  <2>9. AnswersCurrent'
    BY <1>4, <2>1 DEF AnswersCurrent, Founded, Informed, TypeOK, ProbeForeign
  <2> QED
    BY <2>2, <2>3, <2>4, <2>5, <2>6, <2>7, <2>8, <2>9
<1>5. CASE verb = "uninstall" /\ item \in host /\ Answer("refused")
             /\ UNCHANGED <<records, listing, saves, claimed>>
  <2>1. /\ todo' \in Seq(Apps) /\ Len(todo') <= MaxBatch /\ insist' = insist
        /\ item \in Apps /\ answer' = [app |-> item, is |-> "refused"] /\ "refused" \in Answers
        /\ verb' \in Verbs \cup {"none"} /\ verb \in Verbs
        /\ at' \in {"idle", "recorded", "resolving", "foreign", "run"}
        /\ (at' = "idle" <=> todo' = <<>>) /\ (at' = "idle" <=> verb' = "none")
        /\ at' # "idle" => verb' = verb /\ Len(todo) # 1
        /\ at' = "foreign" => verb = "adopt"
        /\ at' = "run" => verb = "uninstall" /\ item' \in records
        /\ at' = "resolving" => item' \notin records
    BY <1>5, AnswerFacts DEF ProbeForeign, Answers
  <2>2. TypeOK'
    BY <1>5, <2>1 DEF TypeOK, ProbeForeign
  <2>3. Owned'
    BY <1>5, <2>1 DEF Owned, ProbeForeign
  <2>4. Placed'
    BY <1>5, <2>1 DEF Placed, Underway, Verbs, ProbeForeign
  <2>5. Ordered'
    BY <1>5, <2>1 DEF Ordered, Underway, ProbeForeign
  <2>6. Informed'
    BY <1>5, <2>1 DEF Informed, ProbeForeign
  <2>7. Founded'
    BY <1>5, <2>1 DEF Founded, Placed, Ordered, Informed, TypeOK, ProbeForeign
  <2>8. Durable'
    BY <1>5, <2>1 DEF Durable, Ordered, Placed, Underway, ProbeForeign
  <2>9. AnswersCurrent'
    BY <1>5, <2>1 DEF AnswersCurrent, Founded, Informed, TypeOK, ProbeForeign
  <2> QED
    BY <2>2, <2>3, <2>4, <2>5, <2>6, <2>7, <2>8, <2>9
<1>6. CASE verb = "uninstall" /\ insist /\ Await("run")
             /\ UNCHANGED <<records, listing, saves, claimed>>
  <2>1. /\ todo' = todo /\ todo \in Seq(Apps) /\ Len(todo) <= MaxBatch /\ todo # <<>>
        /\ verb' = verb /\ verb \in Verbs /\ insist' = insist /\ at' = "run" /\ answer' = None
        /\ item' = item /\ item \in Apps
    BY <1>6, AwaitFacts DEF ProbeForeign
  <2>2. TypeOK'
    BY <1>6, <2>1 DEF TypeOK, ProbeForeign
  <2>3. Owned'
    BY <1>6, <2>1 DEF Owned, ProbeForeign
  <2>4. Placed'
    BY <1>6, <2>1 DEF Placed, Underway, Verbs, ProbeForeign
  <2>5. Ordered'
    BY <1>6, <2>1 DEF Ordered, Underway, ProbeForeign
  <2>6. Informed'
    BY <1>6, <2>1 DEF Informed, ProbeForeign
  <2>7. Founded'
    BY <1>6, <2>1 DEF Founded, Placed, Ordered, Informed, TypeOK, ProbeForeign
  <2>8. Durable'
    BY <1>6, <2>1 DEF Durable, Ordered, Placed, Underway, ProbeForeign
  <2>9. AnswersCurrent'
    BY <1>6, <2>1 DEF AnswersCurrent, Founded, Informed, TypeOK, ProbeForeign
  <2> QED
    BY <2>2, <2>3, <2>4, <2>5, <2>6, <2>7, <2>8, <2>9
<1>7. CASE verb = "adopt" /\ item \in host /\ SaveLedger /\ records' = records \cup {item}
             /\ claimed' = claimed \cup {item} /\ UNCHANGED listing
  <2>1. /\ todo' = todo /\ todo \in Seq(Apps) /\ Len(todo) <= MaxBatch /\ todo # <<>>
        /\ verb' = verb /\ verb \in Verbs /\ insist' = insist /\ at' = "save" /\ answer' = None
        /\ item' = item /\ item \in Apps
    BY <1>7, AwaitFacts DEF ProbeForeign, SaveLedger
  <2>2. TypeOK'
    BY <1>7, <2>1, SaveFacts DEF TypeOK, ProbeForeign, SaveLedger
  <2>3. Owned'
    BY <1>7, <2>1, SaveFacts DEF Owned, ProbeForeign, SaveLedger
  <2>4. Placed'
    BY <1>7, <2>1 DEF Placed, Underway, Verbs, ProbeForeign, SaveLedger
  <2>5. Ordered'
      <3>1. /\ \A s \in Slots : saves'[s] = None <=> saves[s] = None
            /\ \A s \in Slots : saves[s] # None => saves'[s].snap = saves[s].snap /\ saves'[s].stale
        BY <1>7, SaveFacts
      <3> QED
        BY <1>7, <2>1, <3>1 DEF Ordered, Underway, Placed, Durable, Founded, ProbeForeign
  <2>6. Informed'
    BY <1>7, <2>1 DEF Informed, ProbeForeign, SaveLedger
  <2>7. Founded'
    BY <1>7, <2>1 DEF Founded, Placed, Ordered, Informed, TypeOK, ProbeForeign,
       SaveLedger
  <2>8. Durable'
    BY <1>7, <2>1 DEF Durable, Ordered, Placed, Underway, ProbeForeign, SaveLedger
  <2>9. AnswersCurrent'
    BY <1>7, <2>1 DEF AnswersCurrent, Founded, Informed, TypeOK, ProbeForeign,
       SaveLedger
  <2> QED
    BY <2>2, <2>3, <2>4, <2>5, <2>6, <2>7, <2>8, <2>9
<1>8. CASE verb = "ensure" /\ Answer("failed") /\ UNCHANGED <<records, saves, claimed>>
             /\ listing' = (IF item \in Listed THEN Known ELSE listing)
  <2>1. /\ todo' \in Seq(Apps) /\ Len(todo') <= MaxBatch /\ insist' = insist
        /\ item \in Apps /\ answer' = [app |-> item, is |-> "failed"] /\ "failed" \in Answers
        /\ verb' \in Verbs \cup {"none"} /\ verb \in Verbs
        /\ at' \in {"idle", "recorded", "resolving", "foreign", "run"}
        /\ (at' = "idle" <=> todo' = <<>>) /\ (at' = "idle" <=> verb' = "none")
        /\ at' # "idle" => verb' = verb /\ Len(todo) # 1
        /\ at' = "foreign" => verb = "adopt"
        /\ at' = "run" => verb = "uninstall" /\ item' \in records
        /\ at' = "resolving" => item' \notin records
    BY <1>8, AnswerFacts DEF ProbeForeign, Answers
  <2>2. TypeOK'
    BY <1>8, <2>1 DEF TypeOK, ProbeForeign, Known
  <2>3. Owned'
    BY <1>8, <2>1 DEF Owned, ProbeForeign, Known
  <2>4. Placed'
    BY <1>8, <2>1 DEF Placed, Underway, Verbs, ProbeForeign, Known
  <2>5. Ordered'
    BY <1>8, <2>1 DEF Ordered, Underway, ProbeForeign, Known
  <2>6. Informed'
    BY <1>8, <2>1, AppsAssumption DEF Informed, ProbeForeign, Known, TypeOK,
       AppsAssumption
  <2>7. Founded'
    BY <1>8, <2>1 DEF Founded, Placed, Ordered, Informed, TypeOK, ProbeForeign, Known
  <2>8. Durable'
    BY <1>8, <2>1 DEF Durable, Ordered, Placed, Underway, ProbeForeign, Known
  <2>9. AnswersCurrent'
    BY <1>8, <2>1 DEF AnswersCurrent, Founded, Informed, TypeOK, ProbeForeign, Known
  <2> QED
    BY <2>2, <2>3, <2>4, <2>5, <2>6, <2>7, <2>8, <2>9
<1> QED
  BY <1>1, <1>2, <1>3, <1>4, <1>5, <1>6, <1>7, <1>8 DEF ProbeForeign

(* A command does its work or fails. *)
LEMMA RunIInv ==
  ASSUME IInv, Run
  PROVE  IInv'
<1> USE DEF IInv, history, call, vars
<1>1. CASE Answer("failed")
  <2>1. /\ todo' \in Seq(Apps) /\ Len(todo') <= MaxBatch /\ insist' = insist
        /\ item \in Apps /\ answer' = [app |-> item, is |-> "failed"] /\ "failed" \in Answers
        /\ verb' \in Verbs \cup {"none"} /\ verb \in Verbs
        /\ at' \in {"idle", "recorded", "resolving", "foreign", "run"}
        /\ (at' = "idle" <=> todo' = <<>>) /\ (at' = "idle" <=> verb' = "none")
        /\ at' # "idle" => verb' = verb /\ Len(todo) # 1
        /\ at' = "foreign" => verb = "adopt"
        /\ at' = "run" => verb = "uninstall" /\ item' \in records
        /\ at' = "resolving" => item' \notin records
    BY <1>1, AnswerFacts DEF Run, Answers
  <2>2. TypeOK'
    BY <1>1, <2>1 DEF TypeOK, Run, Command, HostBecomes
  <2>3. Owned'
    BY <1>1, <2>1 DEF Owned, Run, Command, HostBecomes
  <2>4. Placed'
    BY <1>1, <2>1 DEF Placed, Underway, Verbs, Run, Command, HostBecomes
  <2>5. Ordered'
    BY <1>1, <2>1 DEF Ordered, Underway, Run, Command, HostBecomes
  <2>6. Informed'
    BY <1>1, <2>1 DEF Informed, Run, Command, HostBecomes
  <2>7. Founded'
    BY <1>1, <2>1 DEF Founded, Placed, Ordered, Informed, TypeOK, Run, Command,
       HostBecomes
  <2>8. Durable'
    BY <1>1, <2>1 DEF Durable, Ordered, Placed, Underway, Run, Command, HostBecomes
  <2>9. AnswersCurrent'
    BY <1>1, <2>1 DEF AnswersCurrent, Founded, Informed, TypeOK, Run, Command,
       HostBecomes
  <2> QED
    BY <2>2, <2>3, <2>4, <2>5, <2>6, <2>7, <2>8, <2>9
<1>2. CASE Await("verify")
  <2>1. /\ todo' = todo /\ todo \in Seq(Apps) /\ Len(todo) <= MaxBatch /\ todo # <<>>
        /\ verb' = verb /\ verb \in Verbs /\ insist' = insist /\ at' = "verify" /\ answer' = None
        /\ item' = item /\ item \in Apps
    BY <1>2, AwaitFacts DEF Run
  <2>2. TypeOK'
    BY <1>2, <2>1 DEF TypeOK, Run, Command, HostBecomes
  <2>3. Owned'
    BY <1>2, <2>1 DEF Owned, Run, Command, HostBecomes
  <2>4. Placed'
    BY <1>2, <2>1 DEF Placed, Underway, Verbs, Run, Command, HostBecomes
  <2>5. Ordered'
    BY <1>2, <2>1 DEF Ordered, Underway, Run, Command, HostBecomes
  <2>6. Informed'
    BY <1>2, <2>1 DEF Informed, Run, Command, HostBecomes
  <2>7. Founded'
    BY <1>2, <2>1 DEF Founded, Placed, Ordered, Informed, TypeOK, Run, Command,
       HostBecomes
  <2>8. Durable'
    BY <1>2, <2>1 DEF Durable, Ordered, Placed, Underway, Run, Command, HostBecomes
  <2>9. AnswersCurrent'
    BY <1>2, <2>1 DEF AnswersCurrent, Founded, Informed, TypeOK, Run, Command,
       HostBecomes
  <2> QED
    BY <2>2, <2>3, <2>4, <2>5, <2>6, <2>7, <2>8, <2>9
<1> QED
  BY <1>1, <1>2 DEF Run

(* What was done is recorded. *)
LEMMA VerifyIInv ==
  ASSUME IInv, Verify
  PROVE  IInv'
<1> USE DEF IInv, history, call, vars
<1>1. CASE verb = "uninstall" /\ Answer("removed") /\ UNCHANGED <<records, saves>>
  <2>1. /\ todo' \in Seq(Apps) /\ Len(todo') <= MaxBatch /\ insist' = insist
        /\ item \in Apps /\ answer' = [app |-> item, is |-> "removed"] /\ "removed" \in Answers
        /\ verb' \in Verbs \cup {"none"} /\ verb \in Verbs
        /\ at' \in {"idle", "recorded", "resolving", "foreign", "run"}
        /\ (at' = "idle" <=> todo' = <<>>) /\ (at' = "idle" <=> verb' = "none")
        /\ at' # "idle" => verb' = verb /\ Len(todo) # 1
        /\ at' = "foreign" => verb = "adopt"
        /\ at' = "run" => verb = "uninstall" /\ item' \in records
        /\ at' = "resolving" => item' \notin records
    BY <1>1, AnswerFacts DEF Verify, Answers
  <2>2. TypeOK'
    BY <1>1, <2>1 DEF TypeOK, Verify
  <2>3. Owned'
    BY <1>1, <2>1 DEF Owned, Verify
  <2>4. Placed'
    BY <1>1, <2>1 DEF Placed, Underway, Verbs, Verify
  <2>5. Ordered'
    BY <1>1, <2>1 DEF Ordered, Underway, Verify
  <2>6. Informed'
    BY <1>1, <2>1 DEF Informed, Verify
  <2>7. Founded'
    BY <1>1, <2>1 DEF Founded, Placed, Ordered, Informed, TypeOK, Verify
  <2>8. Durable'
    BY <1>1, <2>1 DEF Durable, Ordered, Placed, Underway, Verify
  <2>9. AnswersCurrent'
    BY <1>1, <2>1 DEF AnswersCurrent, Founded, Informed, TypeOK, Verify
  <2> QED
    BY <2>2, <2>3, <2>4, <2>5, <2>6, <2>7, <2>8, <2>9
<1>2. CASE SaveLedger /\ records' = (IF verb = "uninstall" THEN records \ {item}
                                                    ELSE records \cup {item})
  <2>1. /\ todo' = todo /\ todo \in Seq(Apps) /\ Len(todo) <= MaxBatch /\ todo # <<>>
        /\ verb' = verb /\ verb \in Verbs /\ insist' = insist /\ at' = "save" /\ answer' = None
        /\ item' = item /\ item \in Apps
    BY <1>2, AwaitFacts DEF Verify, SaveLedger
  <2>2. TypeOK'
    BY <1>2, <2>1, SaveFacts DEF TypeOK, Verify, SaveLedger
  <2>3. Owned'
      <3>1. \A s \in Slots : saves'[s] # None => saves[s] # None /\ saves'[s].snap = saves[s].snap
        BY <1>2, SaveFacts
      <3>2. records' \subseteq claimed /\ doc' = doc /\ claimed' = claimed /\ at' = "save"
        BY <1>2, <2>1 DEF Owned, Verify
      <3> QED
        BY <3>1, <3>2 DEF Owned
  <2>4. Placed'
    BY <1>2, <2>1 DEF Placed, Underway, Verbs, Verify, SaveLedger
  <2>5. Ordered'
    BY <1>2, <2>1, SaveFacts DEF Ordered, Underway, Verify, SaveLedger, Placed
  <2>6. Informed'
    BY <1>2, <2>1 DEF Informed, Verify, SaveLedger
  <2>7. Founded'
    BY <1>2, <2>1 DEF Founded, Placed, Ordered, Informed, TypeOK, Verify, SaveLedger
  <2>8. Durable'
    BY <1>2, <2>1 DEF Durable, Ordered, Placed, Underway, Verify, SaveLedger
  <2>9. AnswersCurrent'
    BY <1>2, <2>1 DEF AnswersCurrent, Founded, Informed, TypeOK, Verify, SaveLedger
  <2> QED
    BY <2>2, <2>3, <2>4, <2>5, <2>6, <2>7, <2>8, <2>9
<1> QED
  BY <1>1, <1>2 DEF Verify

(* The document is written. *)
LEMMA SavedIInv ==
  ASSUME IInv, Saved
  PROVE  IInv'
<1> USE DEF IInv, history, call, vars
<1>1. /\ todo' \in Seq(Apps) /\ Len(todo') <= MaxBatch /\ insist' = insist
      /\ item \in Apps /\ answer' = [app |-> item, is |-> Outcome] /\ Outcome \in Answers
      /\ verb' \in Verbs \cup {"none"} /\ verb \in Verbs
      /\ at' \in {"idle", "recorded", "resolving", "foreign", "run"}
      /\ (at' = "idle" <=> todo' = <<>>) /\ (at' = "idle" <=> verb' = "none")
      /\ at' # "idle" => verb' = verb /\ Len(todo) # 1
      /\ at' = "foreign" => verb = "adopt"
      /\ at' = "run" => verb = "uninstall" /\ item' \in records
      /\ at' = "resolving" => item' \notin records
      /\ verb = "ensure" <=> Outcome = "installed"
      /\ verb = "adopt" <=> Outcome = "adopted"
      /\ Outcome \notin {"present", "refused", "current", "absent"}
      /\ Outcome \in {"installed", "removed", "updated", "adopted"}
  BY AnswerFacts DEF Saved, Outcome, Answers, TypeOK, Verbs
<1>2. TypeOK'
  BY <1>1 DEF TypeOK, Saved
<1>3. Owned'
  BY <1>1 DEF Owned, Saved
<1>4. Placed'
  <2>1. up' = up /\ doc' = records /\ saves' = saves /\ up
    BY DEF Saved, Placed
  <2>2. doc' # Unreadable
    BY <2>1, AppsAssumption DEF TypeOK, AppsAssumption
  <2> QED
    BY <1>1, <2>1, <2>2 DEF Placed, Underway, Verbs, TypeOK
<1>5. Ordered'
  BY <1>1 DEF Ordered, Underway, Saved
<1>6. Informed'
  BY <1>1 DEF Informed, Saved
<1>7. Founded'
  <2>1. UNCHANGED <<host, up, records, saves, missed, claimed>> /\ doc' = records /\ at = "save"
    BY DEF Saved
  <2> QED
    BY <1>1, <2>1 DEF Founded, Placed
<1>8. Durable'
  BY <1>1 DEF Durable, Ordered, Placed, Underway, Saved
<1>9. AnswersCurrent'
  BY <1>1 DEF AnswersCurrent, Founded, Informed, TypeOK, Saved
<1> QED
  BY <1>2, <1>3, <1>4, <1>5, <1>6, <1>7, <1>8, <1>9

(* It is not. *)
LEMMA SaveFailsIInv ==
  ASSUME IInv, SaveFails
  PROVE  IInv'
<1> USE DEF IInv, history, call, vars
<1>1. CASE verb = "adopt" /\ Answer("failed") /\ records' = records \ {item} /\ UNCHANGED lost
  <2>1. /\ todo' \in Seq(Apps) /\ Len(todo') <= MaxBatch /\ insist' = insist
        /\ item \in Apps /\ answer' = [app |-> item, is |-> "failed"] /\ "failed" \in Answers
        /\ verb' \in Verbs \cup {"none"} /\ verb \in Verbs
        /\ at' \in {"idle", "recorded", "resolving", "foreign", "run"}
        /\ (at' = "idle" <=> todo' = <<>>) /\ (at' = "idle" <=> verb' = "none")
        /\ at' # "idle" => verb' = verb /\ Len(todo) # 1
        /\ at' = "foreign" => verb = "adopt"
        /\ at' = "run" => verb = "uninstall" /\ item' \in records
        /\ at' = "resolving" => item' \notin records
    BY <1>1, AnswerFacts DEF SaveFails, Answers
  <2>2. TypeOK'
    BY <1>1, <2>1 DEF TypeOK, SaveFails
  <2>3. Owned'
    BY <1>1, <2>1 DEF Owned, SaveFails
  <2>4. Placed'
    BY <1>1, <2>1 DEF Placed, Underway, Verbs, SaveFails
  <2>5. Ordered'
    BY <1>1, <2>1 DEF Ordered, Underway, SaveFails
  <2>6. Informed'
    BY <1>1, <2>1 DEF Informed, SaveFails
  <2>7. Founded'
    BY <1>1, <2>1 DEF Founded, Placed, Ordered, Informed, TypeOK, SaveFails
  <2>8. Durable'
    BY <1>1, <2>1 DEF Durable, Ordered, Placed, Underway, SaveFails
  <2>9. AnswersCurrent'
    BY <1>1, <2>1 DEF AnswersCurrent, Founded, Informed, TypeOK, SaveFails
  <2> QED
    BY <2>2, <2>3, <2>4, <2>5, <2>6, <2>7, <2>8, <2>9
<1>2. CASE verb = "update" /\ Answer("failed") /\ lost' = TRUE /\ UNCHANGED records
  <2>1. /\ todo' \in Seq(Apps) /\ Len(todo') <= MaxBatch /\ insist' = insist
        /\ item \in Apps /\ answer' = [app |-> item, is |-> "failed"] /\ "failed" \in Answers
        /\ verb' \in Verbs \cup {"none"} /\ verb \in Verbs
        /\ at' \in {"idle", "recorded", "resolving", "foreign", "run"}
        /\ (at' = "idle" <=> todo' = <<>>) /\ (at' = "idle" <=> verb' = "none")
        /\ at' # "idle" => verb' = verb /\ Len(todo) # 1
        /\ at' = "foreign" => verb = "adopt"
        /\ at' = "run" => verb = "uninstall" /\ item' \in records
        /\ at' = "resolving" => item' \notin records
    BY <1>2, AnswerFacts DEF SaveFails, Answers
  <2>2. TypeOK'
    BY <1>2, <2>1 DEF TypeOK, SaveFails
  <2>3. Owned'
    BY <1>2, <2>1 DEF Owned, SaveFails
  <2>4. Placed'
    BY <1>2, <2>1 DEF Placed, Underway, Verbs, SaveFails
  <2>5. Ordered'
    BY <1>2, <2>1 DEF Ordered, Underway, SaveFails
  <2>6. Informed'
    BY <1>2, <2>1 DEF Informed, SaveFails
  <2>7. Founded'
    BY <1>2, <2>1 DEF Founded, Placed, Ordered, Informed, TypeOK, SaveFails
  <2>8. Durable'
    BY <1>2, <2>1 DEF Durable, Ordered, Placed, Underway, SaveFails
  <2>9. AnswersCurrent'
    BY <1>2, <2>1 DEF AnswersCurrent, Founded, Informed, TypeOK, SaveFails
  <2> QED
    BY <2>2, <2>3, <2>4, <2>5, <2>6, <2>7, <2>8, <2>9
<1>3. CASE verb \notin {"adopt", "update"} /\ Answer(Outcome) /\ lost' = TRUE /\ UNCHANGED records
  <2>1. /\ todo' \in Seq(Apps) /\ Len(todo') <= MaxBatch /\ insist' = insist
        /\ item \in Apps /\ answer' = [app |-> item, is |-> Outcome] /\ Outcome \in Answers
        /\ verb' \in Verbs \cup {"none"} /\ verb \in Verbs
        /\ at' \in {"idle", "recorded", "resolving", "foreign", "run"}
        /\ (at' = "idle" <=> todo' = <<>>) /\ (at' = "idle" <=> verb' = "none")
        /\ at' # "idle" => verb' = verb /\ Len(todo) # 1
        /\ at' = "foreign" => verb = "adopt"
        /\ at' = "run" => verb = "uninstall" /\ item' \in records
        /\ at' = "resolving" => item' \notin records
        /\ verb = "ensure" <=> Outcome = "installed"
        /\ verb = "adopt" <=> Outcome = "adopted"
        /\ Outcome \notin {"present", "refused", "current", "absent"}
        /\ Outcome \in {"installed", "removed", "updated", "adopted"}
    BY <1>3, AnswerFacts DEF SaveFails, Outcome, Answers, TypeOK, Verbs
  <2>2. TypeOK'
    BY <1>3, <2>1 DEF TypeOK, SaveFails
  <2>3. Owned'
    BY <1>3, <2>1 DEF Owned, SaveFails
  <2>4. Placed'
    BY <1>3, <2>1 DEF Placed, Underway, Verbs, SaveFails
  <2>5. Ordered'
    BY <1>3, <2>1 DEF Ordered, Underway, SaveFails
  <2>6. Informed'
    BY <1>3, <2>1 DEF Informed, SaveFails
  <2>7. Founded'
    BY <1>3, <2>1 DEF Founded, Placed, Ordered, Informed, TypeOK, SaveFails
  <2>8. Durable'
    BY <1>3, <2>1 DEF Durable, Ordered, Placed, Underway, SaveFails
  <2>9. AnswersCurrent'
    BY <1>3, <2>1 DEF AnswersCurrent, Founded, Informed, TypeOK, SaveFails
  <2> QED
    BY <2>2, <2>3, <2>4, <2>5, <2>6, <2>7, <2>8, <2>9
<1> QED
  BY <1>1, <1>2, <1>3 DEF SaveFails

(* The caller drops the future. *)
LEMMA DroppedIInv ==
  ASSUME IInv, Dropped
  PROVE  IInv'
<1> USE DEF IInv, history, call, vars
<1>1. CASE at = "run" /\ Command /\ UNCHANGED saves
  <2>1. TypeOK'
      <3>1. item \in Apps
        BY <1>1, HeadTailProperties DEF TypeOK, item
      <3>2. /\ host' \subseteq Apps /\ seen' \subseteq Apps /\ missed' \subseteq Apps
            /\ claimed' \subseteq Apps
        BY <1>1, <3>1 DEF TypeOK, Command, HostBecomes
      <3> QED
        BY <1>1, <3>2, OverFacts DEF TypeOK, Dropped, CallOver
  <2>2. Owned'
    BY <1>1 DEF Owned, Dropped, CallOver, Command, HostBecomes
  <2>3. Placed'
    BY <1>1, OverFacts DEF Placed, Underway, Verbs, Dropped, CallOver, Command,
       HostBecomes
  <2>4. Ordered'
    BY <1>1 DEF Ordered, Underway, Dropped, CallOver, Command, HostBecomes
  <2>5. Informed'
    BY <1>1 DEF Informed, Dropped, CallOver, Command, HostBecomes
  <2>6. Founded'
    BY <1>1 DEF Founded, Placed, Ordered, Informed, TypeOK, Dropped, CallOver,
       Command, HostBecomes
  <2>7. Durable'
    BY <1>1 DEF Durable, Ordered, Placed, Underway, Dropped, CallOver, Command,
       HostBecomes
  <2>8. AnswersCurrent'
    BY <1>1 DEF AnswersCurrent, Founded, Informed, TypeOK, Dropped, CallOver, Command,
       HostBecomes
  <2> QED
    BY <2>1, <2>2, <2>3, <2>4, <2>5, <2>6, <2>7, <2>8
<1>2. CASE at = "save" /\ UNCHANGED <<host, claimed, seen, missed>>
  <2>1. TypeOK'
      <3>1. \A s \in Slots : [saves EXCEPT ![s] = [snap |-> records, stale |-> FALSE]]
                               \in [Slots -> {None} \cup Saves]
        BY DEF TypeOK, Saves
      <3> QED
        BY <1>2, <3>1, OverFacts DEF TypeOK, Dropped, CallOver
  <2>2. Owned'
      <3>1. PICK s \in Slots : saves' = [saves EXCEPT ![s] = [snap |-> records, stale |-> FALSE]]
        BY <1>2 DEF Dropped
      <3>2. /\ saves'[s] = [snap |-> records, stale |-> FALSE] /\ saves'[s] # None
            /\ \A t \in Slots \ {s} : saves'[t] = saves[t]
        BY <3>1, AppsAssumption DEF TypeOK, AppsAssumption
      <3> QED
        BY <1>2, <3>1, <3>2 DEF Owned, Dropped, CallOver
  <2>3. Placed'
    BY <1>2, OverFacts DEF Placed, Underway, Verbs, Dropped, CallOver
  <2>4. Ordered'
      <3>1. PICK s \in Slots : saves' = [saves EXCEPT ![s] = [snap |-> records, stale |-> FALSE]]
        BY <1>2 DEF Dropped
      <3>2. /\ saves'[s] = [snap |-> records, stale |-> FALSE] /\ saves'[s] # None
            /\ \A t \in Slots \ {s} : saves'[t] = saves[t]
        BY <3>1, AppsAssumption DEF TypeOK, AppsAssumption
      <3> QED
        BY <1>2, <3>1, <3>2 DEF Ordered, Underway, Dropped, CallOver
  <2>5. Informed'
    BY <1>2 DEF Informed, Dropped, CallOver
  <2>6. Founded'
    BY <1>2 DEF Founded, Placed, Ordered, Informed, TypeOK, Dropped, CallOver
  <2>7. Durable'
      <3>1. PICK s \in Slots : saves' = [saves EXCEPT ![s] = [snap |-> records, stale |-> FALSE]]
        BY <1>2 DEF Dropped
      <3>2. /\ saves'[s] = [snap |-> records, stale |-> FALSE] /\ saves'[s] # None
            /\ \A t \in Slots \ {s} : saves'[t] = saves[t]
        BY <3>1, AppsAssumption DEF TypeOK, AppsAssumption
      <3> QED
        BY <1>2, <3>1, <3>2 DEF Durable, Underway, Dropped, CallOver
  <2>8. AnswersCurrent'
    BY <1>2 DEF AnswersCurrent, Founded, Informed, TypeOK, Dropped, CallOver
  <2> QED
    BY <2>1, <2>2, <2>3, <2>4, <2>5, <2>6, <2>7, <2>8
<1>3. CASE at \notin {"run", "save"} /\ UNCHANGED <<host, claimed, seen, missed, saves>>
  <2>1. TypeOK'
    BY <1>3, OverFacts DEF TypeOK, Dropped, CallOver
  <2>2. Owned'
    BY <1>3 DEF Owned, Dropped, CallOver
  <2>3. Placed'
    BY <1>3, OverFacts DEF Placed, Underway, Verbs, Dropped, CallOver
  <2>4. Ordered'
    BY <1>3 DEF Ordered, Underway, Dropped, CallOver
  <2>5. Informed'
    BY <1>3 DEF Informed, Dropped, CallOver
  <2>6. Founded'
    BY <1>3 DEF Founded, Placed, Ordered, Informed, TypeOK, Dropped, CallOver
  <2>7. Durable'
    BY <1>3 DEF Durable, Ordered, Placed, Underway, Dropped, CallOver
  <2>8. AnswersCurrent'
    BY <1>3 DEF AnswersCurrent, Founded, Informed, TypeOK, Dropped, CallOver
  <2> QED
    BY <2>1, <2>2, <2>3, <2>4, <2>5, <2>6, <2>7, <2>8
<1> QED
  BY <1>1, <1>2, <1>3 DEF Dropped

(* The save of a dropped call ends. *)
LEMMA LandIInv ==
  ASSUME IInv, NEW s \in Slots, Land(s)
  PROVE  IInv'
<1> USE DEF IInv, history, call, vars
<1>1. TypeOK'
  <2>1. /\ saves' \in [Slots -> {None} \cup Saves]
        /\ saves[s] \in Saves
    BY DEF TypeOK, Land
  <2>2. (doc' = Unreadable \/ doc' \subseteq Apps) /\ lost' \in BOOLEAN
    BY <2>1 DEF TypeOK, Land, Saves
  <2> QED
    BY <2>1, <2>2 DEF TypeOK, Land, item
<1>2. Owned'
  BY  DEF Owned, Land, item
<1>3. Placed'
  <2>1. up
    BY DEF Land, Placed, Underway
  <2>2. saves[s].snap \in SUBSET Apps
    BY DEF TypeOK, Land, Saves
  <2>3. doc' # Unreadable
    BY <2>1, <2>2, AppsAssumption DEF Land, Placed, AppsAssumption
  <2> QED
    BY <2>1, <2>3 DEF Land, Placed, Underway
<1>4. Ordered'
  BY  DEF Ordered, Underway, Land, item
<1>5. Informed'
  BY  DEF Informed, Land, item
<1>6. Founded'
  BY  DEF Founded, Placed, Ordered, Informed, TypeOK, Land, item
<1>7. Durable'
  BY  DEF Durable, Ordered, Placed, Underway, Land, item
<1>8. AnswersCurrent'
  BY  DEF AnswersCurrent, Founded, Informed, TypeOK, Land, item
<1> QED
  BY <1>1, <1>2, <1>3, <1>4, <1>5, <1>6, <1>7, <1>8

(* The process dies. *)
LEMMA CrashIInv ==
  ASSUME IInv, Crash
  PROVE  IInv'
<1> USE DEF IInv, history, call, vars
<1>1. CASE at = "run" /\ Command
  <2>1. TypeOK'
      <3>1. item \in Apps
        BY <1>1, HeadTailProperties DEF TypeOK, item
      <3>2. /\ host' \subseteq Apps /\ seen' \subseteq Apps /\ missed' \subseteq Apps
            /\ claimed' \subseteq Apps
        BY <1>1, <3>1 DEF TypeOK, Command, HostBecomes
      <3> QED
        BY <1>1, <3>2, OverFacts DEF TypeOK, Crash, CallOver
  <2>2. Owned'
    BY <1>1 DEF Owned, Crash, CallOver, Command, HostBecomes
  <2>3. Placed'
    BY <1>1, OverFacts DEF Placed, Underway, Verbs, Crash, CallOver, Command,
       HostBecomes
  <2>4. Ordered'
    BY <1>1 DEF Ordered, Underway, Crash, CallOver, Command, HostBecomes
  <2>5. Informed'
    BY <1>1 DEF Informed, Crash, CallOver, Command, HostBecomes
  <2>6. Founded'
    BY <1>1 DEF Founded, Placed, Ordered, Informed, TypeOK, Crash, CallOver, Command,
       HostBecomes
  <2>7. Durable'
    BY <1>1 DEF Durable, Ordered, Placed, Underway, Crash, CallOver, Command,
       HostBecomes
  <2>8. AnswersCurrent'
    BY <1>1 DEF AnswersCurrent, Founded, Informed, TypeOK, Crash, CallOver, Command,
       HostBecomes
  <2> QED
    BY <2>1, <2>2, <2>3, <2>4, <2>5, <2>6, <2>7, <2>8
<1>2. CASE at # "run" /\ UNCHANGED <<host, claimed, seen, missed>>
  <2>1. TypeOK'
    BY <1>2, OverFacts DEF TypeOK, Crash, CallOver
  <2>2. Owned'
    BY <1>2 DEF Owned, Crash, CallOver
  <2>3. Placed'
    BY <1>2, OverFacts DEF Placed, Underway, Verbs, Crash, CallOver
  <2>4. Ordered'
    BY <1>2 DEF Ordered, Underway, Crash, CallOver
  <2>5. Informed'
    BY <1>2 DEF Informed, Crash, CallOver
  <2>6. Founded'
    BY <1>2 DEF Founded, Placed, Ordered, Informed, TypeOK, Crash, CallOver
  <2>7. Durable'
    BY <1>2 DEF Durable, Ordered, Placed, Underway, Crash, CallOver
  <2>8. AnswersCurrent'
    BY <1>2 DEF AnswersCurrent, Founded, Informed, TypeOK, Crash, CallOver
  <2> QED
    BY <2>1, <2>2, <2>3, <2>4, <2>5, <2>6, <2>7, <2>8
<1> QED
  BY <1>1, <1>2 DEF Crash

(* Somebody leaves a document nobody can read. *)
LEMMA NewerVersionIInv ==
  ASSUME IInv, NewerVersion
  PROVE  IInv'
<1> USE DEF IInv, history, call, vars
<1>1. TypeOK'
  BY  DEF TypeOK, NewerVersion, item
<1>2. Owned'
  BY  DEF Owned, NewerVersion, item
<1>3. Placed'
  BY  DEF Placed, Underway, Verbs, NewerVersion, item
<1>4. Ordered'
  BY  DEF Ordered, Underway, NewerVersion, item, Placed, TypeOK, Verbs
<1>5. Informed'
  BY  DEF Informed, NewerVersion, item
<1>6. Founded'
  BY  DEF Founded, Placed, Ordered, Informed, TypeOK, NewerVersion, item
<1>7. Durable'
  BY  DEF Durable, Ordered, Placed, Underway, NewerVersion, item
<1>8. AnswersCurrent'
  BY  DEF AnswersCurrent, Founded, Informed, TypeOK, NewerVersion, item
<1> QED
  BY <1>1, <1>2, <1>3, <1>4, <1>5, <1>6, <1>7, <1>8

(* The facade is built. *)
LEMMA BuildIInv ==
  ASSUME IInv, Build
  PROVE  IInv'
<1> USE DEF IInv, history, call, vars
<1>1. TypeOK'
  BY  DEF TypeOK, Build, item
<1>2. Owned'
  BY  DEF Owned, Build, item
<1>3. Placed'
  BY AppsAssumption DEF Placed, Underway, Verbs, Build, item, AppsAssumption
<1>4. Ordered'
  BY  DEF Ordered, Underway, Build, item, Placed
<1>5. Informed'
  BY  DEF Informed, Build, item
<1>6. Founded'
  BY  DEF Founded, Placed, Ordered, Informed, TypeOK, Build, item, Placed
<1>7. Durable'
  BY  DEF Durable, Ordered, Placed, Underway, Build, item
<1>8. AnswersCurrent'
  BY  DEF AnswersCurrent, Founded, Informed, TypeOK, Build, item
<1> QED
  BY <1>1, <1>2, <1>3, <1>4, <1>5, <1>6, <1>7, <1>8

(* Somebody installs or removes an application. *)
LEMMA OutsideIInv ==
  ASSUME IInv, Outside
  PROVE  IInv'
<1> USE DEF IInv, history, call, vars
<1>1. TypeOK'
  BY  DEF TypeOK, Outside, HostBecomes, item
<1>2. Owned'
  BY  DEF Owned, Outside, HostBecomes, item
<1>3. Placed'
  BY  DEF Placed, Underway, Verbs, Outside, HostBecomes, item
<1>4. Ordered'
  BY  DEF Ordered, Underway, Outside, HostBecomes, item
<1>5. Informed'
  BY  DEF Informed, Outside, HostBecomes, item
<1>6. Founded'
  BY  DEF Founded, Placed, Ordered, Informed, TypeOK, Outside, HostBecomes, item
<1>7. Durable'
  BY  DEF Durable, Ordered, Placed, Underway, Outside, HostBecomes, item
<1>8. AnswersCurrent'
  BY  DEF AnswersCurrent, Founded, Informed, TypeOK, Outside, HostBecomes, item
<1> QED
  BY <1>1, <1>2, <1>3, <1>4, <1>5, <1>6, <1>7, <1>8

(* A verb is called. *)
LEMMA BeginIInv ==
  ASSUME IInv, Begin
  PROVE  IInv'
<1> USE DEF IInv, history, call, vars
<1>1. TypeOK'
  BY  DEF TypeOK, Begin, FirstAwait, NewListings, item, Batches, Verbs
<1>2. Owned'
  BY  DEF Owned, Begin, FirstAwait, NewListings, item, Batches, Verbs
<1>3. Placed'
  BY  DEF Placed, Underway, Verbs, Begin, FirstAwait, NewListings, item, Batches,
     Verbs
<1>4. Ordered'
  BY  DEF Ordered, Underway, Begin, FirstAwait, NewListings, item, Batches, Verbs
<1>5. Informed'
  BY  DEF Informed, Begin, FirstAwait, NewListings, item, Batches, Verbs
<1>6. Founded'
  BY  DEF Founded, Placed, Ordered, Informed, TypeOK, Begin, FirstAwait,
     NewListings, item, Batches, Verbs
<1>7. Durable'
  BY  DEF Durable, Ordered, Placed, Underway, Begin, FirstAwait, NewListings, item,
     Batches, Verbs
<1>8. AnswersCurrent'
  BY  DEF AnswersCurrent, Founded, Informed, TypeOK, Begin, FirstAwait, NewListings,
     item, Batches, Verbs
<1> QED
  BY <1>1, <1>2, <1>3, <1>4, <1>5, <1>6, <1>7, <1>8

(* A step that changes nothing. *)
LEMMA QuietIInv ==
  ASSUME IInv, UNCHANGED vars
  PROVE  IInv'
BY DEF IInv, TypeOK, Owned, Placed, Ordered, Informed, Founded, Durable, AnswersCurrent,
       Underway, item, vars, call, history

LEMMA InitIInv == Init => IInv
<1> SUFFICES ASSUME Init PROVE IInv
  OBVIOUS
<1> USE DEF Init
<1>1. TypeOK
  BY OverFacts DEF TypeOK
<1>2. Owned /\ Placed /\ Ordered
  BY DEF Owned, Placed, Ordered, Underway
<1>3. Informed /\ Founded /\ Durable /\ AnswersCurrent
  BY DEF Informed, Founded, Durable, AnswersCurrent
<1> QED
  BY <1>1, <1>2, <1>3 DEF IInv

LEMMA NextIInv ==
  ASSUME IInv, [Next]_vars
  PROVE  IInv'
<1>1. ASSUME NEW s \in Slots, Land(s) PROVE IInv'
  BY <1>1, LandIInv
<1> QED
  BY <1>1, BeginIInv, ProbeRecordIInv, ResolveIInv, ProbeForeignIInv, RunIInv, VerifyIInv,
     SavedIInv, SaveFailsIInv, DroppedIInv, CrashIInv, NewerVersionIInv, BuildIInv,
     OutsideIInv, QuietIInv DEF Next

LEMMA Invariance == Spec => []IInv
BY InitIInv, NextIInv, PTL DEF Spec

(* Every variable keeps its type. *)
THEOREM TypeCorrect == Spec => []TypeOK
<1>1. IInv => TypeOK
  BY DEF IInv
<1> QED
  BY <1>1, Invariance, PTL

(***************************************************************************)
(* The ledger's document is the ledger in memory, except while a save is   *)
(* under way and after one failed or was overtaken (Apps::save_records).   *)
(***************************************************************************)
THEOREM LedgerIsDurable == Spec => []Durable
<1>1. IInv => Durable
  BY DEF IInv
<1> QED
  BY <1>1, Invariance, PTL

(* What an answer says a probe saw was so during its call, whatever the ledger
   and the shared listings hold from before it; of "removed" and "updated", which
   repeat a command, it claims nothing (ForeignListings, ensure_installed_listed,
   uninstall_unrecorded, update, adopt). *)
THEOREM AnswersAreCurrent == Spec => []AnswersCurrent
<1>1. IInv => AnswersCurrent
  BY DEF IInv
<1> QED
  BY <1>1, Invariance, PTL

(* Whatever was found, recorded, loaded or saved late, the ledger names only *)
(* what toride installed or adopted.                                         *)
THEOREM LedgerNamesItsOwn == Spec => []LedgerNamesOwn
<1>1. IInv => LedgerNamesOwn
  BY DEF IInv, Owned, LedgerNamesOwn
<1> QED
  BY <1>1, Invariance, PTL

(* What is about to be saved is what the item's verb asked for. *)
Noted ==
  at = "save" => IF verb = "uninstall" THEN item \notin records ELSE item \in records

RInv == IInv /\ Noted /\ AnswersRecorded

(* The next item does not begin with a save. *)
LEMMA AnswerNoted ==
  ASSUME NEW is, Answer(is)
  PROVE  /\ at' # "save" /\ answer' = [app |-> item, is |-> is]
         /\ answer'.app = item /\ answer'.is = is
BY DEF Answer, FirstAwait

(* An answer that names no change, or no answer, says nothing of the ledger. *)
LEMMA QuietRecorded ==
  ASSUME \/ answer' = None
         \/ /\ answer' # None
            /\ answer'.is \notin {"installed", "updated", "adopted", "removed"}
  PROVE  AnswersRecorded'
BY DEF AnswersRecorded

LEMMA RunsRecord ==
  ASSUME IInv, ProbeRecord \/ Resolve \/ Run
  PROVE  Noted' /\ AnswersRecorded'
<1> DEFINE Quiet(p, is) == \/ Await(p) /\ p # "save"
                           \/ Answer(is) /\ is \notin {"installed", "updated", "adopted", "removed"}
<1>1. ASSUME NEW p, NEW is, Quiet(p, is) PROVE Noted' /\ AnswersRecorded'
  <2>1. CASE Await(p) /\ p # "save"
    BY <2>1, QuietRecorded DEF Await, Noted
  <2>2. CASE Answer(is) /\ is \notin {"installed", "updated", "adopted", "removed"}
    <3>1. at' # "save" /\ answer' = [app |-> item, is |-> is] /\ answer'.is = is
      BY <2>2, AnswerNoted
    <3>2. AnswersRecorded'
      BY <2>2, <3>1 DEF AnswersRecorded
    <3> QED
      BY <3>1, <3>2 DEF Noted
  <2> QED
    BY <1>1, <2>1, <2>2
<1>2. CASE ProbeRecord
  <2>1. \E p, is : Quiet(p, is)
    BY <1>2 DEF ProbeRecord
  <2> QED
    BY <1>1, <2>1
<1>3. CASE Resolve
  <2>1. \E p, is : Quiet(p, is)
    BY <1>3 DEF Resolve
  <2> QED
    BY <1>1, <2>1
<1>4. CASE Run
  <2>1. \E p, is : Quiet(p, is)
    BY <1>4 DEF Run
  <2> QED
    BY <1>1, <2>1
<1> QED
  BY <1>2, <1>3, <1>4

LEMMA ProbeForeignRecord ==
  ASSUME IInv, ProbeForeign
  PROVE  Noted' /\ AnswersRecorded'
<1>1. CASE Answer("failed") \/ Answer("present") \/ Answer("absent") \/ Answer("refused")
  <2>1. PICK is \in {"failed", "present", "absent", "refused"} : Answer(is)
    BY <1>1
  <2>2. at' # "save" /\ answer' = [app |-> item, is |-> is] /\ answer'.is = is
    BY <2>1, AnswerNoted
  <2>3. AnswersRecorded'
    BY <2>2 DEF AnswersRecorded
  <2> QED
    BY <2>2, <2>3 DEF Noted
<1>2. CASE Await("run")
  BY <1>2, QuietRecorded DEF Await, Noted
<1>3. CASE verb = "adopt" /\ records' = records \cup {item} /\ SaveLedger
  <2>1. at' = "save" /\ answer' = None /\ verb' = verb /\ todo' = todo
    BY <1>3 DEF SaveLedger, Await
  <2>2. item' \in records'
    BY <1>3, <2>1 DEF item
  <2> QED
    BY <1>3, <2>1, <2>2, QuietRecorded DEF Noted
<1> QED
  BY <1>1, <1>2, <1>3 DEF ProbeForeign

LEMMA VerifyRecord ==
  ASSUME IInv, Verify
  PROVE  Noted' /\ AnswersRecorded'
<1>1. CASE verb = "uninstall" /\ item \notin records
  <2>1. Answer("removed") /\ UNCHANGED <<records, saves, doc, lost>>
    BY <1>1 DEF Verify, history
  <2>2. at' # "save" /\ answer'.is = "removed" /\ answer'.app = item
    BY <2>1, AnswerNoted
  <2>3. up /\ at = "verify"
    BY DEF IInv, Placed, Verify
  <2>4. lost \/ Underway \/ doc = records
    BY <2>3 DEF IInv, Durable
  <2>5. (lost \/ Underway)' \/ item \notin doc'
    BY <1>1, <2>1, <2>4 DEF Underway
  <2>6. AnswersRecorded'
    BY <1>1, <2>1, <2>2, <2>5 DEF AnswersRecorded
  <2> QED
    BY <2>2, <2>6 DEF Noted
<1>2. CASE ~(verb = "uninstall" /\ item \notin records)
  <2>1. /\ records' = IF verb = "uninstall" THEN records \ {item} ELSE records \cup {item}
        /\ SaveLedger
    BY <1>2 DEF Verify
  <2>2. at' = "save" /\ answer' = None /\ verb' = verb /\ item' = item
    BY <2>1 DEF SaveLedger, Await, item
  <2> QED
    BY <2>1, <2>2, QuietRecorded DEF Noted
<1> QED
  BY <1>1, <1>2

LEMMA SaveEndsRecord ==
  ASSUME IInv, Noted, Saved \/ SaveFails
  PROVE  Noted' /\ AnswersRecorded'
<1>1. at = "save" /\ (verb = "uninstall" <=> item \notin records)
  BY DEF Noted, Saved, SaveFails
<1>2. verb = "uninstall" <=> Outcome = "removed"
  BY DEF Outcome, IInv, TypeOK, Verbs
<1>3. CASE Saved
  <2>1. Answer(Outcome) /\ records' = records /\ doc' = records
    BY <1>3 DEF Saved
  <2>2. at' # "save" /\ answer'.is = Outcome /\ answer'.app = item
    BY <2>1, AnswerNoted
  <2>3. AnswersRecorded'
    BY <1>1, <1>2, <2>1, <2>2 DEF AnswersRecorded
  <2> QED
    BY <2>2, <2>3 DEF Noted
<1>4. CASE SaveFails /\ verb \in {"adopt", "update"}
  <2>1. Answer("failed")
    BY <1>4 DEF SaveFails
  <2>2. at' # "save" /\ answer'.is = "failed"
    BY <2>1, AnswerNoted
  <2>3. AnswersRecorded'
    BY <2>2 DEF AnswersRecorded
  <2> QED
    BY <2>2, <2>3 DEF Noted
<1>5. CASE SaveFails /\ verb \notin {"adopt", "update"}
  <2>1. Answer(Outcome) /\ records' = records /\ lost'
    BY <1>5 DEF SaveFails
  <2>2. at' # "save" /\ answer'.is = Outcome /\ answer'.app = item
    BY <2>1, AnswerNoted
  <2>3. AnswersRecorded'
    BY <1>1, <1>2, <2>1, <2>2 DEF AnswersRecorded
  <2> QED
    BY <2>2, <2>3 DEF Noted
<1> QED
  BY <1>3, <1>4, <1>5

(* The steps that answer nothing. *)
LEMMA RestRecord ==
  ASSUME IInv, Noted,
         \/ Begin \/ Dropped \/ \E s \in Slots : Land(s)
         \/ Crash \/ NewerVersion \/ Build \/ Outside
  PROVE  Noted' /\ AnswersRecorded'
<1>1. AnswersRecorded'
  BY QuietRecorded DEF Begin, Dropped, Land, Crash, NewerVersion, Build, Outside, CallOver
<1>2. CASE Begin
  BY <1>1, <1>2 DEF Begin, FirstAwait, Noted
<1>3. CASE Dropped \/ Crash
  BY <1>1, <1>3 DEF Dropped, Crash, CallOver, Noted
<1>4. CASE (\E s \in Slots : Land(s)) \/ NewerVersion \/ Outside
  BY <1>1, <1>4 DEF Land, NewerVersion, Outside, call, item, Noted
<1>5. CASE Build
  BY <1>1, <1>5 DEF Build, IInv, Placed, call, Noted
<1> QED
  BY <1>2, <1>3, <1>4, <1>5

LEMMA NextRInv == RInv /\ [Next]_vars => RInv'
<1> SUFFICES ASSUME RInv, [Next]_vars PROVE Noted' /\ AnswersRecorded'
  BY NextIInv DEF RInv
<1>1. CASE UNCHANGED vars
  BY <1>1 DEF RInv, Noted, AnswersRecorded, Underway, item, vars, call, history
<1> QED
  BY <1>1, RunsRecord, ProbeForeignRecord, VerifyRecord, SaveEndsRecord, RestRecord
     DEF RInv, Next

(***************************************************************************)
(* An answer says what the ledger says, in memory and, unless a save       *)
(* failed, in the document (Apps::save_records and its callers).           *)
(***************************************************************************)
THEOREM AnswersAreRecorded == Spec => []AnswersRecorded
<1>1. Init => RInv
  BY InitIInv DEF Init, RInv, Noted, AnswersRecorded
<1>2. RInv => AnswersRecorded
  BY DEF RInv
<1> QED
  BY <1>1, <1>2, NextRInv, PTL DEF Spec

(* A command removes at most the item in hand, on a removal that was forced or of an
   application that toride installed or adopted and has a record of. *)
LEMMA CommandRemoves ==
  ASSUME IInv, at = "run", Command
  PROVE  \A app \in host \ host' : app \in claimed \cap records \/ insist
<1>1. \A app \in host \ host' : verb = "uninstall" /\ app = item
  BY DEF Command, HostBecomes
<1>2. verb = "uninstall" /\ ~insist => item \in claimed \cap records
  BY DEF IInv, Founded, Owned
<1>3. insist \in BOOLEAN
  BY DEF IInv, TypeOK
<1> QED
  BY <1>1, <1>2, <1>3

(* Unless it is forced, no call ever removes an application that toride neither
   installed nor adopted, or has no record of, whatever crashes, drops and failed
   saves made of the ledger (Apps::uninstall, the refusal of
   uninstall_unrecorded). *)
THEOREM OnlyOwnRemovals == Spec => OwnRemovals
<1> DEFINE Kept == <<at, todo>>' # <<at, todo>> =>
                     \A app \in host \ host' : app \in claimed \cap records \/ insist
<1>1. IInv /\ [Next]_vars => Kept
  <2> SUFFICES ASSUME IInv, [Next]_vars PROVE Kept
    OBVIOUS
  <2>1. CASE host' = host
    BY <2>1
  <2>2. CASE Run
    BY <2>2, CommandRemoves DEF Run
  <2>3. CASE Dropped
    BY <2>3, <2>1, CommandRemoves DEF Dropped
  <2>4. CASE Crash
    BY <2>4, <2>1, CommandRemoves DEF Crash
  <2>5. CASE Outside
    BY <2>5 DEF Outside, call
  <2>6. ASSUME Next, ~(Run \/ Dropped \/ Crash \/ Outside) PROVE host' = host
    BY <2>6 DEF Next, Begin, ProbeRecord, Resolve, ProbeForeign, Verify, Saved, SaveFails,
       Land, NewerVersion, Build
  <2> QED
    BY <2>1, <2>2, <2>3, <2>4, <2>5, <2>6 DEF vars
<1> QED
  BY <1>1, Invariance, PTL DEF Spec, OwnRemovals
==============================================================================
