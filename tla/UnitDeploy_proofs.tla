--------------------------- MODULE UnitDeploy_proofs ---------------------------
(***************************************************************************)
(* Proofs about UnitDeploy, for every set of calls and every bound on the  *)
(* backups kept.                                                           *)
(***************************************************************************)
EXTENDS UnitDeploy, FiniteSetTheorems, TLAPS

Steps == Inside \cup {"idle", "lock", "done"}

(* The steps at which the new version is at the unit's path. *)
Installed ==
  {"prune"} \cup Activating \cup Recording \cup {"disable", "restore"}

(* Everybody inside holds the lock, and a call is answered once it is over. *)
Control ==
  \A c \in Calls :
    /\ pc[c] \in Inside <=> lock = c
    /\ result[c] = "none" <=> pc[c] # "done"
    /\ pc[c] \in {"idle", "lock"} => own[c] = 0 /\ ~botched[c]

(* What a call that holds the lock knows about the file and its backup. *)
Holding(c) ==
  /\ latest = c
  /\ pc[c] = "backup" => own[c] = 0 /\ file = found[c]
  /\ pc[c] # "backup" => (own[c] = 0 <=> found[c] = None)
  /\ \A b \in backups : own[c] # 0 /\ b.stamp = own[c] => b.is = found[c]
  /\ pc[c] \in {"write", "backup"} => file = found[c]
  /\ pc[c] \in Installed => file = c
  /\ pc[c] = "unwrite" => file \in {found[c], c, None}
  /\ pc[c] \in {"unspent", "unload"} =>
       file \in {found[c], c, None} /\ (~botched[c] => file = found[c])

IInv == TypeOK /\ Control /\ (lock # None => Holding(lock))

(* Every verb that fails leads into the rollback. *)
LEMMA FailsToRollBack ==
  ASSUME NEW c
  PROVE  FailsTo(c) \in {"disable", "restore"}
BY DEF FailsTo

(* A step inside the critical section keeps the lock and moves one counter. *)
LEMMA GoesControl ==
  ASSUME IInv, NEW c \in Calls, NEW to \in Inside, Goes(c, to), pc[c] \in Inside
  PROVE  /\ lock = c /\ lock' = c /\ lock # None
         /\ Holding(c)
         /\ pc' \in [Calls -> Steps] /\ pc'[c] = to
         /\ result' \in [Calls -> Results]
         /\ \A d \in Calls : d # c => pc'[d] = pc[d]
<1>1. lock = c /\ lock # None
  BY DeployAssumption DEF IInv, Control, DeployAssumption
<1>2. pc \in [Calls -> Steps]
  BY DEF IInv, TypeOK, Steps
<1>3. pc' \in [Calls -> Steps] /\ pc'[c] = to /\ \A d \in Calls : d # c => pc'[d] = pc[d]
  BY <1>2 DEF Goes, Steps
<1> QED
  BY <1>1, <1>3 DEF IInv, Goes, TypeOK

(* Such a step keeps the control part of the invariant. *)
LEMMA GoesKeepsControl ==
  ASSUME IInv, NEW c \in Calls, NEW to \in Inside, Goes(c, to), pc[c] \in Inside,
         \A d \in Calls : d # c => own'[d] = own[d] /\ botched'[d] = botched[d]
  PROVE  Control'
<1>1. /\ lock = c /\ lock' = c /\ pc'[c] = to
      /\ \A d \in Calls : d # c => pc'[d] = pc[d]
  BY GoesControl
<1>2. result' = result
  BY DEF Goes
<1>3. to \notin {"idle", "lock", "done"} /\ pc[c] \notin {"idle", "lock", "done"}
  BY DEF Inside, Preparing, Activating, Recording, RollingBack
<1> QED
  BY <1>1, <1>2, <1>3 DEF IInv, Control

(* Answering frees the lock. *)
LEMMA ReturnsControl ==
  ASSUME IInv, NEW c \in Calls, NEW r \in Results \ {"none"}, Returns(c, r),
         pc[c] \in Inside,
         \A d \in Calls : d # c => own'[d] = own[d] /\ botched'[d] = botched[d]
  PROVE  /\ lock = c /\ lock' = None /\ c # None
         /\ Holding(c)
         /\ pc' \in [Calls -> Steps]
         /\ result' = [result EXCEPT ![c] = r] /\ result' \in [Calls -> Results]
         /\ Control'
<1>1. lock = c /\ lock # None
  BY DeployAssumption DEF IInv, Control, DeployAssumption
<1>2. lock' = None
  BY <1>1 DEF Returns
<1>3. pc \in [Calls -> Steps] /\ result \in [Calls -> Results]
  BY DEF IInv, TypeOK, Steps
<1>4. /\ pc' \in [Calls -> Steps] /\ pc'[c] = "done"
      /\ \A d \in Calls : d # c => pc'[d] = pc[d]
  BY <1>3 DEF Returns, Steps
<1>5. /\ result' \in [Calls -> Results] /\ result'[c] = r
      /\ \A d \in Calls : d # c => result'[d] = result[d]
  BY <1>3 DEF Returns
<1>6. \A d \in Calls : d # c => pc[d] \notin Inside
  BY <1>1 DEF IInv, Control
<1>7. "done" \notin Inside
  BY DEF Inside, Preparing, Activating, Recording, RollingBack
<1>8. Control'
  BY <1>2, <1>4, <1>5, <1>6, <1>7, DeployAssumption DEF IInv, Control, DeployAssumption
<1> QED
  BY <1>1, <1>2, <1>4, <1>5, <1>8 DEF IInv, Returns


(* What is left to show of a step that stays inside. *)
LEMMA StaysInside ==
  ASSUME IInv, NEW c \in Calls, NEW to \in Inside, Goes(c, to), pc[c] \in Inside,
         \A d \in Calls : d # c => own'[d] = own[d] /\ botched'[d] = botched[d],
         TypeOK', Holding(c)'
  PROVE  IInv'
<1>1. lock' = c
  BY GoesControl
<1>2. Control'
  BY GoesKeepsControl
<1> QED
  BY <1>1, <1>2 DEF IInv

(* The files are as typed after a step that changes their contents only. *)
LEMMA PcSets ==
  /\ "backup" \notin Installed /\ "write" \notin Installed /\ "unwrite" \notin Installed
  /\ "unspent" \notin Installed /\ "unload" \notin Installed
  /\ {"prune", "reload", "query", "enable", "start", "confirm", "load", "save",
      "spent", "disable", "restore"} = Installed
  /\ Installed \cup {"backup", "write", "unwrite", "unspent", "unload"} = Inside
BY DEF Installed, Inside, Preparing, Activating, Recording, RollingBack


(* Pruning touches neither the file nor the contents of a backup. *)
LEMMA PruneIInv ==
  ASSUME IInv, NEW c \in Calls, Prune(c)
  PROVE  IInv'
<1>1. pc[c] = "prune" /\ pc[c] \in Inside
  BY PcSets DEF Prune
<1>2. PICK to \in {"spent", "reload"} : Goes(c, to)
  BY FailsToRollBack DEF Prune
<1>3. to \in Inside
  BY PcSets
<1>4. /\ lock = c /\ lock' = c /\ lock # None
      /\ Holding(c)
      /\ pc' \in [Calls -> Steps] /\ pc'[c] = to
      /\ result' \in [Calls -> Results]
  BY <1>1, <1>2, <1>3, GoesControl
<1>5. \A d \in Calls : d # c => own'[d] = own[d] /\ botched'[d] = botched[d]
  BY DEF Prune, diskVars, unitVars, localVars, pastVars
<1>6. TypeOK'
  BY <1>4 DEF IInv, TypeOK, Steps, Prune, diskVars, unitVars, localVars, pastVars
<1>7. Holding(c)'
  BY <1>1, <1>4, PcSets DEF Holding, Prune, diskVars, unitVars, localVars, pastVars
<1> QED
  BY <1>1, <1>2, <1>3, <1>5, <1>6, <1>7, StaysInside

(* A daemon-reload reads the file. *)
LEMMA ReloadIInv ==
  ASSUME IInv, NEW c \in Calls, Reload(c)
  PROVE  IInv'
<1>1. pc[c] = "reload" /\ pc[c] \in Inside
  BY PcSets DEF Reload
<1>2. PICK to \in {"query", "disable", "restore"} : Goes(c, to)
  BY FailsToRollBack DEF Reload
<1>3. to \in Inside
  BY PcSets
<1>4. /\ lock = c /\ lock' = c /\ lock # None
      /\ Holding(c)
      /\ pc' \in [Calls -> Steps] /\ pc'[c] = to
      /\ result' \in [Calls -> Results]
  BY <1>1, <1>2, <1>3, GoesControl
<1>5. \A d \in Calls : d # c => own'[d] = own[d] /\ botched'[d] = botched[d]
  BY DEF Reload, diskVars, unitVars, localVars, pastVars
<1>6. TypeOK'
  BY <1>4 DEF IInv, TypeOK, Steps, Reload, diskVars, unitVars, localVars, pastVars
<1>7. Holding(c)'
  BY <1>1, <1>4, PcSets DEF Holding, Reload, diskVars, unitVars, localVars, pastVars
<1> QED
  BY <1>1, <1>2, <1>3, <1>5, <1>6, <1>7, StaysInside

(* The query only records the enablement. *)
LEMMA QueryIInv ==
  ASSUME IInv, NEW c \in Calls, Query(c)
  PROVE  IInv'
<1>1. pc[c] = "query" /\ pc[c] \in Inside
  BY PcSets DEF Query
<1>2. PICK to \in {"start", "enable", "disable", "restore"} : Goes(c, to)
  BY FailsToRollBack DEF Query
<1>3. to \in Inside
  BY PcSets
<1>4. /\ lock = c /\ lock' = c /\ lock # None
      /\ Holding(c)
      /\ pc' \in [Calls -> Steps] /\ pc'[c] = to
      /\ result' \in [Calls -> Results]
  BY <1>1, <1>2, <1>3, GoesControl
<1>5. \A d \in Calls : d # c => own'[d] = own[d] /\ botched'[d] = botched[d]
  BY DEF Query, diskVars, unitVars, localVars, pastVars
<1>6. TypeOK'
  BY <1>4 DEF IInv, TypeOK, Steps, Query, diskVars, unitVars, localVars, pastVars
<1>7. Holding(c)'
  BY <1>1, <1>4, PcSets DEF Holding, Query, diskVars, unitVars, localVars, pastVars
<1> QED
  BY <1>1, <1>2, <1>3, <1>5, <1>6, <1>7, StaysInside

(* Enabling leaves the file alone. *)
LEMMA EnableIInv ==
  ASSUME IInv, NEW c \in Calls, Enable(c)
  PROVE  IInv'
<1>1. pc[c] = "enable" /\ pc[c] \in Inside
  BY PcSets DEF Enable
<1>2. PICK to \in {"start", "disable", "restore"} : Goes(c, to)
  BY FailsToRollBack DEF Enable
<1>3. to \in Inside
  BY PcSets
<1>4. /\ lock = c /\ lock' = c /\ lock # None
      /\ Holding(c)
      /\ pc' \in [Calls -> Steps] /\ pc'[c] = to
      /\ result' \in [Calls -> Results]
  BY <1>1, <1>2, <1>3, GoesControl
<1>5. \A d \in Calls : d # c => own'[d] = own[d] /\ botched'[d] = botched[d]
  BY DEF Enable, diskVars, unitVars, localVars, pastVars
<1>6. TypeOK'
  BY <1>4 DEF IInv, TypeOK, Steps, Enable, diskVars, unitVars, localVars, pastVars
<1>7. Holding(c)'
  BY <1>1, <1>4, PcSets DEF Holding, Enable, diskVars, unitVars, localVars, pastVars
<1> QED
  BY <1>1, <1>2, <1>3, <1>5, <1>6, <1>7, StaysInside

(* Starting leaves the file alone. *)
LEMMA StartIInv ==
  ASSUME IInv, NEW c \in Calls, Start(c)
  PROVE  IInv'
<1>1. pc[c] = "start" /\ pc[c] \in Inside
  BY PcSets DEF Start
<1>2. PICK to \in {"confirm", "disable", "restore"} : Goes(c, to)
  BY FailsToRollBack DEF Start
<1>3. to \in Inside
  BY PcSets
<1>4. /\ lock = c /\ lock' = c /\ lock # None
      /\ Holding(c)
      /\ pc' \in [Calls -> Steps] /\ pc'[c] = to
      /\ result' \in [Calls -> Results]
  BY <1>1, <1>2, <1>3, GoesControl
<1>5. \A d \in Calls : d # c => own'[d] = own[d] /\ botched'[d] = botched[d]
  BY DEF Start, diskVars, unitVars, localVars, pastVars
<1>6. TypeOK'
  BY <1>4 DEF IInv, TypeOK, Steps, Start, StartUnit, Launch, Versions, diskVars, unitVars, localVars, pastVars
<1>7. Holding(c)'
  BY <1>1, <1>4, PcSets DEF Holding, Start, StartUnit, Launch, Versions, diskVars, unitVars, localVars, pastVars
<1> QED
  BY <1>1, <1>2, <1>3, <1>5, <1>6, <1>7, StaysInside

(* The check changes nothing. *)
LEMMA ConfirmIInv ==
  ASSUME IInv, NEW c \in Calls, Confirm(c)
  PROVE  IInv'
<1>1. pc[c] = "confirm" /\ pc[c] \in Inside
  BY PcSets DEF Confirm
<1>2. PICK to \in {"load", "disable", "restore"} : Goes(c, to)
  BY FailsToRollBack DEF Confirm
<1>3. to \in Inside
  BY PcSets
<1>4. /\ lock = c /\ lock' = c /\ lock # None
      /\ Holding(c)
      /\ pc' \in [Calls -> Steps] /\ pc'[c] = to
      /\ result' \in [Calls -> Results]
  BY <1>1, <1>2, <1>3, GoesControl
<1>5. \A d \in Calls : d # c => own'[d] = own[d] /\ botched'[d] = botched[d]
  BY DEF Confirm, diskVars, unitVars, localVars, pastVars
<1>6. TypeOK'
  BY <1>4 DEF IInv, TypeOK, Steps, Confirm, diskVars, unitVars, localVars, pastVars
<1>7. Holding(c)'
  BY <1>1, <1>4, PcSets DEF Holding, Confirm, diskVars, unitVars, localVars, pastVars
<1> QED
  BY <1>1, <1>2, <1>3, <1>5, <1>6, <1>7, StaysInside

(* Loading the ledger leaves the file alone. *)
LEMMA LoadLedgerIInv ==
  ASSUME IInv, NEW c \in Calls, LoadLedger(c)
  PROVE  IInv'
<1>1. pc[c] = "load" /\ pc[c] \in Inside
  BY PcSets DEF LoadLedger
<1>2. PICK to \in {"save", "spent"} : Goes(c, to)
  BY FailsToRollBack DEF LoadLedger
<1>3. to \in Inside
  BY PcSets
<1>4. /\ lock = c /\ lock' = c /\ lock # None
      /\ Holding(c)
      /\ pc' \in [Calls -> Steps] /\ pc'[c] = to
      /\ result' \in [Calls -> Results]
  BY <1>1, <1>2, <1>3, GoesControl
<1>5. \A d \in Calls : d # c => own'[d] = own[d] /\ botched'[d] = botched[d]
  BY DEF LoadLedger, diskVars, unitVars, localVars, pastVars
<1>6. TypeOK'
  BY <1>4 DEF IInv, TypeOK, Steps, LoadLedger, diskVars, unitVars, localVars, pastVars
<1>7. Holding(c)'
  BY <1>1, <1>4, PcSets DEF Holding, LoadLedger, diskVars, unitVars, localVars, pastVars
<1> QED
  BY <1>1, <1>2, <1>3, <1>5, <1>6, <1>7, StaysInside

(* So does saving it. *)
LEMMA SaveLedgerIInv ==
  ASSUME IInv, NEW c \in Calls, SaveLedger(c)
  PROVE  IInv'
<1>1. pc[c] = "save" /\ pc[c] \in Inside
  BY PcSets DEF SaveLedger
<1>2. PICK to \in {"spent"} : Goes(c, to)
  BY FailsToRollBack DEF SaveLedger
<1>3. to \in Inside
  BY PcSets
<1>4. /\ lock = c /\ lock' = c /\ lock # None
      /\ Holding(c)
      /\ pc' \in [Calls -> Steps] /\ pc'[c] = to
      /\ result' \in [Calls -> Results]
  BY <1>1, <1>2, <1>3, GoesControl
<1>5. \A d \in Calls : d # c => own'[d] = own[d] /\ botched'[d] = botched[d]
  BY DEF SaveLedger, diskVars, unitVars, localVars, pastVars
<1>6. TypeOK'
  BY <1>4 DEF IInv, TypeOK, Steps, SaveLedger, diskVars, unitVars, localVars, pastVars
<1>7. Holding(c)'
  BY <1>1, <1>4, PcSets DEF Holding, SaveLedger, diskVars, unitVars, localVars, pastVars
<1> QED
  BY <1>1, <1>2, <1>3, <1>5, <1>6, <1>7, StaysInside

(* Disabling leaves the file alone. *)
LEMMA DisableIInv ==
  ASSUME IInv, NEW c \in Calls, Disable(c)
  PROVE  IInv'
<1>1. pc[c] = "disable" /\ pc[c] \in Inside
  BY PcSets DEF Disable
<1>2. PICK to \in {"restore"} : Goes(c, to)
  BY FailsToRollBack DEF Disable
<1>3. to \in Inside
  BY PcSets
<1>4. /\ lock = c /\ lock' = c /\ lock # None
      /\ Holding(c)
      /\ pc' \in [Calls -> Steps] /\ pc'[c] = to
      /\ result' \in [Calls -> Results]
  BY <1>1, <1>2, <1>3, GoesControl
<1>5. \A d \in Calls : d # c => own'[d] = own[d] /\ botched'[d] = botched[d]
  BY DEF Disable, IInv, TypeOK, diskVars, unitVars, localVars, pastVars
<1>6. TypeOK'
  BY <1>4 DEF IInv, TypeOK, Steps, Disable, diskVars, unitVars, localVars, pastVars
<1>7. Holding(c)'
  BY <1>1, <1>4, PcSets DEF Holding, Disable, diskVars, unitVars, localVars, pastVars
<1> QED
  BY <1>1, <1>2, <1>3, <1>5, <1>6, <1>7, StaysInside

(* The file is the one found, or the failure is remembered. *)
LEMMA RestoreIInv ==
  ASSUME IInv, NEW c \in Calls, Restore(c)
  PROVE  IInv'
<1>1. pc[c] = "restore" /\ pc[c] \in Inside
  BY PcSets DEF Restore
<1>2. PICK to \in {"unspent"} : Goes(c, to)
  BY FailsToRollBack DEF Restore
<1>3. to \in Inside
  BY PcSets
<1>4. /\ lock = c /\ lock' = c /\ lock # None
      /\ Holding(c)
      /\ pc' \in [Calls -> Steps] /\ pc'[c] = to
      /\ result' \in [Calls -> Results]
  BY <1>1, <1>2, <1>3, GoesControl
<1>5. \A d \in Calls : d # c => own'[d] = own[d] /\ botched'[d] = botched[d]
  BY DEF Restore, IInv, TypeOK, diskVars, unitVars, localVars, pastVars
<1>6. TypeOK'
  <2>1. file' \in Versions \cup {None}
    <3>1. CASE Restored(c)
      BY <3>1 DEF IInv, TypeOK, Restored, OwnBackup
    <3>2. CASE NotRestored(c)
      BY <3>2 DEF IInv, TypeOK, NotRestored
    <3> QED
      BY <3>1, <3>2 DEF Restore
  <2>2. botched' \in [Calls -> BOOLEAN]
    BY DEF IInv, TypeOK, Restore
  <2> QED
    BY <1>4, <2>1, <2>2 DEF IInv, TypeOK, Steps, Restore, unitVars, localVars, pastVars
<1>7. Holding(c)'
  <2>1. /\ file' \in {found[c], c, None}
        /\ ~botched'[c] => file' = found[c]
    <3>1. CASE Restored(c)
      BY <1>1, <1>4, <3>1, PcSets DEF Holding, Restored, OwnBackup
    <3>2. CASE NotRestored(c) /\ botched' = [botched EXCEPT ![c] = TRUE]
      BY <1>1, <1>4, <3>2, PcSets DEF Holding, NotRestored, IInv, TypeOK
    <3> QED
      BY <3>1, <3>2 DEF Restore
  <2> QED
    BY <1>1, <1>4, <2>1, PcSets DEF Holding, Restore, pastVars
<1> QED
  BY <1>1, <1>2, <1>3, <1>5, <1>6, <1>7, StaysInside

(* The backup goes once the file is restored. *)
LEMMA UnspentIInv ==
  ASSUME IInv, NEW c \in Calls, Unspent(c)
  PROVE  IInv'
<1>1. pc[c] = "unspent" /\ pc[c] \in Inside
  BY PcSets DEF Unspent
<1>2. PICK to \in {"unload"} : Goes(c, to)
  BY FailsToRollBack DEF Unspent
<1>3. to \in Inside
  BY PcSets
<1>4. /\ lock = c /\ lock' = c /\ lock # None
      /\ Holding(c)
      /\ pc' \in [Calls -> Steps] /\ pc'[c] = to
      /\ result' \in [Calls -> Results]
  BY <1>1, <1>2, <1>3, GoesControl
<1>5. \A d \in Calls : d # c => own'[d] = own[d] /\ botched'[d] = botched[d]
  BY DEF Unspent, diskVars, unitVars, localVars, pastVars
<1>6. TypeOK'
  BY <1>4 DEF IInv, TypeOK, Steps, Unspent, Discard, OwnBackup, diskVars, unitVars, localVars, pastVars
<1>7. Holding(c)'
  BY <1>1, <1>4, PcSets DEF Holding, Unspent, Discard, OwnBackup, diskVars, unitVars, localVars, pastVars
<1> QED
  BY <1>1, <1>2, <1>3, <1>5, <1>6, <1>7, StaysInside

(* The new version, or one of three after a failure. *)
LEMMA WriteIInv ==
  ASSUME IInv, NEW c \in Calls, Write(c)
  PROVE  IInv'
<1>1. pc[c] = "write" /\ pc[c] \in Inside
  BY PcSets DEF Write
<1>2. PICK to \in {"prune", "spent", "reload", "unwrite"} : Goes(c, to)
  BY FailsToRollBack DEF Write
<1>3. to \in Inside
  BY PcSets
<1>4. /\ lock = c /\ lock' = c /\ lock # None
      /\ Holding(c)
      /\ pc' \in [Calls -> Steps] /\ pc'[c] = to
      /\ result' \in [Calls -> Results]
  BY <1>1, <1>2, <1>3, GoesControl
<1>5. \A d \in Calls : d # c => own'[d] = own[d] /\ botched'[d] = botched[d]
  BY DEF Write, diskVars, unitVars, localVars, pastVars
<1>6. TypeOK'
  BY <1>4 DEF IInv, TypeOK, Steps, Write, Versions, diskVars, unitVars, localVars, pastVars
<1>7. Holding(c)'
  <2>1. UNCHANGED <<backups, own, botched, found, latest>>
    BY DEF Write, localVars, pastVars
  <2>2. \/ file' = c /\ to \in Installed
        \/ file' \in {found[c], c, None} /\ to = "unwrite"
    <3>1. CASE file' = c /\ Goes(c, IF own[c] # 0 THEN "prune"
                                  ELSE IF c \in Installs THEN "spent" ELSE "reload")
      <4>1. pc'[c] \in {"prune", "spent", "reload"}
        BY <3>1 DEF Goes, IInv, TypeOK
      <4> QED
        BY <1>4, <3>1, <4>1, PcSets
    <3>2. CASE file' \in {file, c, None} /\ Goes(c, "unwrite")
      <4>1. pc'[c] = "unwrite"
        BY <3>2 DEF Goes, IInv, TypeOK
      <4> QED
        BY <1>1, <1>4, <3>2, <4>1 DEF Holding
    <3> QED
      BY <3>1, <3>2 DEF Write
  <2> QED
    BY <1>1, <1>4, <2>1, <2>2, PcSets DEF Holding
<1> QED
  BY <1>1, <1>2, <1>3, <1>5, <1>6, <1>7, StaysInside

(* The new name is not in use when the clock has only gone forward, and a copy
   taken at a used name replaces the other: either way one backup has it. *)
LEMMA StoreOne ==
  ASSUME IInv, NEW b \in [stamp : Nat \ {0}, is : Versions]
  PROVE  /\ Store(b) \subseteq [stamp : Nat \ {0}, is : Versions]
         /\ b \in Store(b)
         /\ \A other \in Store(b) : other.stamp = b.stamp => other = b
BY DEF Store, IInv, TypeOK

(* The copy holds the file found. *)
LEMMA BackupIInv ==
  ASSUME IInv, NEW c \in Calls, Backup(c)
  PROVE  IInv'
<1> USE DeployAssumption DEF DeployAssumption
<1>1. pc[c] = "backup" /\ pc[c] \in Inside
  BY PcSets DEF Backup
<1>2. lock = c /\ Holding(c) /\ lock # None
  BY <1>1 DEF IInv, Control
<1>3. \A d \in Calls : d # c => own'[d] = own[d] /\ botched'[d] = botched[d]
  BY DEF Backup, IInv, TypeOK
<1>4. UNCHANGED <<file, enabled, loaded, running, succeeded, launched, ledger, prior,
                  botched, copy, found, cold, latest>>
  BY DEF Backup, unitVars, pastVars
<1>5. CASE Goes(c, "write")
  <2>1. /\ lock' = c /\ pc' \in [Calls -> Steps] /\ pc'[c] = "write"
        /\ result' \in [Calls -> Results]
    BY <1>1, <1>5, GoesControl, PcSets
  <2>2. /\ backups' \subseteq [stamp : Nat \ {0}, is : Versions]
        /\ clock' \in Nat /\ own' \in [Calls -> Nat]
        /\ own'[c] = 0 <=> found[c] = None
        /\ \A b \in backups' : own'[c] # 0 /\ b.stamp = own'[c] => b.is = found[c]
    <3>1. file = found[c] /\ own[c] = 0
      BY <1>1, <1>2 DEF Holding
    <3>2. CASE file = None
      <4>1. UNCHANGED <<backups, clock, own>>
        BY <3>2 DEF Backup
      <4> QED
        BY <3>1, <3>2, <4>1 DEF IInv, TypeOK
    <3>3. CASE file # None
      <4> DEFINE b == [stamp |-> Stamp, is |-> file]
      <4>1. "write" # "done" /\ pc[c] # "done"
        BY <1>1
      <4>2. /\ clock' = clock + 1
            /\ backups' = Store(b)
            /\ own' = [own EXCEPT ![c] = Stamp]
        BY <1>5, <2>1, <3>3, <4>1 DEF Backup, Returns, Goes, IInv, TypeOK
      <4>3. Stamp \in Nat \ {0} /\ file \in Versions /\ clock + 1 \in Nat
        BY <3>3 DEF Stamp, IInv, TypeOK
      <4>4. b \in [stamp : Nat \ {0}, is : Versions] /\ b.stamp = Stamp /\ b.is = file
        BY <4>3
      <4>5. /\ Store(b) \subseteq [stamp : Nat \ {0}, is : Versions]
            /\ \A other \in Store(b) : other.stamp = b.stamp => other = b
        BY <4>4, StoreOne
      <4>6. own' \in [Calls -> Nat] /\ own'[c] = Stamp
        BY <4>2, <4>3 DEF IInv, TypeOK
      <4> HIDE DEF b
      <4> QED
        BY <3>1, <3>3, <4>2, <4>3, <4>4, <4>5, <4>6
    <3> QED
      BY <3>2, <3>3
  <2>3. TypeOK'
    BY <1>4, <2>1, <2>2 DEF IInv, TypeOK, Steps
  <2>4. Holding(c)'
    BY <1>1, <1>2, <1>4, <2>1, <2>2, PcSets DEF Holding
  <2> QED
    BY <1>1, <1>3, <1>5, <2>3, <2>4, StaysInside, PcSets
<1>6. CASE /\ file # None /\ clock' = clock + 1
           /\ backups' \in {backups, Store([stamp |-> Stamp, is |-> Other])}
           /\ Returns(c, "refused") /\ UNCHANGED own
  <2>1. /\ lock' = None /\ pc' \in [Calls -> Steps] /\ Control'
        /\ result' \in [Calls -> Results]
    BY <1>1, <1>3, <1>6, ReturnsControl DEF Results
  <2>2. [stamp |-> Stamp, is |-> Other] \in [stamp : Nat \ {0}, is : Versions]
    BY DEF Stamp, IInv, TypeOK, Versions
  <2>3. backups' \subseteq [stamp : Nat \ {0}, is : Versions]
    BY <1>6, <2>2, StoreOne DEF IInv, TypeOK
  <2>4. TypeOK'
    BY <1>4, <1>6, <2>1, <2>3 DEF IInv, TypeOK, Steps
  <2> QED
    BY <2>1, <2>4 DEF IInv
<1> QED
  BY <1>5, <1>6 DEF Backup


(* After a failed write the file may be anything that was there. *)
LEMMA UnwriteIInv ==
  ASSUME IInv, NEW c \in Calls, Unwrite(c)
  PROVE  IInv'
<1>1. pc[c] \in Inside
  BY PcSets DEF Unwrite
<1>2. PICK r \in Results \ {"none"} : Returns(c, r)
  BY DEF Unwrite, Results
<1>3. \A d \in Calls : d # c => own'[d] = own[d] /\ botched'[d] = botched[d]
  BY DEF Unwrite, localVars
<1>4. /\ lock = c /\ lock' = None /\ Holding(c) /\ pc' \in [Calls -> Steps]
      /\ result' \in [Calls -> Results] /\ Control'
  BY <1>1, <1>2, <1>3, ReturnsControl
<1>5. TypeOK'
  BY <1>1, <1>4, PcSets DEF IInv, TypeOK, Steps, Unwrite, Restored, NotRestored, OwnBackup, Versions, diskVars, unitVars, localVars, pastVars
<1> QED
  BY <1>4, <1>5 DEF IInv

(* A call that worked drops its backup at most. *)
LEMMA SucceedIInv ==
  ASSUME IInv, NEW c \in Calls, Succeed(c)
  PROVE  IInv'
<1>1. pc[c] \in Inside
  BY PcSets DEF Succeed
<1>2. PICK r \in Results \ {"none"} : Returns(c, r)
  BY DEF Succeed, Results
<1>3. \A d \in Calls : d # c => own'[d] = own[d] /\ botched'[d] = botched[d]
  BY DEF Succeed, localVars
<1>4. /\ lock = c /\ lock' = None /\ Holding(c) /\ pc' \in [Calls -> Steps]
      /\ result' \in [Calls -> Results] /\ Control'
  BY <1>1, <1>2, <1>3, ReturnsControl
<1>5. TypeOK'
  BY <1>1, <1>4, PcSets DEF IInv, TypeOK, Steps, Succeed, Discard, OwnBackup, diskVars, unitVars, localVars, pastVars
<1> QED
  BY <1>4, <1>5 DEF IInv

(* The last daemon-reload. *)
LEMMA UnloadIInv ==
  ASSUME IInv, NEW c \in Calls, Unload(c)
  PROVE  IInv'
<1>1. pc[c] \in Inside
  BY PcSets DEF Unload
<1>2. PICK r \in Results \ {"none"} : Returns(c, r)
  BY DEF Unload, Results
<1>3. \A d \in Calls : d # c => own'[d] = own[d] /\ botched'[d] = botched[d]
  BY DEF Unload, localVars
<1>4. /\ lock = c /\ lock' = None /\ Holding(c) /\ pc' \in [Calls -> Steps]
      /\ result' \in [Calls -> Results] /\ Control'
  BY <1>1, <1>2, <1>3, ReturnsControl
<1>5. TypeOK'
  BY <1>1, <1>4, PcSets DEF IInv, TypeOK, Steps, Unload, diskVars, unitVars, localVars, pastVars
<1> QED
  BY <1>4, <1>5 DEF IInv

(* A dead process leaves everything as it is. *)
LEMMA CrashIInv ==
  ASSUME IInv, NEW c \in Calls, Crash(c)
  PROVE  IInv'
<1>1. pc[c] \in Inside
  BY PcSets DEF Crash
<1>2. PICK r \in Results \ {"none"} : Returns(c, r)
  BY DEF Crash, Results
<1>3. \A d \in Calls : d # c => own'[d] = own[d] /\ botched'[d] = botched[d]
  BY DEF Crash, localVars
<1>4. /\ lock = c /\ lock' = None /\ Holding(c) /\ pc' \in [Calls -> Steps]
      /\ result' \in [Calls -> Results] /\ Control'
  BY <1>1, <1>2, <1>3, ReturnsControl
<1>5. TypeOK'
  BY <1>1, <1>4, PcSets DEF IInv, TypeOK, Steps, Crash, diskVars, unitVars, localVars, pastVars
<1> QED
  BY <1>4, <1>5 DEF IInv

(* Waiting for the lock is outside. *)
LEMMA CallIInv ==
  ASSUME IInv, NEW c \in Calls, Call(c)
  PROVE  IInv'
<1> USE DEF diskVars, unitVars, localVars, pastVars
<1>1. pc \in [Calls -> Steps] /\ pc[c] = "idle" /\ pc' = [pc EXCEPT ![c] = "lock"]
  BY DEF Call, Goes, IInv, TypeOK, Steps
<1>2. UNCHANGED <<vars>> \/ UNCHANGED <<diskVars, lock, unitVars, ledger, localVars, result, pastVars>>
  BY DEF Call, Goes
<1>3. "idle" \notin Inside /\ "lock" \notin Inside
  BY DEF Inside, Preparing, Activating, Recording, RollingBack
<1>4. TypeOK'
  BY <1>1, <1>2 DEF IInv, TypeOK, Steps, vars
<1>5. Control'
  BY <1>1, <1>2, <1>3 DEF IInv, Control, vars
<1>6. lock # None => Holding(lock)'
  <2> SUFFICES ASSUME lock # None
               PROVE  Holding(lock)'
    OBVIOUS
  <2>1. lock \in Calls /\ pc[lock] \in Inside
    BY DEF IInv, Control, TypeOK
  <2>2. pc'[lock] = pc[lock]
    BY <1>1, <1>3, <2>1
  <2>3. UNCHANGED <<lock, file, backups, own, found, botched, latest>>
    BY <1>2 DEF vars
  <2> QED
    BY <2>2, <2>3 DEF IInv, Holding
<1> QED
  BY <1>2, <1>4, <1>5, <1>6 DEF IInv, vars

(* The lock is taken when nobody has it, before anything was done. *)
LEMMA AcquireIInv ==
  ASSUME IInv, NEW c \in Calls, Acquire(c)
  PROVE  IInv'
<1> USE DeployAssumption DEF DeployAssumption, diskVars, unitVars, localVars
<1>1. /\ pc \in [Calls -> Steps] /\ pc[c] = "lock" /\ pc' = [pc EXCEPT ![c] = "backup"]
      /\ lock = None /\ lock' = c /\ found' = [found EXCEPT ![c] = file]
      /\ found \in [Calls -> Versions \cup {None}] /\ latest' = c
      /\ UNCHANGED <<diskVars, unitVars, ledger, localVars, result>>
  BY DEF Acquire, Free, IInv, TypeOK, Steps
<1>2. "backup" \in Inside /\ "lock" \notin Inside
  BY DEF Inside, Preparing, Activating, Recording, RollingBack
<1>3. TypeOK'
  <2>1. cold' \subseteq Calls
    BY DEF Acquire, IInv, TypeOK
  <2> QED
    BY <1>1, <1>2, <2>1 DEF IInv, TypeOK, Steps
<1>4. Control'
  BY <1>1, <1>2 DEF IInv, Control
<1>5. Holding(c)'
  <2>1. own[c] = 0
    BY <1>1 DEF IInv, Control
  <2>2. pc'[c] = "backup" /\ found'[c] = file /\ own'[c] = 0
    BY <1>1, <2>1
  <2> QED
    BY <1>1, <2>2, PcSets DEF Holding
<1> QED
  BY <1>1, <1>3, <1>4, <1>5 DEF IInv

(* A refusal never had the lock. *)
LEMMA RefuseIInv ==
  ASSUME IInv, NEW c \in Calls, Refuse(c)
  PROVE  IInv' /\ lock' = lock
<1> USE DeployAssumption DEF DeployAssumption, diskVars, unitVars, localVars, pastVars
<1>1. /\ pc \in [Calls -> Steps] /\ pc[c] = "lock" /\ pc' = [pc EXCEPT ![c] = "done"]
      /\ result \in [Calls -> Results] /\ result' = [result EXCEPT ![c] = "refused"]
      /\ UNCHANGED <<diskVars, unitVars, ledger, localVars, pastVars>>
  BY DEF Refuse, Returns, IInv, TypeOK, Steps
<1>2. "done" \notin Inside /\ "lock" \notin Inside
  BY DEF Inside, Preparing, Activating, Recording, RollingBack
<1>3. lock # c /\ lock' = lock
  BY <1>1, <1>2 DEF Refuse, Returns, IInv, Control
<1>4. TypeOK'
  BY <1>1, <1>3 DEF IInv, TypeOK, Steps, Results
<1>5. Control'
  BY <1>1, <1>2, <1>3 DEF IInv, Control
<1>6. lock # None => Holding(lock)'
  <2> SUFFICES ASSUME lock # None
               PROVE  Holding(lock)'
    OBVIOUS
  <2>1. pc'[lock] = pc[lock] /\ lock' = lock
    BY <1>1, <1>3 DEF IInv, TypeOK
  <2>2. UNCHANGED <<file, backups, own, found, botched, latest>>
    BY <1>1
  <2> QED
    BY <2>1, <2>2 DEF IInv, Holding
<1> QED
  BY <1>3, <1>4, <1>5, <1>6 DEF IInv

(* The unit, its other users and the clock do not touch the file. *)
LEMMA WorldIInv ==
  ASSUME IInv, UnitEnds \/ Meddle \/ SetClockBack \/ UNCHANGED vars
  PROVE  IInv' /\ UNCHANGED <<file, backups, lock, pc, own, botched, result, found, latest,
                              ledger, copy>>
<1> USE DEF diskVars, unitVars, localVars, pastVars
<1>1. UNCHANGED <<file, backups, lock, pc, own, botched, result, found, latest, ledger,
                  copy, prior, cold>>
  BY DEF UnitEnds, Meddle, SetClockBack, vars
<1>2. /\ clock' \in Nat /\ loaded' \in Versions \cup {None}
      /\ running' \in Versions \cup {None} /\ launched' \subseteq Calls
  BY DEF UnitEnds, Meddle, SetClockBack, vars, StartUnit, Launch, IInv, TypeOK
<1>3. enabled' \in BOOLEAN /\ succeeded' \in BOOLEAN
  BY DEF UnitEnds, Meddle, SetClockBack, vars, StartUnit, Launch, IInv, TypeOK
<1>4. TypeOK'
  BY <1>1, <1>2, <1>3 DEF IInv, TypeOK
<1>5. Control'
  BY <1>1 DEF IInv, Control
<1>6. lock # None => Holding(lock)'
  BY <1>1 DEF IInv, Holding
<1> QED
  BY <1>1, <1>4, <1>5, <1>6 DEF IInv

(* The former backups hold none of the versions at stake. *)
LEMMA InitIInv == Init => IInv
<1> SUFFICES ASSUME Init
             PROVE  IInv
  OBVIOUS
<1> USE DeployAssumption DEF DeployAssumption
<1>1. backups \subseteq [stamp : Nat \ {0}, is : Versions]
  BY DEF Init, Versions
<1>2. TypeOK
  BY <1>1 DEF Init, TypeOK, Results, Versions
<1>3. "idle" \notin Inside
  BY DEF Inside, Preparing, Activating, Recording, RollingBack
<1> QED
  BY <1>2, <1>3 DEF Init, IInv, Control

(* Every step of every call, and of the world around them. *)
LEMMA NextIInv ==
  ASSUME IInv, [Next]_vars
  PROVE  IInv'
<1>1. ASSUME NEW c \in Calls, Works(c) \/ Refuse(c) \/ Crash(c)
      PROVE  IInv'
  BY <1>1, CallIInv, AcquireIInv, RefuseIInv, CrashIInv, BackupIInv, WriteIInv,
     UnwriteIInv, PruneIInv, ReloadIInv, QueryIInv, EnableIInv, StartIInv, ConfirmIInv,
     LoadLedgerIInv, SaveLedgerIInv, SucceedIInv, DisableIInv, RestoreIInv, UnspentIInv,
     UnloadIInv
     DEF Works
<1>2. CASE UnitEnds \/ Meddle \/ SetClockBack \/ Done \/ UNCHANGED vars
  BY <1>2, WorldIInv DEF Done
<1> QED
  BY <1>1, <1>2 DEF Next

(* The inductive invariant holds throughout. *)
LEMMA Invariance == Spec => []IInv
BY InitIInv, NextIInv, PTL DEF Spec

(* Every variable keeps its type, whatever fails or dies (manager.rs). *)
THEOREM TypeCorrect == Spec => []TypeOK
BY Invariance, PTL DEF IInv

-----------------------------------------------------------------------------
(* The steps of a call that keep the lock. *)
Interior(c) ==
  \/ Prune(c) \/ Reload(c) \/ Query(c) \/ Enable(c) \/ Start(c) \/ Confirm(c)
  \/ LoadLedger(c) \/ SaveLedger(c) \/ Disable(c) \/ Restore(c) \/ Unspent(c)
  \/ Write(c)

(* Inside, the caller has not answered and found what it found. *)
LEMMA InteriorKeeps ==
  ASSUME IInv, NEW c \in Calls, Interior(c)
  PROVE  /\ pc[c] \in Inside \ {"backup"} /\ lock = c /\ lock # None /\ Holding(c)
         /\ UNCHANGED <<lock, result, own, found, cold, latest>>
<1>1. pc[c] \in Inside \ {"backup"}
  BY PcSets DEF Interior, Prune, Reload, Query, Enable, Start, Confirm, LoadLedger,
     SaveLedger, Disable, Restore, Unspent, Write
<1>2. UNCHANGED <<lock, result, own, found, cold, latest>>
  BY DEF Interior, Prune, Reload, Query, Enable, Start, Confirm, LoadLedger,
     SaveLedger, Disable, Restore, Unspent, Write, Goes, localVars, pastVars
<1>3. lock = c /\ lock # None
  BY <1>1, DeployAssumption DEF IInv, Control, DeployAssumption
<1> QED
  BY <1>1, <1>2, <1>3 DEF IInv

(* How a call that holds the lock may answer, and what the file is then. *)
LEMMA EndAnswers ==
  ASSUME IInv, NEW c \in Calls, Unwrite(c) \/ Succeed(c) \/ Unload(c) \/ Crash(c)
  PROVE  /\ lock = c /\ lock' = None /\ lock # None /\ Holding(c) /\ result[c] = "none"
         /\ UNCHANGED <<found, latest>>
         /\ \/ result' = [result EXCEPT ![c] = "ok"] /\ file' = c
            \/ result' = [result EXCEPT ![c] = "rolled_back"] /\ file' = found[c]
            \/ /\ \E r \in {"write_failed", "rollback_failed", "crashed"} :
                     result' = [result EXCEPT ![c] = r]
               /\ file' \in {found[c], c, None}
<1>1. /\ pc[c] \in Inside /\ UNCHANGED <<own, found, latest, botched>>
      /\ \E r \in Results \ {"none"} : Returns(c, r)
  BY PcSets DEF Unwrite, Succeed, Unload, Crash, localVars, pastVars, Results
<1>2. /\ lock = c /\ lock' = None /\ lock # None /\ Holding(c) /\ result[c] = "none"
  <2>1. lock = c /\ lock' = None /\ Holding(c) /\ c # None
    BY <1>1, ReturnsControl
  <2> QED
    BY <1>1, <2>1, PcSets DEF IInv, Control, Inside, Preparing, Activating, Recording,
       RollingBack
<1>3. CASE Succeed(c)
  BY <1>1, <1>2, <1>3, PcSets DEF Succeed, Returns, Holding
<1>4. CASE Unload(c)
  BY <1>1, <1>2, <1>4, PcSets DEF Unload, Returns, Holding, diskVars
<1>5. CASE Unwrite(c)
  <2>1. pc[c] = "unwrite" /\ Returns(c, "write_failed")
    BY <1>5 DEF Unwrite
  <2>2. file' \in {found[c], c, None}
    BY <1>2, <1>5, <2>1 DEF Unwrite, Restored, NotRestored, OwnBackup, Holding
  <2> QED
    BY <1>1, <1>2, <2>1, <2>2 DEF Returns
<1>6. CASE Crash(c)
  <2>1. file' = file /\ Returns(c, "crashed")
    BY <1>6 DEF Crash, diskVars
  <2>2. file \in {found[c], c, None}
    BY <1>1, <1>2, PcSets DEF Holding
  <2> QED
    BY <1>1, <1>2, <2>1, <2>2 DEF Returns
<1> QED
  BY <1>3, <1>4, <1>5, <1>6

(* A step changes the file seen from outside only by answering. *)
LEMMA StepRefines ==
  ASSUME IInv, [Next]_vars
  PROVE  [Atomic!Next]_(Atomic!vars)
<1> DEFINE seen == IF lock = None THEN file ELSE found[lock]
<1>1. ASSUME NEW c \in Calls, Interior(c)
      PROVE  UNCHANGED <<seen, result>>
  BY <1>1, InteriorKeeps
<1>2. ASSUME NEW c \in Calls, Unwrite(c) \/ Succeed(c) \/ Unload(c) \/ Crash(c)
      PROVE  Atomic!Next
  <2>1. /\ lock = c /\ lock' = None /\ lock # None /\ result[c] = "none"
        /\ seen = found[c] /\ seen' = file'
        /\ \/ result' = [result EXCEPT ![c] = "ok"] /\ file' = c
           \/ result' = [result EXCEPT ![c] = "rolled_back"] /\ file' = found[c]
           \/ /\ \E r \in {"write_failed", "rollback_failed", "crashed"} :
                    result' = [result EXCEPT ![c] = r]
              /\ file' \in {found[c], c, None}
    BY <1>2, EndAnswers
  <2> QED
    BY <2>1 DEF Atomic!Next, Atomic!Install, Atomic!RollBack, Atomic!GiveUp, Atomic!Answer
<1>3. ASSUME NEW c \in Calls, Backup(c)
      PROVE  UNCHANGED <<seen, result>> \/ Atomic!Next
  <2>1. pc[c] = "backup" /\ UNCHANGED <<file, found>>
    BY <1>3 DEF Backup, pastVars
  <2>2. lock = c /\ lock # None /\ Holding(c) /\ result[c] = "none"
    BY <2>1, PcSets, DeployAssumption DEF IInv, Control, DeployAssumption
  <2>3. CASE Goes(c, "write")
    BY <2>1, <2>2, <2>3 DEF Goes
  <2>4. CASE Returns(c, "refused")
    <3>1. seen = file /\ seen' = file
      BY <2>1, <2>2, <2>4 DEF Returns, Holding
    <3> QED
      BY <2>2, <2>4, <3>1 DEF Returns, Atomic!Next, Atomic!Refuse, Atomic!Answer
  <2> QED
    BY <1>3, <2>3, <2>4 DEF Backup
<1>4. ASSUME NEW c \in Calls, Acquire(c)
      PROVE  UNCHANGED <<seen, result>>
  <2>1. /\ lock = None /\ lock' = c /\ found'[c] = file /\ result' = result
        /\ c # None
    BY <1>4, DeployAssumption DEF Acquire, Free, IInv, TypeOK, DeployAssumption
  <2> QED
    BY <2>1
<1>5. ASSUME NEW c \in Calls, Call(c)
      PROVE  UNCHANGED <<seen, result>>
  BY <1>5 DEF Call, Goes, diskVars, pastVars
<1>6. ASSUME NEW c \in Calls, Refuse(c)
      PROVE  Atomic!Next
  <2>1. /\ lock' = lock /\ UNCHANGED <<file, found>> /\ result[c] = "none"
        /\ result' = [result EXCEPT ![c] = "refused"]
    BY <1>6, RefuseIInv DEF Refuse, Returns, diskVars, pastVars, IInv, Control
  <2> QED
    BY <2>1 DEF Atomic!Next, Atomic!Refuse, Atomic!Answer
<1>7. CASE UnitEnds \/ Meddle \/ SetClockBack \/ Done \/ UNCHANGED vars
  BY <1>7, WorldIInv DEF Done, Atomic!vars
<1> QED
  BY <1>1, <1>2, <1>3, <1>4, <1>5, <1>6, <1>7
     DEF Next, Works, Interior, Atomic!vars

(* The units lock excludes, and is held only by a call that is inside: no *)
(* later caller waits for one that has been answered or has died.         *)
THEOREM CallsExclude == Spec => []OneAtATime
<1>1. IInv => OneAtATime
  BY DeployAssumption DEF IInv, TypeOK, Control, Free, OneAtATime, DeployAssumption
<1> QED
  BY <1>1, InitIInv, NextIInv, PTL DEF Spec

(* For any number of calls, crashes, failures, meddlers and clock steps, a unit
   file changes as the abstract deploy says (deploy_unit, install_unit). *)
THEOREM DeployIsAtomic == Spec => ImplementsAtomicDeploy
<1>1. Init => Atomic!Init
  BY DEF Init, Atomic!Init
<1>2. IInv /\ [Next]_vars => [Atomic!Next]_(Atomic!vars)
  BY StepRefines
<1> QED
  BY <1>1, <1>2, Invariance, PTL DEF Spec, Atomic!Spec, ImplementsAtomicDeploy

-----------------------------------------------------------------------------
Kept(c) ==
  \/ found[c] = None
  \/ file = found[c]
  \/ \E b \in backups : b.is = found[c]

(* Until it is spent, the backup of a call is there and the newest of all. *)
OwnNewest(c) ==
  own[c] # 0 =>
    /\ own[c] = clock
    /\ pc[c] # "unload" \/ botched[c] => \E b \in backups : b.stamp = own[c]

KInv ==
  /\ \A b \in backups : b.stamp <= clock
  /\ lock # None => OwnNewest(lock)
  /\ lock = None /\ latest # None /\ result[latest] # "ok" => Kept(latest)

(* While the lock is held, the version found is safe. *)
LEMMA HolderKept ==
  ASSUME IInv, KInv, NEW c \in Calls, lock = c, lock # None
  PROVE  Kept(c)
<1>1. Holding(c) /\ OwnNewest(c) /\ pc[c] \in Inside
  BY DEF IInv, KInv, Control
<1>2. CASE pc[c] = "backup"
  BY <1>1, <1>2 DEF Holding, Kept
<1>3. CASE pc[c] # "backup" /\ own[c] = 0
  BY <1>1, <1>3 DEF Holding, Kept
<1>4. CASE own[c] # 0 /\ (pc[c] # "unload" \/ botched[c])
  BY <1>1, <1>4 DEF Holding, OwnNewest, Kept
<1>5. CASE pc[c] = "unload" /\ ~botched[c]
  BY <1>1, <1>5 DEF Holding, Kept
<1> QED
  BY <1>2, <1>3, <1>4, <1>5

(* The newest backup survives the pruning. *)
LEMMA NewestIsKept ==
  ASSUME \A b \in backups : b.stamp <= clock, clock \in Nat,
         backups \subseteq [stamp : Nat \ {0}, is : Versions],
         NEW b \in backups, b.stamp = clock
  PROVE  Keeps(b)
<1>1. {other \in backups : other.stamp > b.stamp} = {}
  OBVIOUS
<1>2. Cardinality({}) = 0
  BY FS_EmptySet
<1> QED
  BY <1>1, <1>2, DeployAssumption DEF Keeps, DeployAssumption

(* Steps inside that leave the backups alone. *)
LEMMA InteriorKInv ==
  ASSUME IInv, KInv, NEW c \in Calls, Interior(c)
  PROVE  KInv'
<1>1. /\ pc[c] \in Inside \ {"backup"} /\ lock = c /\ lock # None /\ Holding(c)
      /\ UNCHANGED <<lock, result, own, found, latest>>
  BY InteriorKeeps
<1>2. clock' = clock
  BY DEF Interior, Prune, Reload, Query, Enable, Start, Confirm, LoadLedger,
     SaveLedger, Disable, Restore, Unspent, Write, diskVars
<1>3. backups' \subseteq backups
  BY DEF Interior, Prune, Reload, Query, Enable, Start, Confirm, LoadLedger,
     SaveLedger, Disable, Restore, Unspent, Write, Discard, diskVars
<1>4. ASSUME own[c] # 0, pc'[c] # "unload" \/ botched'[c]
      PROVE  \E b \in backups' : b.stamp = own[c]
  <2>1. OwnNewest(c) /\ own[c] = clock
    BY <1>1, <1>4 DEF KInv, OwnNewest
  <2>2. CASE Unspent(c)
    <3>1. pc[c] = "unspent" /\ pc'[c] = "unload" /\ UNCHANGED botched
      BY <2>2 DEF Unspent, Goes, localVars, IInv, TypeOK
    <3>2. botched[c] /\ backups' = backups
      BY <1>4, <2>2, <3>1 DEF Unspent
    <3> QED
      BY <1>4, <2>1, <3>1, <3>2 DEF OwnNewest
  <2>3. pc[c] # "unload"
    BY <1>1, PcSets DEF Interior, Prune, Reload, Query, Enable, Start, Confirm, LoadLedger,
       SaveLedger, Disable, Restore, Unspent, Write
  <2>4. PICK b \in backups : b.stamp = own[c]
    BY <1>4, <2>1, <2>3 DEF OwnNewest
  <2>5. CASE Prune(c)
    <3>1. Keeps(b)
      BY <2>1, <2>4, NewestIsKept DEF IInv, TypeOK, KInv
    <3> QED
      BY <2>4, <2>5, <3>1 DEF Prune
  <2>6. CASE ~Prune(c) /\ ~Unspent(c)
    <3>1. backups' = backups
      BY <2>6 DEF Interior, Reload, Query, Enable, Start, Confirm, LoadLedger,
         SaveLedger, Disable, Restore, Write, diskVars
    <3> QED
      BY <2>4, <3>1
  <2> QED
    BY <2>2, <2>5, <2>6
<1>5. OwnNewest(c)'
  BY <1>1, <1>2, <1>4 DEF KInv, OwnNewest
<1> QED
  BY <1>1, <1>2, <1>3, <1>5 DEF KInv

(* A new backup is the newest, and a copy that fails harms no other. *)
LEMMA BackupKInv ==
  ASSUME IInv, KInv, NEW c \in Calls, Backup(c)
  PROVE  KInv'
<1>1. pc[c] = "backup" /\ UNCHANGED <<file, found, latest, botched>>
  BY DEF Backup, pastVars
<1>2. lock = c /\ lock # None /\ Holding(c)
  BY <1>1, PcSets, DeployAssumption DEF IInv, Control, DeployAssumption
<1>3. own[c] = 0 /\ file = found[c] /\ latest = c
  BY <1>1, <1>2 DEF Holding
<1>4. clock \in Nat /\ own \in [Calls -> Nat]
  BY DEF IInv, TypeOK
<1>5. CASE file = None /\ Goes(c, "write") /\ UNCHANGED <<backups, clock, own>>
  BY <1>2, <1>3, <1>5 DEF KInv, OwnNewest, Goes
<1>6. CASE /\ clock' = clock + 1
           /\ backups' = Store([stamp |-> Stamp, is |-> file])
           /\ own' = [own EXCEPT ![c] = Stamp]
           /\ Goes(c, "write")
  <2>1. \A b \in backups' : b.stamp <= clock'
    BY <1>4, <1>6 DEF Store, Stamp, KInv, IInv, TypeOK
  <2>2. own'[c] = clock' /\ \E b \in backups' : b.stamp = own'[c]
    <3>1. own'[c] = Stamp /\ Stamp = clock'
      BY <1>4, <1>6 DEF Stamp
    <3>2. [stamp |-> Stamp, is |-> file] \in backups'
      BY <1>6 DEF Store
    <3> QED
      BY <3>1, <3>2
  <2> QED
    BY <1>2, <1>6, <2>1, <2>2 DEF KInv, OwnNewest, Goes
<1>7. CASE /\ clock' = clock + 1
           /\ backups' \in {backups, Store([stamp |-> Stamp, is |-> Other])}
           /\ Returns(c, "refused") /\ UNCHANGED own
  <2>1. \A b \in backups' : b.stamp <= clock'
    BY <1>4, <1>7 DEF Store, Stamp, KInv, IInv, TypeOK
  <2>2. lock' = None /\ latest' = c /\ Kept(c)'
    BY <1>1, <1>2, <1>3, <1>7 DEF Returns, Kept
  <2> QED
    BY <2>1, <2>2 DEF KInv
<1> QED
  BY <1>5, <1>6, <1>7 DEF Backup

(* Answering, or dying, takes away nothing unless the answer is ok. *)
LEMMA EndKInv ==
  ASSUME IInv, KInv, NEW c \in Calls, Unwrite(c) \/ Succeed(c) \/ Unload(c) \/ Crash(c)
  PROVE  KInv'
<1>1. /\ lock = c /\ lock' = None /\ lock # None /\ Holding(c)
      /\ UNCHANGED <<found, latest>> /\ latest = c
  BY EndAnswers DEF Holding
<1>2. clock' = clock /\ backups' \subseteq backups
  BY DEF Unwrite, Succeed, Unload, Crash, Discard, diskVars
<1>3. Kept(c)
  BY <1>1, HolderKept
<1>4. result'[c] # "ok" => Kept(c)'
  <2>1. CASE Succeed(c)
    BY <1>1, <2>1 DEF Succeed, Returns, IInv, TypeOK
  <2>2. CASE Unload(c) \/ Crash(c)
    BY <1>1, <1>3, <2>2 DEF Unload, Crash, diskVars, Kept
  <2>3. CASE Unwrite(c)
    <3>1. backups' = backups /\ pc[c] = "unwrite"
      BY <2>3 DEF Unwrite
    <3>2. CASE own[c] = 0
      BY <1>1, <3>1, <3>2 DEF Holding, Kept
    <3>3. CASE own[c] # 0
      <4>1. PICK b \in backups : b.stamp = own[c]
        BY <1>1, <3>1, <3>3 DEF KInv, OwnNewest
      <4> QED
        BY <1>1, <3>1, <3>3, <4>1 DEF Holding, Kept
    <3> QED
      BY <3>2, <3>3
  <2> QED
    BY <2>1, <2>2, <2>3
<1> QED
  BY <1>1, <1>2, <1>4 DEF KInv

(* The clock has to go forward: with no step back, every other step keeps it. *)
LEMMA NextKInv ==
  ASSUME IInv, KInv, ~ClockSteps, [Next]_vars
  PROVE  KInv'
<1>1. ASSUME NEW c \in Calls, Call(c)
      PROVE  KInv'
  <2>1. /\ UNCHANGED <<file, backups, clock, lock, own, botched, result, found, latest>>
        /\ pc[c] = "idle" /\ pc' = [pc EXCEPT ![c] = "lock"]
    BY <1>1 DEF Call, Goes, diskVars, localVars, pastVars
  <2>2. lock # None => lock \in Calls /\ pc'[lock] = pc[lock]
    BY <2>1, PcSets DEF IInv, TypeOK, Control, Inside, Preparing, Activating, Recording,
       RollingBack
  <2> QED
    BY <2>1, <2>2 DEF KInv, OwnNewest, Kept
<1>2. ASSUME NEW c \in Calls, Refuse(c)
      PROVE  KInv'
  <2>1. /\ UNCHANGED <<file, backups, clock, own, botched, found, latest>>
        /\ pc[c] = "lock" /\ pc' = [pc EXCEPT ![c] = "done"]
        /\ result' = [result EXCEPT ![c] = "refused"]
    BY <1>2 DEF Refuse, Returns, diskVars, localVars, pastVars
  <2>2. lock' = lock
    BY <1>2, RefuseIInv
  <2>3. lock # None => lock \in Calls /\ pc'[lock] = pc[lock]
    BY <2>1, PcSets DEF IInv, TypeOK, Control, Inside, Preparing, Activating, Recording,
       RollingBack
  <2>4. latest # None /\ result'[latest] # "ok" => result[latest] # "ok"
    BY <2>1 DEF IInv, TypeOK, Control
  <2> QED
    BY <2>1, <2>2, <2>3, <2>4 DEF KInv, OwnNewest, Kept
<1>3. ASSUME NEW c \in Calls, Acquire(c)
      PROVE  KInv'
  <2>1. /\ UNCHANGED <<backups, clock, own>> /\ lock' = c /\ own[c] = 0 /\ c # None
    BY <1>3, DeployAssumption
       DEF Acquire, diskVars, localVars, IInv, Control, DeployAssumption
  <2> QED
    BY <2>1 DEF KInv, OwnNewest
<1>4. CASE UnitEnds \/ Meddle \/ Done \/ UNCHANGED vars
  <2>1. /\ UNCHANGED <<file, backups, lock, pc, own, botched, result, found, latest>>
        /\ clock' = clock
    BY <1>4, WorldIInv DEF UnitEnds, Meddle, Done, vars, diskVars
  <2> QED
    BY <2>1 DEF KInv, OwnNewest, Kept
<1>5. ~SetClockBack
  BY DEF SetClockBack
<1> QED
  BY <1>1, <1>2, <1>3, <1>4, <1>5, InteriorKInv, BackupKInv, EndKInv
     DEF Next, Works, Interior

LEMMA InitKInv == Init => KInv
<1> SUFFICES ASSUME Init
             PROVE  KInv
  OBVIOUS
<1>1. \A b \in backups : b.stamp <= clock
  BY DeployAssumption DEF Init, DeployAssumption
<1> QED
  BY <1>1 DEF Init, KInv

(* If the wall clock is never set back, no call loses the version it found: not
   by pruning, not by a failed restore, not by dying (prune_unit_backups). *)
THEOREM PreviousIsKept == ~ClockSteps => (Spec => []PreviousKept)
<1> SUFFICES ASSUME ~ClockSteps
             PROVE  Spec => []PreviousKept
  OBVIOUS
<1>1. Init => KInv
  BY InitKInv
<1>2. IInv /\ KInv /\ [Next]_vars => KInv'
  BY NextKInv
<1>3. IInv /\ KInv => PreviousKept
  <2> SUFFICES ASSUME IInv, KInv, latest # None, result[latest] # "ok"
               PROVE  Kept(latest)
    BY DEF PreviousKept, Kept
  <2>1. CASE lock = None
    BY <2>1 DEF KInv
  <2>2. CASE lock # None
    BY <2>2, HolderKept DEF IInv, TypeOK, Holding
  <2> QED
    BY <2>1, <2>2
<1> QED
  BY <1>1, <1>2, <1>3, Invariance, PTL DEF Spec
-----------------------------------------------------------------------------
(* The copy of the ledger about to be saved is the ledger. *)
LInv == \A c \in Calls : lock = c /\ pc[c] = "save" => copy[c] = ledger

(* Only the holder of the lock writes the ledger. *)
LEMMA LedgerStep ==
  ASSUME IInv, LInv, [Next]_vars
  PROVE  LInv' /\ ledger \subseteq ledger'
<1>1. ASSUME NEW c \in Calls, SaveLedger(c)
      PROVE  LInv' /\ ledger \subseteq ledger'
  <2>1. pc[c] = "save" /\ lock = c /\ copy' = copy /\ lock' = lock /\ pc'[c] = "spent"
    BY <1>1, PcSets DEF SaveLedger, IInv, Control, localVars, Goes, TypeOK
  <2> QED
    BY <1>1, <2>1 DEF LInv, SaveLedger
<1>2. ASSUME NEW c \in Calls, LoadLedger(c)
      PROVE  LInv' /\ ledger' = ledger
  <2>1. pc[c] = "load" /\ lock = c /\ lock' = lock /\ ledger' = ledger /\ c # None
    BY <1>2, PcSets, DeployAssumption
       DEF LoadLedger, IInv, Control, Goes, DeployAssumption
  <2>2. pc'[c] = "save" => copy'[c] = ledger
    BY <1>2 DEF LoadLedger, Goes, IInv, TypeOK
  <2> QED
    BY <2>1, <2>2 DEF LInv
<1>3. ASSUME UNCHANGED <<ledger, copy>>,
             \A c \in Calls : lock' = c /\ pc'[c] = "save" => lock = c /\ pc[c] = "save"
      PROVE  LInv' /\ ledger' = ledger
  BY <1>3 DEF LInv
<1>4. ASSUME NEW c \in Calls, Refuse(c) \/ Crash(c) \/ (Works(c) /\ ~SaveLedger(c) /\ ~LoadLedger(c))
      PROVE  LInv' /\ ledger' = ledger
  <2>1. UNCHANGED <<ledger, copy>>
    BY <1>4 DEF Refuse, Crash, Works, Call, Acquire, Backup, Write, Unwrite, Prune, Reload,
       Query, Enable, Start, Confirm, Succeed, Disable, Restore, Unspent, Unload, localVars
  <2>2. /\ pc'[c] # "save"
        /\ \A d \in Calls : d # c => pc'[d] = pc[d]
    <3>1. PICK to : pc' = [pc EXCEPT ![c] = to] /\ to # "save"
      BY <1>4, FailsToRollBack
         DEF Refuse, Crash, Works, Call, Acquire, Backup, Write, Unwrite, Prune, Reload,
         Query, Enable, Start, Confirm, Succeed, Disable, Restore, Unspent, Unload, Goes,
         Returns
    <3> QED
      BY <3>1 DEF IInv, TypeOK
  <2>3. \A d \in Calls : d # c /\ lock' = d => lock = d
    BY <1>4, DeployAssumption
       DEF Refuse, Crash, Works, Call, Acquire, Backup, Write, Unwrite, Prune, Reload,
       Query, Enable, Start, Confirm, Succeed, Disable, Restore, Unspent, Unload, Goes,
       Returns, DeployAssumption
  <2> QED
    BY <1>3, <2>1, <2>2, <2>3
<1>5. CASE UnitEnds \/ Meddle \/ SetClockBack \/ Done \/ UNCHANGED vars
  BY <1>3, <1>5, WorldIInv DEF Done
<1> QED
  BY <1>1, <1>2, <1>4, <1>5 DEF Next, Works

(* No record is ever lost to a concurrent append (ActionLedger::append). *)
THEOREM LedgerIsAppendOnly == Spec => LedgerKeepsRecords
<1>1. Init => LInv
  BY DEF Init, LInv
<1>2. IInv /\ LInv /\ [Next]_vars => LInv' /\ [ledger \subseteq ledger']_ledger
  BY LedgerStep
<1> QED
  BY <1>1, <1>2, Invariance, PTL DEF Spec, LedgerKeepsRecords
-----------------------------------------------------------------------------
(***************************************************************************)
(* With nobody else at systemctl, only the holder of the lock enables or   *)
(* disables the unit, and only as it has decided when it looked.           *)
(***************************************************************************)
Early == {"idle", "lock"} \cup Preparing \cup {"reload", "query"}

Honoured(c) ==
  /\ prior[c] = "enabled" => enabled /\ pc[c] # "disable"
  /\ prior[c] = "disabled" /\ pc[c] \in {"restore", "unspent", "unload"} /\ ~botched[c]
       => ~enabled

EInv ==
  /\ \A c \in Calls : pc[c] \in Early => prior[c] = "unknown"
  /\ lock # None => Honoured(lock)
  /\ lock = None /\ latest # None /\ result[latest] = "rolled_back" =>
       /\ prior[latest] = "enabled" => enabled
       /\ prior[latest] = "disabled" => ~enabled

(* A step of one call leaves the others where they are. *)
LEMMA OthersStay ==
  ASSUME IInv, NEW c \in Calls, Works(c) \/ Refuse(c) \/ Crash(c),
         NEW d \in Calls, d # c
  PROVE  /\ pc'[d] = pc[d] /\ prior'[d] = prior[d] /\ result'[d] = result[d]
         /\ own'[d] = own[d] /\ copy'[d] = copy[d]
<1>1. \E to : pc' = [pc EXCEPT ![c] = to]
  BY DEF Refuse, Crash, Works, Call, Acquire, Backup, Write, Unwrite, Prune, Reload,
     Query, Enable, Start, Confirm, LoadLedger, SaveLedger, Succeed, Disable, Restore,
     Unspent, Unload, Goes, Returns
<1>2. prior' = prior \/ \E v : prior' = [prior EXCEPT ![c] = v]
  BY DEF Refuse, Crash, Works, Call, Acquire, Backup, Write, Unwrite, Prune, Reload,
     Query, Enable, Start, Confirm, LoadLedger, SaveLedger, Succeed, Disable, Restore,
     Unspent, Unload, localVars
<1>3. result' = result \/ \E r : result' = [result EXCEPT ![c] = r]
  BY DEF Refuse, Crash, Works, Call, Acquire, Backup, Write, Unwrite, Prune, Reload,
     Query, Enable, Start, Confirm, LoadLedger, SaveLedger, Succeed, Disable, Restore,
     Unspent, Unload, Goes, Returns
<1>4. own' = own \/ \E n : own' = [own EXCEPT ![c] = n]
  BY DEF Refuse, Crash, Works, Call, Acquire, Backup, Write, Unwrite, Prune, Reload,
     Query, Enable, Start, Confirm, LoadLedger, SaveLedger, Succeed, Disable, Restore,
     Unspent, Unload, localVars
<1>5. copy' = copy \/ \E calls : copy' = [copy EXCEPT ![c] = calls]
  BY DEF Refuse, Crash, Works, Call, Acquire, Backup, Write, Unwrite, Prune, Reload,
     Query, Enable, Start, Confirm, LoadLedger, SaveLedger, Succeed, Disable, Restore,
     Unspent, Unload, localVars
<1> QED
  BY <1>1, <1>2, <1>3, <1>4, <1>5 DEF IInv, TypeOK

(* Whatever the holder does short of answering. *)
LEMMA InteriorEInv ==
  ASSUME IInv, EInv, NEW c \in Calls, Interior(c)
  PROVE  EInv'
<1>1. /\ lock = c /\ lock' = c /\ lock # None /\ c # None
      /\ prior \in [Calls -> {"unknown", "enabled", "disabled"}]
      /\ botched \in [Calls -> BOOLEAN] /\ enabled \in BOOLEAN
      /\ pc \in [Calls -> Steps]
  BY InteriorKeeps DEF IInv, TypeOK, Steps
<1>2. /\ pc[c] \in Early => prior[c] = "unknown"
      /\ Honoured(c)
  BY <1>1 DEF EInv
<1>3. /\ pc'[c] \in Early => prior'[c] = "unknown"
      /\ Honoured(c)'
  <2> USE <1>1, <1>2 DEF Honoured, Early, Preparing, FailsTo, Goes, diskVars, unitVars,
          localVars
  <2>1. CASE Write(c) \/ Prune(c)
    BY <2>1 DEF Write, Prune
  <2>2. CASE Reload(c)
    BY <2>2 DEF Reload
  <2>3. CASE Query(c)
    BY <2>3 DEF Query
  <2>4. CASE Enable(c)
    BY <2>4 DEF Enable
  <2>5. CASE Start(c)
    BY <2>5 DEF Start, StartUnit, Launch
  <2>6. CASE Confirm(c) \/ LoadLedger(c) \/ SaveLedger(c)
    BY <2>6 DEF Confirm, LoadLedger, SaveLedger
  <2>7. CASE Disable(c)
    BY <2>7 DEF Disable
  <2>8. CASE Restore(c)
    BY <2>8 DEF Restore
  <2>9. CASE Unspent(c)
    BY <2>9 DEF Unspent
  <2> QED
    BY <2>1, <2>2, <2>3, <2>4, <2>5, <2>6, <2>7, <2>8, <2>9 DEF Interior
<1>4. \A d \in Calls : d # c => pc'[d] = pc[d] /\ prior'[d] = prior[d]
  BY OthersStay DEF Interior, Works
<1> QED
  BY <1>1, <1>3, <1>4 DEF EInv

(* An answer, and a death, leave the unit as it was. *)
LEMMA EndEInv ==
  ASSUME IInv, EInv, NEW c \in Calls, Unwrite(c) \/ Succeed(c) \/ Unload(c) \/ Crash(c)
  PROVE  EInv'
<1>1. /\ lock = c /\ lock' = None /\ lock # None /\ latest = c /\ latest' = c
      /\ UNCHANGED <<enabled, prior, botched>>
      /\ result \in [Calls -> Results] /\ pc \in [Calls -> Steps]
  BY EndAnswers
     DEF Holding, Unwrite, Succeed, Unload, Crash, unitVars, localVars, IInv, TypeOK, Steps
<1>2. Honoured(c)
  BY <1>1 DEF EInv
<1>3. pc'[c] = "done" /\ \A d \in Calls : d # c => pc'[d] = pc[d]
  BY <1>1, OthersStay DEF Unwrite, Succeed, Unload, Crash, Returns, Works
<1>4. result'[c] = "rolled_back" => pc[c] = "unload" /\ ~botched[c]
  BY <1>1 DEF Unwrite, Succeed, Unload, Crash, Returns
<1>5. "done" \notin Early
  BY DEF Early, Preparing
<1> QED
  BY <1>1, <1>2, <1>3, <1>4, <1>5 DEF EInv, Honoured

(* A call that begins knows nothing yet. *)
LEMMA EntryEInv ==
  ASSUME IInv, EInv, NEW c \in Calls, Call(c) \/ Acquire(c) \/ Refuse(c) \/ Backup(c)
  PROVE  EInv'
<1>1. /\ pc \in [Calls -> Steps] /\ result \in [Calls -> Results]
      /\ UNCHANGED <<enabled, prior, botched>>
      /\ pc[c] \in {"idle", "lock", "backup"} /\ prior[c] = "unknown"
      /\ pc'[c] \in {"lock", "backup", "write", "done"}
  BY DEF Call, Acquire, Refuse, Backup, Goes, Returns, unitVars, localVars, IInv, TypeOK,
     Steps, EInv, Early, Preparing
<1>2. \A d \in Calls : d # c => pc'[d] = pc[d]
  BY OthersStay DEF Works
<1>3. \A d \in Calls : pc'[d] \in Early => prior'[d] = "unknown"
  BY <1>1, <1>2 DEF EInv
<1>4. lock' # None => Honoured(lock)'
  <2>1. CASE lock' = c
    BY <1>1, <2>1 DEF Honoured
  <2>2. CASE lock' # c /\ lock' # None
    <3>1. lock' = lock /\ lock \in Calls
      BY <2>2 DEF Call, Acquire, Refuse, Backup, Goes, Returns, IInv, TypeOK
    <3> QED
      BY <1>1, <1>2, <2>2, <3>1 DEF EInv, Honoured
  <2> QED
    BY <2>1, <2>2
<1>5. lock' = None /\ latest' # None /\ result'[latest'] = "rolled_back" =>
        /\ prior'[latest'] = "enabled" => enabled'
        /\ prior'[latest'] = "disabled" => ~enabled'
  <2> SUFFICES ASSUME lock' = None, latest' # None, result'[latest'] = "rolled_back"
               PROVE  /\ prior'[latest'] = "enabled" => enabled'
                      /\ prior'[latest'] = "disabled" => ~enabled'
    OBVIOUS
  <2>1. latest' # c => lock = None /\ latest' = latest /\ latest \in Calls
    <3>1. ~Acquire(c)
      BY DeployAssumption DEF Acquire, DeployAssumption
    <3>2. CASE Call(c)
      BY <3>2 DEF Call, Goes, pastVars, IInv, TypeOK
    <3>3. CASE Refuse(c)
      BY <3>3, RefuseIInv DEF Refuse, pastVars, IInv, TypeOK
    <3>4. CASE Backup(c)
      <4>1. lock = c /\ c # None
        BY <3>4, PcSets, DeployAssumption DEF Backup, IInv, Control, DeployAssumption
      <4>2. latest = c /\ latest' = latest
        BY <3>4, <4>1 DEF Backup, IInv, Holding, pastVars
      <4> QED
        BY <4>2
    <3> QED
      BY <3>1, <3>2, <3>3, <3>4
  <2>2. latest' # c => result'[latest'] = result[latest]
    BY <2>1, OthersStay DEF Works
  <2> QED
    BY <1>1, <2>1, <2>2 DEF EInv
<1> QED
  BY <1>3, <1>4, <1>5 DEF EInv

LEMMA NextEInv ==
  ASSUME IInv, EInv, ~Meddling, [Next]_vars
  PROVE  EInv'
<1>1. CASE UnitEnds \/ SetClockBack \/ Done \/ UNCHANGED vars
  <2>1. UNCHANGED <<enabled, lock, pc, prior, botched, result, latest>>
    BY <1>1 DEF UnitEnds, SetClockBack, Done, vars, unitVars, localVars, pastVars
  <2> QED
    BY <2>1 DEF EInv, Honoured
<1>2. ~Meddle
  BY DEF Meddle
<1> QED
  BY <1>1, <1>2, InteriorEInv, EndEInv, EntryEInv DEF Next, Works, Interior

(* Unless somebody else uses systemctl on the unit, a deploy that reports a
   rollback leaves the enablement it had found (rollback_deployment). *)
THEOREM EnablementIsRestored == Spec => []EnablementRestored
<1>1. CASE Meddling
  <2>1. EnablementRestored
    BY <1>1 DEF EnablementRestored
  <2> QED
    BY <2>1, PTL
<1>2. CASE ~Meddling
  <2>1. Init => EInv
    BY DEF Init, EInv
  <2>2. IInv /\ EInv /\ [Next]_vars => EInv'
    BY <1>2, NextEInv
  <2>3. IInv /\ EInv => EnablementRestored
    <3> SUFFICES ASSUME IInv, EInv, latest # None, result[latest] = "rolled_back",
                        prior[latest] # "unknown"
                 PROVE  enabled = (prior[latest] = "enabled")
      BY DEF EnablementRestored
    <3>1. latest \in Calls /\ enabled \in BOOLEAN /\ prior[latest] \in {"enabled", "disabled"}
      BY DEF IInv, TypeOK
    <3>2. lock = None
      BY <3>1, PcSets DEF IInv, Control, Holding, Inside, Preparing, Activating, Recording,
         RollingBack
    <3> QED
      BY <3>1, <3>2 DEF EInv
  <2> QED
    BY <2>1, <2>2, <2>3, Invariance, PTL DEF Spec
<1> QED
  BY <1>1, <1>2
-----------------------------------------------------------------------------
(***************************************************************************)
(* A unit that was dead stays so until its deploy starts it, and what that *)
(* starts is what the deploy has reloaded.                                 *)
(***************************************************************************)
Launching(c) ==
  /\ pc[c] \in Preparing \cup {"reload", "query", "enable", "start"} => running = None
  /\ pc[c] \in {"query", "enable", "start"} => loaded = c
  /\ pc[c] \in {"confirm", "load", "save"} => c \in launched

CInv ==
  /\ \A c \in Calls : pc[c] \in {"idle", "lock"} => c \notin ledger /\ c \notin cold
  /\ ledger \cap cold \subseteq launched
  /\ \A c \in Calls : lock = c /\ c \in cold => Launching(c)

(* From the first step inside to the last before the ledger is saved. *)
LEMMA InteriorLaunching ==
  ASSUME IInv, CInv, NEW c \in Calls, Interior(c), c \in cold
  PROVE  Launching(c)'
<1>1. /\ lock = c /\ Holding(c) /\ c # None
      /\ pc \in [Calls -> Steps] /\ launched \subseteq Calls
  BY InteriorKeeps DEF IInv, TypeOK, Steps
<1>2. Launching(c)
  BY <1>1 DEF CInv
<1> USE <1>1, <1>2 DEF Launching, Preparing, FailsTo, Goes, unitVars
<1>3. CASE Write(c) \/ Prune(c)
  BY <1>3 DEF Write, Prune
<1>4. CASE Reload(c)
  <2>1. file = c
    BY <1>4, PcSets DEF Reload, Holding
  <2> QED
    BY <1>4, <2>1 DEF Reload
<1>5. CASE Query(c)
  BY <1>5 DEF Query
<1>6. CASE Enable(c)
  BY <1>6 DEF Enable
<1>7. CASE Start(c)
  <2>1. running = None /\ loaded = c
    BY <1>7 DEF Start
  <2>2. CASE StartUnit /\ pc'[c] = "confirm"
    BY <2>1, <2>2 DEF StartUnit, Launch
  <2>3. CASE pc'[c] \in {"disable", "restore"}
    BY <2>3
  <2> QED
    BY <1>7, <2>2, <2>3 DEF Start
<1>8. CASE Confirm(c) \/ LoadLedger(c) \/ SaveLedger(c)
  BY <1>8 DEF Confirm, LoadLedger, SaveLedger
<1>9. CASE Disable(c) \/ Restore(c) \/ Unspent(c)
  BY <1>9 DEF Disable, Restore, Unspent
<1> QED
  BY <1>3, <1>4, <1>5, <1>6, <1>7, <1>8, <1>9 DEF Interior

(* Starts are never forgotten, and only a saver writes the ledger. *)
LEMMA InteriorCInv ==
  ASSUME IInv, LInv, CInv, NEW c \in Calls, Interior(c)
  PROVE  CInv'
<1>1. /\ lock = c /\ lock' = c /\ c # None /\ cold' = cold /\ pc[c] \in Inside
  BY InteriorKeeps DEF IInv, TypeOK
<1>2. \A d \in Calls : d # c => pc'[d] = pc[d]
  BY OthersStay DEF Interior, Works
<1>3. launched \subseteq launched'
  BY DEF Interior, Prune, Reload, Query, Enable, Start, StartUnit, Launch, Confirm,
     LoadLedger, SaveLedger, Disable, Restore, Unspent, Write, unitVars
<1>4. pc'[c] \notin {"idle", "lock"} /\ pc[c] \notin {"idle", "lock"}
  BY <1>1 DEF Interior, Prune, Reload, Query, Enable, Start, Confirm, LoadLedger,
     SaveLedger, Disable, Restore, Unspent, Write, Goes, FailsTo, IInv, TypeOK, Inside,
     Preparing, Activating, Recording, RollingBack
<1>5. ledger' = ledger \/ (pc[c] = "save" /\ ledger' = ledger \cup {c})
  <2>1. CASE SaveLedger(c)
    BY <1>1, <2>1 DEF SaveLedger, LInv
  <2>2. CASE ~SaveLedger(c)
    BY <2>2 DEF Interior, Prune, Reload, Query, Enable, Start, Confirm, LoadLedger,
       Disable, Restore, Unspent, Write
  <2> QED
    BY <2>1, <2>2
<1>6. c \in cold /\ pc[c] = "save" => c \in launched
  BY <1>1 DEF CInv, Launching
<1>7. c \in cold => Launching(c)'
  BY InteriorLaunching
<1> QED
  BY <1>1, <1>2, <1>3, <1>4, <1>5, <1>6, <1>7 DEF CInv

(* Whoever takes the lock finds a dead unit or is not a cold deploy. *)
LEMMA EntryCInv ==
  ASSUME IInv, CInv, NEW c \in Calls, Call(c) \/ Acquire(c) \/ Refuse(c) \/ Backup(c)
  PROVE  CInv'
<1>1. /\ UNCHANGED <<running, loaded, launched, ledger>>
      /\ pc \in [Calls -> Steps]
      /\ \A d \in Calls : d # c => pc'[d] = pc[d]
  BY OthersStay
     DEF Call, Acquire, Refuse, Backup, unitVars, Works, IInv, TypeOK, Steps
<1>2. CASE Acquire(c)
  <2>1. /\ pc[c] = "lock" /\ pc'[c] = "backup" /\ lock' = c
        /\ cold' = IF running = None THEN cold \cup {c} ELSE cold
    BY <1>1, <1>2 DEF Acquire
  <2>2. c \notin ledger /\ c \notin cold
    BY <2>1 DEF CInv
  <2>3. c \in cold' => Launching(c)'
    BY <1>1, <2>1, <2>2 DEF Launching
  <2> QED
    BY <1>1, <2>1, <2>2, <2>3 DEF CInv
<1>3. CASE Call(c) \/ Refuse(c)
  <2>1. /\ pc[c] \in {"idle", "lock"} /\ lock' = lock /\ cold' = cold
        /\ lock # c
    BY <1>3, RefuseIInv, PcSets DEF Call, Goes, Refuse, pastVars, IInv, Control, Inside,
       Preparing, Activating, Recording, RollingBack
  <2> QED
    BY <1>1, <2>1 DEF CInv, Launching
<1>4. CASE Backup(c)
  <2>1. /\ pc[c] = "backup" /\ pc'[c] \in {"write", "done"} /\ lock = c /\ cold' = cold
    BY <1>1, <1>4, PcSets DEF Backup, Goes, Returns, IInv, Control, pastVars
  <2>2. c \in cold => running = None
    BY <2>1 DEF CInv, Launching, Preparing
  <2>3. \A d \in Calls : lock' = d => d = c
    BY <1>4, <2>1, DeployAssumption DEF Backup, Goes, Returns, DeployAssumption
  <2> QED
    BY <1>1, <2>1, <2>2, <2>3 DEF CInv, Launching, Preparing
<1> QED
  BY <1>2, <1>3, <1>4

(* Answering changes neither ledger nor starts. *)
LEMMA EndCInv ==
  ASSUME IInv, CInv, NEW c \in Calls, Unwrite(c) \/ Succeed(c) \/ Unload(c) \/ Crash(c)
  PROVE  CInv'
<1>1. /\ lock' = None /\ UNCHANGED <<launched, ledger, cold>>
  BY EndAnswers DEF Unwrite, Succeed, Unload, Crash, unitVars, pastVars
<1>2. pc'[c] = "done" /\ \A d \in Calls : d # c => pc'[d] = pc[d]
  BY OthersStay DEF Unwrite, Succeed, Unload, Crash, Returns, Works, IInv, TypeOK
<1> QED
  BY <1>1, <1>2, DeployAssumption DEF CInv, DeployAssumption

LEMMA NextCInv ==
  ASSUME IInv, LInv, CInv, ~Meddling, [Next]_vars
  PROVE  CInv'
<1>1. CASE UnitEnds \/ SetClockBack \/ Done \/ UNCHANGED vars
  <2>1. /\ UNCHANGED <<lock, pc, loaded, launched, ledger, cold>>
        /\ running = None => running' = None
    BY <1>1 DEF UnitEnds, SetClockBack, Done, vars, unitVars, pastVars
  <2> QED
    BY <2>1 DEF CInv, Launching
<1>2. ~Meddle
  BY DEF Meddle
<1> QED
  BY <1>1, <1>2, InteriorCInv, EndCInv, EntryCInv DEF Next, Works, Interior

(* Unless somebody else uses systemctl on the unit, a recorded deploy of a unit
   that was dead has started the version it recorded (activate_unit). *)
THEOREM ColdDeploysAreLaunched == Spec => []ColdDeploysLaunched
<1>1. CASE Meddling
  <2>1. ColdDeploysLaunched
    BY <1>1 DEF ColdDeploysLaunched
  <2> QED
    BY <2>1, PTL
<1>2. CASE ~Meddling
  <2>1. Init => LInv /\ CInv
    BY DeployAssumption DEF Init, LInv, CInv, DeployAssumption
  <2>2. IInv /\ LInv /\ CInv /\ [Next]_vars => LInv' /\ CInv'
    BY <1>2, LedgerStep, NextCInv
  <2>3. CInv => ColdDeploysLaunched
    BY DEF CInv, ColdDeploysLaunched
  <2> QED
    BY <2>1, <2>2, <2>3, Invariance, PTL DEF Spec
<1> QED
  BY <1>1, <1>2
-----------------------------------------------------------------------------
(***************************************************************************)
(* What a deploy has put in force stays so until the next caller: nobody   *)
(* reloads or disables the unit on the way to "ok".                        *)
(***************************************************************************)
InForce(c) ==
  /\ pc[c] \in {"query", "enable", "start", "confirm", "load", "save"} => loaded = c
  /\ pc[c] \in {"start", "confirm", "load", "save"} => enabled
  /\ pc[c] = "spent" /\ c \notin Installs => loaded = c /\ enabled

VInv ==
  /\ lock # None => InForce(lock)
  /\ lock = None /\ latest # None /\ latest \notin Installs /\ result[latest] = "ok" =>
       file = latest /\ loaded = latest /\ enabled

(* The verbs of the holder, one by one. *)
LEMMA InteriorVInv ==
  ASSUME IInv, VInv, NEW c \in Calls, Interior(c)
  PROVE  VInv'
<1>1. /\ lock = c /\ lock' = c /\ lock # None /\ Holding(c)
      /\ pc \in [Calls -> Steps] /\ enabled \in BOOLEAN
  BY InteriorKeeps DEF IInv, TypeOK, Steps
<1>2. InForce(c)
  BY <1>1 DEF VInv
<1>3. InForce(c)'
  <2> USE <1>1, <1>2 DEF InForce, FailsTo, Goes, diskVars, unitVars, localVars
  <2>1. CASE Write(c) \/ Prune(c)
    BY <2>1 DEF Write, Prune
  <2>2. CASE Reload(c)
    <3>1. file = c
      BY <2>2, PcSets DEF Reload, Holding
    <3> QED
      BY <2>2, <3>1 DEF Reload
  <2>3. CASE Query(c)
    BY <2>3 DEF Query
  <2>4. CASE Enable(c)
    BY <2>4 DEF Enable
  <2>5. CASE Start(c)
    BY <2>5 DEF Start, StartUnit, Launch
  <2>6. CASE Confirm(c) \/ LoadLedger(c) \/ SaveLedger(c)
    BY <2>6 DEF Confirm, LoadLedger, SaveLedger
  <2>7. CASE Disable(c) \/ Restore(c) \/ Unspent(c)
    BY <2>7 DEF Disable, Restore, Unspent
  <2> QED
    BY <2>1, <2>2, <2>3, <2>4, <2>5, <2>6, <2>7 DEF Interior
<1> QED
  BY <1>1, <1>3 DEF VInv

(* A call that answers "ok" leaves what it has put in force. *)
LEMMA EndVInv ==
  ASSUME IInv, VInv, NEW c \in Calls, Unwrite(c) \/ Succeed(c) \/ Unload(c) \/ Crash(c)
  PROVE  VInv'
<1>1. /\ lock = c /\ lock' = None /\ lock # None /\ latest = c /\ latest' = c
      /\ result \in [Calls -> Results] /\ Holding(c)
  BY EndAnswers DEF Holding, IInv, TypeOK
<1>2. InForce(c)
  BY <1>1 DEF VInv
<1>3. CASE Succeed(c)
  <2>1. pc[c] = "spent" /\ UNCHANGED <<file, loaded, enabled>>
    BY <1>3 DEF Succeed, unitVars
  <2> QED
    BY <1>1, <1>2, <2>1, PcSets DEF VInv, InForce, Holding
<1>4. CASE Unwrite(c) \/ Unload(c) \/ Crash(c)
  <2>1. result'[c] # "ok"
    BY <1>1, <1>4 DEF Unwrite, Unload, Crash, Returns
  <2> QED
    BY <1>1, <2>1 DEF VInv
<1> QED
  BY <1>3, <1>4

(* Whoever comes finds the unit as the last deploy left it. *)
LEMMA EntryVInv ==
  ASSUME IInv, VInv, NEW c \in Calls, Call(c) \/ Acquire(c) \/ Refuse(c) \/ Backup(c)
  PROVE  VInv'
<1>1. /\ UNCHANGED <<enabled, loaded, file>>
      /\ pc \in [Calls -> Steps] /\ result \in [Calls -> Results]
  BY DEF Call, Acquire, Refuse, Backup, unitVars, diskVars, IInv, TypeOK, Steps
<1>2. CASE Acquire(c)
  BY <1>1, <1>2, DeployAssumption DEF Acquire, VInv, InForce, DeployAssumption
<1>3. CASE Backup(c)
  <2>1. /\ lock = c /\ latest = c /\ latest' = c /\ c # None
    BY <1>3, PcSets, DeployAssumption
       DEF Backup, IInv, Control, Holding, pastVars, DeployAssumption
  <2>2. CASE Goes(c, "write")
    BY <1>1, <2>1, <2>2 DEF Goes, VInv, InForce
  <2>3. CASE Returns(c, "refused")
    BY <1>1, <2>1, <2>3 DEF Returns, VInv
  <2> QED
    BY <1>3, <2>2, <2>3 DEF Backup
<1>4. CASE Call(c) \/ Refuse(c)
  <2>1. /\ pc[c] \in {"idle", "lock"} /\ lock' = lock /\ lock # c /\ latest' = latest
        /\ result' = result \/ result' = [result EXCEPT ![c] = "refused"]
        /\ \E to : pc' = [pc EXCEPT ![c] = to]
    BY <1>4, RefuseIInv, PcSets DEF Call, Goes, Refuse, Returns, pastVars, IInv, Control,
       Inside, Preparing, Activating, Recording, RollingBack
  <2>2. lock # None => InForce(lock)'
    <3> SUFFICES ASSUME lock # None
                 PROVE  InForce(lock)'
      OBVIOUS
    <3>1. lock \in Calls /\ pc'[lock] = pc[lock]
      BY <2>1, <1>1 DEF IInv, TypeOK
    <3> QED
      BY <1>1, <2>1, <3>1 DEF VInv, InForce
  <2>3. latest # None /\ result'[latest] = "ok" => result[latest] = "ok"
    BY <1>1, <2>1 DEF IInv, TypeOK
  <2> QED
    BY <1>1, <2>1, <2>2, <2>3 DEF VInv
<1> QED
  BY <1>2, <1>3, <1>4

LEMMA NextVInv ==
  ASSUME IInv, VInv, ~Meddling, [Next]_vars
  PROVE  VInv'
<1>1. CASE UnitEnds \/ SetClockBack \/ Done \/ UNCHANGED vars
  <2>1. UNCHANGED <<enabled, loaded, file, lock, pc, result, latest>>
    BY <1>1 DEF UnitEnds, SetClockBack, Done, vars, diskVars, unitVars, pastVars
  <2> QED
    BY <2>1 DEF VInv, InForce
<1>2. ~Meddle
  BY DEF Meddle
<1> QED
  BY <1>1, <1>2, InteriorVInv, EndVInv, EntryVInv DEF Next, Works, Interior

(* Unless somebody else uses systemctl on the unit, what a successful deploy has
   written, reloaded and enabled stays in force until the next caller takes the
   lock (activate_unit, deploy_unit). *)
THEOREM DeploysTakeEffect == Spec => []DeployTakesEffect
<1>1. CASE Meddling
  <2>1. DeployTakesEffect
    BY <1>1 DEF DeployTakesEffect
  <2> QED
    BY <2>1, PTL
<1>2. CASE ~Meddling
  <2>1. Init => VInv
    BY DEF Init, VInv
  <2>2. IInv /\ VInv /\ [Next]_vars => VInv'
    BY <1>2, NextVInv
  <2>3. VInv => DeployTakesEffect
    BY DEF VInv, DeployTakesEffect, Free
  <2> QED
    BY <2>1, <2>2, <2>3, Invariance, PTL DEF Spec
<1> QED
  BY <1>1, <1>2
-----------------------------------------------------------------------------
(* From the record on a call can only succeed or die. *)
RInv ==
  \A c \in ledger :
    \/ pc[c] = "spent"
    \/ pc[c] = "done" /\ result[c] \in {"ok", "crashed"}

(* Only a saver records, and it goes on to succeed. *)
LEMMA RecordStep ==
  ASSUME IInv, LInv, RInv, [Next]_vars
  PROVE  RInv'
<1>1. ASSUME NEW c \in Calls, Works(c) \/ Refuse(c) \/ Crash(c)
      PROVE  RInv'
  <2>1. /\ pc \in [Calls -> Steps] /\ result \in [Calls -> Results]
        /\ ledger \subseteq Calls
        /\ \A d \in Calls : d # c => pc'[d] = pc[d] /\ result'[d] = result[d]
    BY <1>1, OthersStay DEF IInv, TypeOK, Steps
  <2>2. CASE SaveLedger(c)
    <3>1. lock = c /\ pc[c] = "save"
      BY <2>2, PcSets DEF SaveLedger, IInv, Control
    <3>2. ledger' \subseteq ledger \cup {c} /\ pc'[c] = "spent"
      BY <2>1, <2>2, <3>1 DEF SaveLedger, Goes, LInv
    <3> QED
      BY <2>1, <3>2 DEF RInv
  <2>3. CASE ~SaveLedger(c)
    <3>1. ledger' = ledger
      BY <1>1, <2>3
         DEF Refuse, Crash, Works, Call, Acquire, Backup, Write, Unwrite, Prune, Reload,
         Query, Enable, Start, Confirm, LoadLedger, Succeed, Disable, Restore, Unspent,
         Unload
    <3>2. CASE pc[c] = "spent"
      <4>1. Succeed(c) \/ Crash(c)
        BY <1>1, <3>2 DEF Refuse, Crash, Works, Call, Acquire, Backup, Write, Unwrite,
           Prune, Reload, Query, Enable, Start, Confirm, LoadLedger, SaveLedger, Disable,
           Restore, Unspent, Unload
      <4>2. pc'[c] = "done" /\ result'[c] \in {"ok", "crashed"}
        BY <2>1, <4>1 DEF Succeed, Crash, Returns
      <4> QED
        BY <2>1, <3>1, <4>2 DEF RInv
    <3>3. CASE pc[c] # "spent"
      <4>1. pc[c] # "done"
        BY <1>1, PcSets DEF Refuse, Crash, Works, Call, Acquire, Backup, Write, Unwrite,
           Prune, Reload, Query, Enable, Start, Confirm, LoadLedger, SaveLedger, Succeed,
           Disable, Restore, Unspent, Unload, Inside, Preparing, Activating, Recording,
           RollingBack
      <4>2. c \notin ledger
        BY <3>3, <4>1 DEF RInv
      <4> QED
        BY <2>1, <3>1, <4>2 DEF RInv
    <3> QED
      BY <3>2, <3>3
  <2> QED
    BY <2>2, <2>3
<1>2. CASE UnitEnds \/ Meddle \/ SetClockBack \/ Done \/ UNCHANGED vars
  BY <1>2, WorldIInv DEF Done, RInv
<1> QED
  BY <1>1, <1>2 DEF Next

(* No deploy is recorded and then rolled back: a failure to record only warns,
   and nothing after the record can fail the call (deploy_unit). *)
THEOREM RecordedDeploysStand == Spec => []LedgerNeverRolledBack
<1>1. Init => LInv /\ RInv
  BY DEF Init, LInv, RInv
<1>2. IInv /\ LInv /\ RInv /\ [Next]_vars => LInv' /\ RInv'
  BY LedgerStep, RecordStep
<1>3. IInv /\ RInv => LedgerNeverRolledBack
  BY PcSets DEF IInv, Control, TypeOK, RInv, LedgerNeverRolledBack, Recording, Inside,
     Preparing, Activating, RollingBack
<1> QED
  BY <1>1, <1>2, <1>3, Invariance, PTL DEF Spec
-----------------------------------------------------------------------------
(***************************************************************************)
(* Backups are files: no two have one name.  Those to keep are counted     *)
(* from the newest.                                                        *)
(***************************************************************************)
Newer(b) == {other \in backups : other.stamp > b.stamp}

UInv ==
  /\ IsFiniteSet(backups)
  /\ \A b, other \in backups : other.stamp = b.stamp => other = b

(* How many are newer can be counted, and is greater for an older backup. *)
LEMMA OlderHasMoreNewer ==
  ASSUME IInv, UInv, NEW b \in backups
  PROVE  /\ Cardinality(Newer(b)) \in Nat
         /\ \A other \in backups :
              b.stamp < other.stamp => Cardinality(Newer(other)) < Cardinality(Newer(b))
<1>1. \A d \in backups : IsFiniteSet(Newer(d)) /\ Cardinality(Newer(d)) \in Nat
  <2> TAKE d \in backups
  <2>1. Newer(d) \in SUBSET backups
    BY DEF Newer
  <2> QED
    BY <2>1, FS_Subset, FS_CardinalityType DEF UInv
<1>2. ASSUME NEW other \in backups, b.stamp < other.stamp
      PROVE  Cardinality(Newer(other)) < Cardinality(Newer(b))
  <2>1. b.stamp \in Nat /\ other.stamp \in Nat /\ \A d \in backups : d.stamp \in Nat
    BY DEF IInv, TypeOK
  <2>2. Newer(other) \in SUBSET Newer(b)
    BY <1>2, <2>1 DEF Newer
  <2>3. other \in Newer(b) /\ other \notin Newer(other)
    BY <1>2, <2>1 DEF Newer
  <2>4. /\ Cardinality(Newer(other)) <= Cardinality(Newer(b))
        /\ Cardinality(Newer(other)) # Cardinality(Newer(b))
    BY <1>1, <2>2, <2>3, FS_Subset
  <2> QED
    BY <1>1, <2>4
<1> QED
  BY <1>1, <1>2

(* What pruning may remove is older than all it must keep. *)
LEMMA KeptAreNewest ==
  ASSUME IInv, UInv, NEW b \in backups, NEW gone \in backups, Keeps(b), ~Keeps(gone)
  PROVE  gone.stamp < b.stamp
<1>1. /\ Cardinality(Newer(b)) \in Nat /\ Cardinality(Newer(gone)) \in Nat
      /\ Cardinality(Newer(b)) < MaxRetained
      /\ ~(Cardinality(Newer(gone)) < MaxRetained)
      /\ MaxRetained \in Nat
  BY OlderHasMoreNewer, DeployAssumption DEF Keeps, Newer, DeployAssumption
<1>2. ~(b.stamp < gone.stamp)
  BY <1>1, OlderHasMoreNewer
<1>3. b.stamp # gone.stamp
  BY DEF UInv
<1> QED
  BY <1>2, <1>3 DEF IInv, TypeOK

(* When there is more than is to be kept, enough is kept: newer than the newest
   of the others there are MaxRetained, all of which are kept. *)
LEMMA EnoughKept ==
  ASSUME IInv, UInv, NEW gone \in backups, ~Keeps(gone)
  PROVE  \E m \in backups :
           /\ ~Keeps(m)
           /\ Newer(m) \subseteq {b \in backups : Keeps(b)}
<1> DEFINE Rest == {b \in backups : ~Keeps(b)}
           Tails == {Newer(b) : b \in Rest}
           Order == StrictSubsetOrdering(backups)
<1>1. Tails \subseteq FiniteSubsetsOf(backups)
  <2> SUFFICES ASSUME NEW b \in Rest
               PROVE  Newer(b) \in FiniteSubsetsOf(backups)
    OBVIOUS
  <2>1. Newer(b) \in SUBSET backups
    BY DEF Newer
  <2> QED
    BY <2>1, FS_Subset DEF UInv, FiniteSubsetsOf
<1>2. IsWellFoundedOn(Order, FiniteSubsetsOf(backups))
  BY FS_StrictSubsetOrderingWellFounded
<1>3. Tails # {}
  OBVIOUS
<1> HIDE DEF Order, Tails
<1>4. PICK tail \in Tails : \A other \in Tails : <<other, tail>> \notin Order
  BY <1>1, <1>2, <1>3, WFMin
<1>5. PICK m \in Rest : tail = Newer(m)
  BY DEF Tails
<1>6. Newer(m) \subseteq {b \in backups : Keeps(b)}
  <2> SUFFICES ASSUME NEW b \in Newer(m), ~Keeps(b)
               PROVE  FALSE
    BY DEF Newer
  <2>1. b \in Rest /\ m.stamp \in Nat /\ b.stamp \in Nat /\ b.stamp > m.stamp
    BY DEF Newer, IInv, TypeOK
  <2>2. Newer(b) \subseteq Newer(m) /\ b \notin Newer(b)
    BY <2>1 DEF Newer, IInv, TypeOK
  <2>3. Newer(b) \in Tails /\ Newer(b) \in SUBSET backups /\ Newer(m) \in SUBSET backups
    BY <2>1 DEF Tails, Newer
  <2>4. Newer(b) # Newer(m)
    BY <2>2
  <2>5. <<Newer(b), Newer(m)>> \in Order
    BY <2>2, <2>3, <2>4 DEF Order, StrictSubsetOrdering
  <2> QED
    BY <1>4, <1>5, <2>3, <2>5
<1> QED
  BY <1>5, <1>6

(* A pruning that takes only what is not to be kept leaves MaxRetained newer
   than anything it takes. *)
LEMMA PrunedHaveNewer ==
  ASSUME IInv, UInv, NEW gone \in SUBSET {b \in backups : ~Keeps(b)},
         backups' = backups \ gone, NEW b \in gone
  PROVE  Cardinality({other \in backups' : other.stamp > b.stamp}) >= MaxRetained
<1> DEFINE Spared == {other \in backups' : other.stamp > b.stamp}
<1>1. PICK m \in backups :
        ~Keeps(m) /\ Newer(m) \subseteq {other \in backups : Keeps(other)}
  BY EnoughKept
<1>2. Cardinality(Newer(m)) >= MaxRetained /\ MaxRetained \in Nat
  BY <1>1, OlderHasMoreNewer, DeployAssumption DEF Keeps, Newer, DeployAssumption
<1>3. Newer(m) \in SUBSET Spared
  <2> SUFFICES ASSUME NEW other \in Newer(m)
               PROVE  other \in Spared
    OBVIOUS
  <2>1. other \in backups /\ Keeps(other)
    BY <1>1
  <2>2. b.stamp < other.stamp
    BY <2>1, KeptAreNewest
  <2> QED
    BY <2>1, <2>2 DEF IInv, TypeOK
<1>4. IsFiniteSet(Spared) /\ Cardinality(Spared) \in Nat
  <2>1. Spared \in SUBSET backups
    OBVIOUS
  <2> QED
    BY <2>1, FS_Subset, FS_CardinalityType DEF UInv
<1>5. Cardinality(Newer(m)) <= Cardinality(Spared) /\ Cardinality(Newer(m)) \in Nat
  BY <1>3, <1>4, FS_Subset, OlderHasMoreNewer
<1> QED
  BY <1>2, <1>4, <1>5

(* A copy under a name in use replaces the other. *)
LEMMA StoreNamesOnce ==
  ASSUME IInv, UInv, NEW b
  PROVE  /\ IsFiniteSet(Store(b))
         /\ \A x, y \in Store(b) : y.stamp = x.stamp => y = x
<1>1. {other \in backups : other.stamp # b.stamp} \in SUBSET backups
  OBVIOUS
<1>2. IsFiniteSet({other \in backups : other.stamp # b.stamp})
  BY <1>1, FS_Subset DEF UInv
<1> QED
  BY <1>2, FS_AddElement DEF Store, UInv

(* The backups only ever change by a store or by removals. *)
LEMMA BackupsStep ==
  ASSUME [Next]_vars
  PROVE  \/ backups' \subseteq backups
         \/ /\ \E c \in Calls : Backup(c)
            /\ \E v : backups' = Store([stamp |-> Stamp, is |-> v])
<1>1. ASSUME NEW c \in Calls, Backup(c)
      PROVE  backups' = backups \/ \E v : backups' = Store([stamp |-> Stamp, is |-> v])
  BY <1>1 DEF Backup
<1>2. ASSUME NEW c \in Calls, Refuse(c) \/ Crash(c) \/ (Works(c) /\ ~Backup(c))
      PROVE  backups' \subseteq backups
  BY <1>2 DEF Refuse, Crash, Works, Call, Acquire, Write, Unwrite, Prune, Reload, Query,
     Enable, Start, Confirm, LoadLedger, SaveLedger, Succeed, Discard, Disable, Restore,
     Unspent, Unload, diskVars
<1>3. CASE UnitEnds \/ Meddle \/ SetClockBack \/ Done \/ UNCHANGED vars
  BY <1>3 DEF UnitEnds, Meddle, SetClockBack, Done, vars, diskVars
<1> QED
  BY <1>1, <1>2, <1>3 DEF Next, Works

LEMMA NextUInv ==
  ASSUME IInv, UInv, [Next]_vars
  PROVE  UInv'
<1>1. CASE backups' \subseteq backups
  BY <1>1, FS_Subset DEF UInv
<1>2. CASE \E v : backups' = Store([stamp |-> Stamp, is |-> v])
  <2>1. PICK v : backups' = Store([stamp |-> Stamp, is |-> v])
    BY <1>2
  <2> QED
    BY <2>1, StoreNamesOnce DEF UInv
<1> QED
  BY <1>1, <1>2, BackupsStep

LEMMA InitUInv == Init => UInv
<1> SUFFICES ASSUME Init
             PROVE  UInv
  OBVIOUS
<1> DEFINE f == [n \in 1..Left |-> [stamp |-> 2 * n, is |-> Other]]
<1>1. Left \in Nat
  BY DeployAssumption DEF DeployAssumption
<1>2. IsFiniteSet(1..Left)
  BY <1>1, FS_Interval
<1>3. f \in Surjection(1..Left, backups)
  BY DEF Init, Surjection
<1>4. IsFiniteSet(backups)
  BY <1>2, <1>3, FS_Surjection
<1>5. \A b, other \in backups : other.stamp = b.stamp => other = b
  BY <1>1 DEF Init
<1> QED
  BY <1>4, <1>5 DEF UInv

LEMMA UniqueNames == Spec => []UInv
BY InitUInv, NextUInv, Invariance, PTL DEF Spec

(* However the clock jumps, a backup goes only with the call it belongs to, to a
   copy of its name, or while as many newer ones stay as are to be retained
   (prune_unit_backups, delete_backup). *)
THEOREM PruningSparesTheNewest == Spec => PruningSparesNewest
<1> DEFINE Why(b) ==
      \/ ~Free /\ b.stamp = own[lock]
      \/ \E other \in backups' : other.stamp = b.stamp
      \/ Cardinality({other \in backups' : other.stamp > b.stamp}) >= MaxRetained
<1>1. IInv /\ UInv /\ [Next]_vars => [\A b \in backups \ backups' : Why(b)]_backups
  <2> SUFFICES ASSUME IInv, UInv, [Next]_vars, NEW b \in backups, b \notin backups'
               PROVE  Why(b)
    OBVIOUS
  <2>1. ASSUME NEW c \in Calls, Prune(c)
        PROVE  Why(b)
    <3>1. PICK gone \in SUBSET {d \in backups : ~Keeps(d)} : backups' = backups \ gone
      BY <2>1 DEF Prune
    <3>2. b \in gone
      BY <3>1
    <3> QED
      BY <3>1, <3>2, PrunedHaveNewer
  <2>2. ASSUME NEW c \in Calls, Succeed(c) \/ Unspent(c)
        PROVE  Why(b)
    <3>1. pc[c] \in Inside
      BY <2>2, PcSets DEF Succeed, Unspent
    <3>2. lock = c /\ ~Free
      BY <3>1, DeployAssumption DEF IInv, Control, Free, DeployAssumption
    <3>3. b \in OwnBackup(c)
      BY <2>2 DEF Succeed, Unspent, Discard
    <3> QED
      BY <3>2, <3>3 DEF OwnBackup
  <2>3. ASSUME NEW v, backups' = Store([stamp |-> Stamp, is |-> v])
        PROVE  Why(b)
    BY <2>3 DEF Store
  <2>4. ASSUME NEW c \in Calls, Backup(c)
        PROVE  Why(b)
    BY <2>3, <2>4 DEF Backup
  <2>5. ASSUME NEW c \in Calls,
               \/ Refuse(c) \/ Crash(c)
               \/ Works(c) /\ ~Backup(c) /\ ~Prune(c) /\ ~Succeed(c) /\ ~Unspent(c)
        PROVE  Why(b)
    BY <2>5 DEF Refuse, Crash, Works, Call, Acquire, Write, Unwrite, Reload, Query, Enable,
       Start, Confirm, LoadLedger, SaveLedger, Disable, Restore, Unload, diskVars
  <2>6. CASE UnitEnds \/ Meddle \/ SetClockBack \/ Done \/ UNCHANGED vars
    BY <2>6 DEF UnitEnds, Meddle, SetClockBack, Done, vars, diskVars
  <2> QED
    BY <2>1, <2>2, <2>4, <2>5, <2>6 DEF Next, Works
<1> QED
  BY <1>1, Invariance, UniqueNames, PTL DEF Spec, PruningSparesNewest

(* If the wall clock is never set back, a new backup takes a name of its own and
   replaces none (backup_unit, unix_timestamp_nanos). *)
THEOREM BackupsAreNotOverwritten == ~ClockSteps => (Spec => BackupsNotOverwritten)
<1> SUFFICES ASSUME ~ClockSteps
             PROVE  Spec => BackupsNotOverwritten
  OBVIOUS
<1>1. Init => KInv
  BY InitKInv
<1>2. IInv /\ KInv /\ [Next]_vars => KInv'
  BY NextKInv
<1>3. IInv /\ UInv /\ KInv /\ [Next]_vars =>
        [\A b \in backups, other \in backups' : other.stamp = b.stamp => other = b]_backups
  <2> SUFFICES ASSUME IInv, UInv, KInv, [Next]_vars,
                      NEW b \in backups, NEW other \in backups', other.stamp = b.stamp
               PROVE  other = b
    OBVIOUS
  <2>1. CASE backups' \subseteq backups
    BY <2>1 DEF UInv
  <2>2. CASE \E v : backups' = Store([stamp |-> Stamp, is |-> v])
    <3>1. PICK v : backups' = Store([stamp |-> Stamp, is |-> v])
      BY <2>2
    <3>2. b.stamp <= clock /\ clock \in Nat /\ b.stamp \in Nat
      BY DEF KInv, IInv, TypeOK
    <3>3. other.stamp # Stamp
      BY <3>2 DEF Stamp
    <3> QED
      BY <3>1, <3>3 DEF Store, UInv
  <2> QED
    BY <2>1, <2>2, BackupsStep
<1> QED
  BY <1>1, <1>2, <1>3, Invariance, UniqueNames, PTL DEF Spec, BackupsNotOverwritten
=============================================================================
