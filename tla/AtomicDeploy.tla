----------------------------- MODULE AtomicDeploy -----------------------------
(***************************************************************************)
(* What the callers of install_unit and deploy_unit may rely on: seen from *)
(* outside, a call changes the unit file in one step, when it answers.  It *)
(* installs its version, leaves the file alone, or says that it may have   *)
(* done neither.                                                           *)
(***************************************************************************)
CONSTANTS
  Calls,         \* calls of install_unit and deploy_unit, one version each
  Original,      \* the version there before any of them
  None           \* no file

VARIABLES
  file,          \* the version at the unit's path
  result         \* the answer of each call, "none" before

vars == <<file, result>>

Init ==
  /\ file \in {Original, None}
  /\ result = [c \in Calls |-> "none"]

Answer(c, r) ==
  /\ result[c] = "none"
  /\ result' = [result EXCEPT ![c] = r]

Install(c) == Answer(c, "ok") /\ file' = c

RollBack(c) == Answer(c, "rolled_back") /\ UNCHANGED file

\* A backup that fails, a lock that cannot be opened.
Refuse(c) == Answer(c, "refused") /\ UNCHANGED file

\* Nothing is promised: the write failed and cleaning up after it was best
\* effort, the rollback failed, or the process died.
GiveUp(c) ==
  /\ \E r \in {"write_failed", "rollback_failed", "crashed"} : Answer(c, r)
  /\ file' \in {file, c, None}

Next ==
  \E c \in Calls : Install(c) \/ RollBack(c) \/ Refuse(c) \/ GiveUp(c)

Spec == Init /\ [][Next]_vars
=============================================================================
