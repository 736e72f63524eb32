--------------------------- MODULE CommandContract ---------------------------
(***************************************************************************)
(* What every runner of toride-runner promises about one command, whatever *)
(* threads or tasks it is made of: an answer is given once and after the   *)
(* child has been reaped, and it tells the truth about the output cap.     *)
(***************************************************************************)
EXTENDS Naturals

CONSTANT Cap     \* the output cap, in units of output

VARIABLES
  capped,        \* does the command have an output cap?
  child,         \* "none", "running", "dead" or "reaped"
  wrote,         \* output the child has produced, on both streams
  result         \* the runner's answer, "none" before

vars == <<capped, child, wrote, result>>

Answers ==
  {"ok", "limit", "timeout", "stdin_failed", "refused", "cancelled"}

Init ==
  /\ capped \in BOOLEAN
  /\ child = "none"
  /\ wrote = 0
  /\ result = "none"

Start ==
  /\ child = "none" /\ result = "none"
  /\ child' = "running"
  /\ UNCHANGED <<capped, wrote, result>>

Write ==
  /\ child = "running"
  /\ wrote' \in Nat /\ wrote' > wrote
  /\ UNCHANGED <<capped, child, result>>

Die ==
  /\ child = "running"
  /\ child' = "dead"
  /\ UNCHANGED <<capped, wrote, result>>

Reap ==
  /\ child = "dead"
  /\ child' = "reaped"
  /\ UNCHANGED <<capped, wrote, result>>

\* Reaping the child and answering may be one step.
Answer(r) ==
  /\ result = "none"
  /\ result' = r
  /\ child \in {"dead", "reaped"} /\ child' = "reaped"
  /\ r = "ok" /\ capped => wrote <= Cap
  /\ r = "limit" => capped /\ wrote > Cap
  /\ UNCHANGED <<capped, wrote>>

\* Nothing was started.
Refuse ==
  /\ child = "none" /\ result = "none"
  /\ result' = "refused"
  /\ UNCHANGED <<capped, child, wrote>>

\* The caller lost interest: the child does not outlive the call, and is
\* reaped in the background.
Cancel ==
  /\ child # "none" /\ result = "none"
  /\ result' = "cancelled"
  /\ child' = IF child = "running" THEN "dead" ELSE child
  /\ UNCHANGED <<capped, wrote>>

Next ==
  \/ Start \/ Write \/ Die \/ Reap \/ Refuse \/ Cancel
  \/ \E r \in {"ok", "limit", "timeout", "stdin_failed"} : Answer(r)

Spec == Init /\ [][Next]_vars
=============================================================================
