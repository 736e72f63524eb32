---------------------------- MODULE ChildProcess ----------------------------
(***************************************************************************)
(* A child process and its three pipes, as the operating system presents   *)
(* them to a runner.  The child is anybody's program: it writes, reads,    *)
(* closes its ends, lingers or exits as it likes.  A grandchild may inherit *)
(* the ends the child had open and keep them after the child is gone.      *)
(* Output and input are counted in units; nothing depends on their bytes.  *)
(***************************************************************************)
EXTENDS Naturals

CONSTANTS
  PipeSize,      \* units a pipe holds before a writer blocks
  MaxOutput,     \* bound: units the child writes in all
  Grandchildren  \* may a grandchild keep ends open after the child is dead?

ASSUME ChildAssumption ==
  /\ PipeSize \in Nat \ {0}
  /\ MaxOutput \in Nat
  /\ Grandchildren \in BOOLEAN

VARIABLES
  child,         \* "none", "running", "exited" by itself or "killed"
  reaped,        \* has its exit status been collected?
  open,          \* the ends the child, or a grandchild, still holds
  pipe,          \* units in each pipe
  wrote          \* units the child has written to both output pipes

childVars == <<child, reaped, open, pipe, wrote>>

Streams == {"out", "err"}
Ends    == Streams \cup {"in"}

ChildTypeOK ==
  /\ child \in {"none", "running", "exited", "killed"}
  /\ reaped \in BOOLEAN
  /\ open \subseteq Ends
  /\ pipe \in [Ends -> 0..PipeSize]
  /\ wrote \in 0..MaxOutput

ChildInit ==
  /\ child = "none"
  /\ reaped = FALSE
  /\ open = {}
  /\ pipe = [e \in Ends |-> 0]
  /\ wrote = 0

Spawned ==
  /\ child' = "running"
  /\ open' = Ends
  /\ UNCHANGED <<reaped, pipe, wrote>>

Writes(s) ==
  /\ child = "running" /\ s \in open
  /\ pipe[s] < PipeSize /\ wrote < MaxOutput
  /\ pipe' = [pipe EXCEPT ![s] = @ + 1]
  /\ wrote' = wrote + 1
  /\ UNCHANGED <<child, reaped, open>>

ReadsInput ==
  /\ child = "running" /\ "in" \in open
  /\ pipe["in"] > 0
  /\ pipe' = [pipe EXCEPT !["in"] = @ - 1]
  /\ UNCHANGED <<child, reaped, open, wrote>>

\* The child closes an end, or after its death the grandchild does.
Closes(e) ==
  /\ child # "none" /\ e \in open
  /\ open' = open \ {e}
  /\ UNCHANGED <<child, reaped, pipe, wrote>>

\* The ends that outlive the child.
Inherited == IF Grandchildren THEN SUBSET open ELSE {{}}

Exits ==
  /\ child = "running"
  /\ child' = "exited"
  /\ open' \in Inherited
  /\ UNCHANGED <<reaped, pipe, wrote>>

\* What the world does on its own.
ChildStep ==
  \/ \E s \in Streams : Writes(s)
  \/ ReadsInput
  \/ \E e \in Ends : Closes(e)
  \/ Exits

\* SIGKILL from the runner; without effect on a child that is already dead.
Kill ==
  IF child = "running"
  THEN /\ child' = "killed"
       /\ open' \in Inherited
       /\ UNCHANGED <<reaped, pipe, wrote>>
  ELSE UNCHANGED childVars

\* The exit status becomes known.
Dead == child \in {"exited", "killed"}

Reaps ==
  /\ Dead /\ reaped' = TRUE
  /\ UNCHANGED <<child, open, pipe, wrote>>

\* One read returns some of what the pipe holds.
Takes(s, n) ==
  /\ pipe' = [pipe EXCEPT ![s] = @ - n]
  /\ UNCHANGED <<child, reaped, open, wrote>>

AtEof(s) == pipe[s] = 0 /\ s \notin open
=============================================================================
