------------------------------ MODULE EditedFile ------------------------------
(***************************************************************************)
(* What the callers of ConfigService::edit may rely on: each edit is       *)
(* applied to what the file holds at that moment, one at a time; an edit   *)
(* that was acknowledged stays; one that is refused was really out of      *)
(* place; one that failed left the file alone, unless undoing it failed.   *)
(* The promise ends when a writer strays: from then on nothing is promised. *)
(***************************************************************************)
EXTENDS HostEdits

CONSTANT Absent  \* no file

VARIABLES
  content,       \* what the file holds
  base,          \* what it goes back to if the edit in progress is undone
  status,        \* how far each call has come
  strayed        \* has a writer strayed?

vars == <<content, base, status, strayed>>

Contents == (SUBSET Hosts) \cup {Absent}

Statuses ==
  {"pending", "applied", "void", "ok", "failed", "refused", "gone"}

Init ==
  /\ content \in Contents
  /\ base = content
  /\ status = [c \in Calls |-> "pending"]
  /\ strayed = FALSE

Becomes(c, s) == status' = [status EXCEPT ![c] = s]

Create ==
  /\ content = Absent
  /\ content' = {} /\ base' = {}
  /\ UNCHANGED strayed
  /\ \/ UNCHANGED status
     \/ \E c \in Calls, s \in {"failed", "gone"} :
          status[c] = "pending" /\ Becomes(c, s)

\* One edit at a time, on top of everything acknowledged so far.
Apply(c) ==
  /\ status[c] = "pending"
  /\ \A d \in Calls : status[d] # "applied"
  /\ content # Absent /\ Fits(c, content)
  /\ content' = Edited(c, content)
  /\ Becomes(c, "applied")
  /\ UNCHANGED <<base, strayed>>

Confirm(c) ==
  /\ status[c] = "applied"
  /\ base' = content
  /\ Becomes(c, "ok")
  /\ UNCHANGED <<content, strayed>>

\* An edit that fails late is undone, as far as that works.
Undo(c) ==
  /\ status[c] = "applied"
  /\ Becomes(c, "void")
  /\ \/ content' = base /\ UNCHANGED base
     \/ base' = content /\ UNCHANGED content
  /\ UNCHANGED strayed

Refuse(c) ==
  /\ status[c] = "pending"
  /\ content # Absent => ~Fits(c, content)
  /\ Becomes(c, "refused")
  /\ UNCHANGED <<content, base, strayed>>

Fail(c) ==
  /\ \/ status[c] = "pending" /\ \E s \in {"void", "failed"} : Becomes(c, s)
     \/ status[c] = "void" /\ Becomes(c, "failed")
  /\ UNCHANGED <<content, base, strayed>>

\* The callers in S are gone: dropped, or dead with their process.
Abandon(S) ==
  /\ \A c \in S : status[c] \in {"pending", "applied", "void"}
  /\ status' = [c \in Calls |-> IF c \in S THEN "gone" ELSE status[c]]
  /\ base' = IF \E c \in S : status[c] = "applied" THEN content ELSE base
  /\ UNCHANGED <<content, strayed>>

Stray ==
  /\ strayed' = TRUE
  /\ content' \in Contents /\ base' \in Contents
  /\ status' \in [Calls -> Statuses]

Next ==
  \/ Create
  \/ \E c \in Calls :
       Apply(c) \/ Confirm(c) \/ Undo(c) \/ Refuse(c) \/ Fail(c)
  \/ \E S \in SUBSET Calls : Abandon(S)
  \/ Stray

Spec == Init /\ [][Next]_vars
=============================================================================
