------------------------------- MODULE OpQueue -------------------------------
(***************************************************************************)
(* What the TUI promises the operator about SSH write operations: they run *)
(* one at a time, in the order they were submitted, each exactly once; and *)
(* only leaving the application may drop the ones that have not run.       *)
(***************************************************************************)
EXTENDS Naturals, Sequences

CONSTANT MaxBatch  \* the most operations one confirmed dialog submits

\* Operations are numbered in the order of submission.
VARIABLES
  submitted,     \* how many have been submitted
  queue,         \* submitted and not yet run, oldest first
  ran,           \* run, in the order they ran
  leaving        \* the operator has quit the application

vars == <<submitted, queue, ran, leaving>>

Init ==
  /\ submitted = 0
  /\ queue = <<>>
  /\ ran = <<>>
  /\ leaving = FALSE

\* Every operation submitted is queued, behind those that are.
Submit ==
  /\ ~leaving
  /\ \E n \in 1..MaxBatch :
       /\ submitted' = submitted + n
       /\ queue' = queue \o [i \in 1..n |-> submitted + i]
  /\ UNCHANGED <<ran, leaving>>

Run ==
  /\ queue # <<>>
  /\ queue' = Tail(queue)
  /\ ran' = Append(ran, Head(queue))
  /\ UNCHANGED <<submitted, leaving>>

\* Leaving in good order keeps the queue for now; leaving on an error does not.
Leave ==
  /\ leaving' = TRUE
  /\ queue' \in {queue, <<>>}
  /\ UNCHANGED <<submitted, ran>>

\* Operations still queued when the application closes are dropped.
Drop ==
  /\ leaving
  /\ queue' = <<>>
  /\ UNCHANGED <<submitted, ran, leaving>>

Next == Submit \/ Run \/ Leave \/ Drop

Spec == Init /\ [][Next]_vars
=============================================================================
