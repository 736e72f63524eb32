\* Two applications, one of them behind a shared listing, batches of two with
\* repetition, and two dropped saves under way.
SPECIFICATION Spec
CONSTANTS
  Apps = {a, b}
  Listed = {a}
  MaxBatch = 2
  Slots = {s1, s2}
  Unreadable = Unreadable
  None = None
INVARIANTS AnswersRecorded Durable AnswersCurrent
PROPERTIES OwnRemovals
