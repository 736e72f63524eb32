--------------------------- MODULE ConfigEdit_proofs ---------------------------
(***************************************************************************)
(* Proofs about ConfigEdit, for any calls, readers, processes and hosts.   *)
(***************************************************************************)
EXTENDS ConfigEdit, TLAPS, FiniteSetTheorems

(* What is known of a loader from where it is. *)
Placed ==
  /\ \A r \in Readers : pc[r] \in Loading \cup {"crashed"}
  /\ \A l \in Loaders : pc[l] \in {"probe", "insert"} =>
       seen[l] \in Stamps /\ file.data # Absent
  /\ \A c \in Calls : pc[c] \in Inside \cup {"lock"} => file.data # Absent
  /\ \A c \in Calls : pc[c] \in {"rename", "chmod", "restore"} => before[c] # Absent

(* A call inside has the lock unless its future was dropped; then a thread
   still works for it, and not on a save as long as no write has strayed. *)
Guarded ==
  /\ \A c \in Calls : pc[c] \in Inside /\ c \notin dropped => lock = c
  /\ lock \notin dropped
  /\ \A c \in dropped : pc[c] \in OnThread
  /\ ~stray => \A c \in dropped : pc[c] \notin Saving

(* What a load has read under a stamp is what the file holds under it. *)
Read ==
  \A l \in Loaders :
    pc[l] = "insert" /\ seen[l] = StampOf(file) => ast[l] = file.data

(* Under the lock nobody else writes. *)
Current ==
  \A c \in Calls : c \notin dropped =>
    /\ pc[c] \in {"probe", "insert"} => seen[c] = StampOf(file)
    /\ pc[c] = "edit" => ast[c] = file.data
    /\ pc[c] \in {"snapshot", "rename"} =>
         Fits(c, file.data) /\ ast[c] = Edited(c, file.data)
    /\ pc[c] = "rename" => before[c] = file.data

IInv ==
  /\ TypeOK /\ Placed /\ Guarded
  /\ ~stray => Read /\ Current
  /\ CacheHonest

(* A file of hosts has a stamp. *)
LEMMA StampsAreStamps ==
  ASSUME NEW f \in [data : SUBSET Hosts, mtime : Nat]
  PROVE  StampOf(f) \in Stamps
<1>1. f.data \in SUBSET Hosts /\ f.mtime \in Nat
  OBVIOUS
<1>2. IsFiniteSet(f.data)
  BY <1>1, ConfigAssumption, FS_Subset DEF ConfigAssumption
<1>3. Cardinality(f.data) \in Nat
  BY <1>2, FS_CardinalityType
<1> QED
  BY <1>1, <1>3 DEF StampOf, Stamps

(* A call finds out whether there is a config to edit. *)
LEMMA BeginIInv ==
  ASSUME IInv, NEW c \in Calls, Begin(c)
  PROVE  IInv'
<1> USE ConfigAssumption DEF ConfigAssumption, IInv
<1>1. TypeOK'
  BY DEF Contents, Absent, TypeOK, Placed, Guarded, Loaders, Phases, Inside,
     Loading, Saving, Ended, OnThread, Begin, Goto, loadVars
<1>2. Placed'
  BY DEF Contents, Absent, TypeOK, Placed, Guarded, Loaders, Phases, Inside,
     Loading, Saving, Ended, OnThread, Begin, Goto, loadVars
<1>3. Guarded'
  BY DEF TypeOK, Guarded, Loaders, Phases, Inside, Loading, Saving, Ended,
     OnThread, Begin, Goto, loadVars
<1>4. ~stray' => Read'
  BY DEF TypeOK, Placed, Guarded, Read, Current, Loaders, StampOf, Remembered,
     Phases, Inside, Loading, Saving, Ended, OnThread, Begin, Goto, loadVars
<1>5. ~stray' => Current'
  BY DEF TypeOK, Placed, Guarded, Read, Current, CacheHonest, Loaders,
     StampOf, Remembered, Fits, Edited, Phases, Inside, Loading, Saving,
     Ended, OnThread, Begin, Goto, loadVars
<1>6. CacheHonest'
  BY DEF TypeOK, Placed, Guarded, Read, CacheHonest, Loaders, StampOf,
     Remembered, Phases, Inside, Loading, Saving, Ended, OnThread, Begin,
     Goto, loadVars
<1> QED
  BY <1>1, <1>2, <1>3, <1>4, <1>5, <1>6

(* Creating the config; over an existing one, the write strays. *)
LEMMA CreateIInv ==
  ASSUME IInv, NEW c \in Calls, Create(c)
  PROVE  IInv'
<1> USE ConfigAssumption DEF ConfigAssumption, IInv
<1>1. TypeOK'
  BY DEF Contents, Absent, TypeOK, Placed, Guarded, Loaders, Phases, Inside,
     Loading, Saving, Ended, OnThread, Create, Write, Resume, Goto, Reuses,
     loadVars
<1>2. Placed'
  BY DEF Contents, Absent, TypeOK, Placed, Guarded, Loaders, Phases, Inside,
     Loading, Saving, Ended, OnThread, Create, Write, Resume, Goto, Reuses,
     loadVars
<1>3. Guarded'
  BY DEF TypeOK, Guarded, Loaders, Phases, Inside, Loading, Saving, Ended,
     OnThread, Create, Write, Resume, Goto, Reuses, loadVars
<1>4. ~stray' => Read'
  BY DEF TypeOK, Placed, Guarded, Read, Current, Loaders, StampOf, Remembered,
     Phases, Inside, Loading, Saving, Ended, OnThread, Create, Write, Resume,
     Goto, Reuses, loadVars
<1>5. ~stray' => Current'
  <2>1. SUFFICES ASSUME ~stray' PROVE Current'
    OBVIOUS
  <2>2. file.data = Absent
    BY <2>1 DEF Create, TypeOK
  <2>3. \A d \in Calls : pc[d] \notin Inside
    BY <2>2 DEF Placed
  <2>4. \A d \in Calls : pc'[d] \in {pc[d], "lock", "failed", "dropped"}
    BY DEF Create, Resume, Goto, TypeOK, Loaders
  <2> QED
    BY <2>3, <2>4 DEF Current, Inside, Loading, Saving
<1>6. CacheHonest'
  BY DEF TypeOK, Placed, Guarded, Read, CacheHonest, Loaders, StampOf,
     Remembered, Phases, Inside, Loading, Saving, Ended, OnThread, Create,
     Write, Resume, Goto, Reuses, loadVars
<1> QED
  BY <1>1, <1>2, <1>3, <1>4, <1>5, <1>6

(* The config cannot be created. *)
LEMMA CreateFailsIInv ==
  ASSUME IInv, NEW c \in Calls, CreateFails(c)
  PROVE  IInv'
<1> USE ConfigAssumption DEF ConfigAssumption, IInv
<1>1. TypeOK'
  BY DEF Contents, Absent, TypeOK, Placed, Guarded, Loaders, Phases, Inside,
     Loading, Saving, Ended, OnThread, CreateFails, Resume, Goto, loadVars
<1>2. Placed'
  BY DEF Contents, Absent, TypeOK, Placed, Guarded, Loaders, Phases, Inside,
     Loading, Saving, Ended, OnThread, CreateFails, Resume, Goto, loadVars
<1>3. Guarded'
  BY DEF TypeOK, Guarded, Loaders, Phases, Inside, Loading, Saving, Ended,
     OnThread, CreateFails, Resume, Goto, loadVars
<1>4. ~stray' => Read'
  BY DEF TypeOK, Placed, Guarded, Read, Current, Loaders, StampOf, Remembered,
     Phases, Inside, Loading, Saving, Ended, OnThread, CreateFails, Resume,
     Goto, loadVars
<1>5. ~stray' => Current'
  BY DEF TypeOK, Placed, Guarded, Read, Current, CacheHonest, Loaders,
     StampOf, Remembered, Fits, Edited, Phases, Inside, Loading, Saving,
     Ended, OnThread, CreateFails, Resume, Goto, loadVars
<1>6. CacheHonest'
  BY DEF TypeOK, Placed, Guarded, Read, CacheHonest, Loaders, StampOf,
     Remembered, Phases, Inside, Loading, Saving, Ended, OnThread,
     CreateFails, Resume, Goto, loadVars
<1> QED
  BY <1>1, <1>2, <1>3, <1>4, <1>5, <1>6

(* The lock is taken; nobody else is inside. *)
LEMMA TryLockIInv ==
  ASSUME IInv, NEW c \in Calls, TryLock(c)
  PROVE  IInv'
<1> USE ConfigAssumption DEF ConfigAssumption, IInv
<1>1. TypeOK'
  BY DEF Contents, Absent, TypeOK, Placed, Guarded, Loaders, Phases, Inside,
     Loading, Saving, Ended, OnThread, TryLock, Goto, loadVars
<1>2. Placed'
  BY DEF Contents, Absent, TypeOK, Placed, Guarded, Loaders, Phases, Inside,
     Loading, Saving, Ended, OnThread, TryLock, Goto, loadVars
<1>3. Guarded'
  BY DEF TypeOK, Guarded, Loaders, Phases, Inside, Loading, Saving, Ended,
     OnThread, TryLock, Goto, loadVars
<1>4. ~stray' => Read'
  BY DEF TypeOK, Placed, Guarded, Read, Current, Loaders, StampOf, Remembered,
     Phases, Inside, Loading, Saving, Ended, OnThread, TryLock, Goto, loadVars
<1>5. ~stray' => Current'
  BY DEF TypeOK, Placed, Guarded, Read, Current, CacheHonest, Loaders,
     StampOf, Remembered, Fits, Edited, Phases, Inside, Loading, Saving,
     Ended, OnThread, TryLock, Goto, loadVars
<1>6. CacheHonest'
  BY DEF TypeOK, Placed, Guarded, Read, CacheHonest, Loaders, StampOf,
     Remembered, Phases, Inside, Loading, Saving, Ended, OnThread, TryLock,
     Goto, loadVars
<1> QED
  BY <1>1, <1>2, <1>3, <1>4, <1>5, <1>6

(* The lock file cannot be opened. *)
LEMMA OpenFailsIInv ==
  ASSUME IInv, NEW c \in Calls, OpenFails(c)
  PROVE  IInv'
<1> USE ConfigAssumption DEF ConfigAssumption, IInv
<1>1. TypeOK'
  BY DEF Contents, Absent, TypeOK, Placed, Guarded, Loaders, Phases, Inside,
     Loading, Saving, Ended, OnThread, OpenFails, Goto, loadVars
<1>2. Placed'
  BY DEF Contents, Absent, TypeOK, Placed, Guarded, Loaders, Phases, Inside,
     Loading, Saving, Ended, OnThread, OpenFails, Goto, loadVars
<1>3. Guarded'
  BY DEF TypeOK, Guarded, Loaders, Phases, Inside, Loading, Saving, Ended,
     OnThread, OpenFails, Goto, loadVars
<1>4. ~stray' => Read'
  BY DEF TypeOK, Placed, Guarded, Read, Current, Loaders, StampOf, Remembered,
     Phases, Inside, Loading, Saving, Ended, OnThread, OpenFails, Goto,
     loadVars
<1>5. ~stray' => Current'
  BY DEF TypeOK, Placed, Guarded, Read, Current, CacheHonest, Loaders,
     StampOf, Remembered, Fits, Edited, Phases, Inside, Loading, Saving,
     Ended, OnThread, OpenFails, Goto, loadVars
<1>6. CacheHonest'
  BY DEF TypeOK, Placed, Guarded, Read, CacheHonest, Loaders, StampOf,
     Remembered, Phases, Inside, Loading, Saving, Ended, OnThread, OpenFails,
     Goto, loadVars
<1> QED
  BY <1>1, <1>2, <1>3, <1>4, <1>5, <1>6

(* A load takes the stamp. *)
LEMMA StatIInv ==
  ASSUME IInv, NEW l \in Loaders, Stat(l)
  PROVE  IInv'
<1> USE ConfigAssumption DEF ConfigAssumption, IInv
<1>1. TypeOK'
  <2>1. StampOf(file) \in Stamps
    BY StampsAreStamps DEF TypeOK, Contents, Stat
  <2> QED
    BY <2>1 DEF TypeOK, Placed, Guarded, Loaders, Phases, Inside, Loading, Saving,
       Ended, OnThread, Stat, Goto
<1>2. Placed'
  <2>1. StampOf(file) \in Stamps
    BY StampsAreStamps DEF TypeOK, Contents, Stat
  <2> QED
    BY <2>1 DEF TypeOK, Placed, Loaders, Phases, Inside, Loading, Saving, Ended,
       OnThread, Stat, Goto
<1>3. Guarded'
  BY DEF TypeOK, Guarded, Loaders, Phases, Inside, Loading, Saving, Ended,
     OnThread, Stat, Goto, loadVars
<1>4. ~stray' => Read'
  BY DEF TypeOK, Placed, Guarded, Read, Current, Loaders, StampOf, Remembered,
     Phases, Inside, Loading, Saving, Ended, OnThread, Stat, Goto, loadVars
<1>5. ~stray' => Current'
  BY DEF TypeOK, Placed, Guarded, Read, Current, CacheHonest, Loaders,
     StampOf, Remembered, Fits, Edited, Phases, Inside, Loading, Saving,
     Ended, OnThread, Stat, Goto, loadVars
<1>6. CacheHonest'
  BY DEF TypeOK, Placed, Guarded, Read, CacheHonest, Loaders, StampOf,
     Remembered, Phases, Inside, Loading, Saving, Ended, OnThread, Stat, Goto,
     loadVars
<1> QED
  BY <1>1, <1>2, <1>3, <1>4, <1>5, <1>6

(* No file: only a reader can find that. *)
LEMMA StatMissingIInv ==
  ASSUME IInv, NEW l \in Loaders, StatMissing(l)
  PROVE  IInv'
<1> USE ConfigAssumption DEF ConfigAssumption, IInv
<1>1. TypeOK'
  BY DEF Contents, Absent, TypeOK, Placed, Guarded, Loaders, Phases, Inside,
     Loading, Saving, Ended, OnThread, StatMissing, Loaded, Resume, Goto,
     loadVars
<1>2. Placed'
  BY DEF Contents, Absent, TypeOK, Placed, Guarded, Loaders, Phases, Inside,
     Loading, Saving, Ended, OnThread, StatMissing, Loaded, Resume, Goto,
     loadVars
<1>3. Guarded'
  BY DEF TypeOK, Guarded, Loaders, Phases, Inside, Loading, Saving, Ended,
     OnThread, StatMissing, Loaded, Resume, Goto, loadVars
<1>4. ~stray' => Read'
  BY DEF TypeOK, Placed, Guarded, Read, Current, Loaders, StampOf, Remembered,
     Phases, Inside, Loading, Saving, Ended, OnThread, StatMissing, Loaded,
     Resume, Goto, loadVars
<1>5. ~stray' => Current'
  BY DEF TypeOK, Placed, Guarded, Read, Current, CacheHonest, Loaders,
     StampOf, Remembered, Fits, Edited, Phases, Inside, Loading, Saving,
     Ended, OnThread, StatMissing, Loaded, Resume, Goto, loadVars
<1>6. CacheHonest'
  BY DEF TypeOK, Placed, Guarded, Read, CacheHonest, Loaders, StampOf,
     Remembered, Phases, Inside, Loading, Saving, Ended, OnThread,
     StatMissing, Loaded, Resume, Goto, loadVars
<1> QED
  BY <1>1, <1>2, <1>3, <1>4, <1>5, <1>6

(* The cache has the file under the stamp taken. *)
LEMMA ProbeHitIInv ==
  ASSUME IInv, NEW l \in Loaders, ProbeHit(l)
  PROVE  IInv'
<1> USE ConfigAssumption DEF ConfigAssumption, IInv
<1>1. TypeOK'
  <2>1. cache[ProcOf[l]] \in [stamp : Stamps, data : SUBSET Hosts]
    BY DEF TypeOK, ProbeHit, Hits
  <2>2. cache[ProcOf[l]].data \in SUBSET Hosts
    BY <2>1
  <2> QED
    BY <2>2 DEF TypeOK, Placed, Guarded, Loaders, Phases, Inside, Loading, Saving,
       Ended, OnThread, ProbeHit, Loaded, Resume, Goto
<1>2. Placed'
  BY DEF Contents, Absent, TypeOK, Placed, Guarded, Loaders, Phases, Inside,
     Loading, Saving, Ended, OnThread, ProbeHit, Loaded, Resume, Goto, Hits,
     loadVars
<1>3. Guarded'
  BY DEF TypeOK, Guarded, Loaders, Phases, Inside, Loading, Saving, Ended,
     OnThread, ProbeHit, Loaded, Resume, Goto, Hits, loadVars
<1>4. ~stray' => Read'
  BY DEF TypeOK, Placed, Guarded, Read, Current, Loaders, StampOf, Remembered,
     Phases, Inside, Loading, Saving, Ended, OnThread, ProbeHit, Loaded,
     Resume, Goto, Hits, loadVars
<1>5. ~stray' => Current'
  BY DEF TypeOK, Placed, Guarded, Read, Current, CacheHonest, Loaders,
     StampOf, Remembered, Fits, Edited, Phases, Inside, Loading, Saving,
     Ended, OnThread, ProbeHit, Loaded, Resume, Goto, Hits, loadVars
<1>6. CacheHonest'
  BY DEF TypeOK, Placed, Guarded, Read, CacheHonest, Loaders, StampOf,
     Remembered, Phases, Inside, Loading, Saving, Ended, OnThread, ProbeHit,
     Loaded, Resume, Goto, Hits, loadVars
<1> QED
  BY <1>1, <1>2, <1>3, <1>4, <1>5, <1>6

(* The file is read. *)
LEMMA ProbeMissIInv ==
  ASSUME IInv, NEW l \in Loaders, ProbeMiss(l)
  PROVE  IInv'
<1> USE ConfigAssumption DEF ConfigAssumption, IInv
<1>1. TypeOK'
  <2>1. file.data \in SUBSET Hosts
    BY DEF TypeOK, Placed, Contents, ProbeMiss
  <2> QED
    BY <2>1 DEF TypeOK, Placed, Guarded, Loaders, Phases, Inside, Loading, Saving,
       Ended, OnThread, ProbeMiss, Goto
<1>2. Placed'
  BY DEF Contents, Absent, TypeOK, Placed, Guarded, Loaders, Phases, Inside,
     Loading, Saving, Ended, OnThread, ProbeMiss, Goto, Hits, loadVars
<1>3. Guarded'
  BY DEF TypeOK, Guarded, Loaders, Phases, Inside, Loading, Saving, Ended,
     OnThread, ProbeMiss, Goto, Hits, loadVars
<1>4. ~stray' => Read'
  BY DEF TypeOK, Placed, Guarded, Read, Current, Loaders, StampOf, Remembered,
     Phases, Inside, Loading, Saving, Ended, OnThread, ProbeMiss, Goto, Hits,
     loadVars
<1>5. ~stray' => Current'
  BY DEF TypeOK, Placed, Guarded, Read, Current, CacheHonest, Loaders,
     StampOf, Remembered, Fits, Edited, Phases, Inside, Loading, Saving,
     Ended, OnThread, ProbeMiss, Goto, Hits, loadVars
<1>6. CacheHonest'
  BY DEF TypeOK, Placed, Guarded, Read, CacheHonest, Loaders, StampOf,
     Remembered, Phases, Inside, Loading, Saving, Ended, OnThread, ProbeMiss,
     Goto, Hits, loadVars
<1> QED
  BY <1>1, <1>2, <1>3, <1>4, <1>5, <1>6

(* The content is filed under the stamp taken before it was read. *)
LEMMA InsertIInv ==
  ASSUME IInv, NEW l \in Loaders, Insert(l)
  PROVE  IInv'
<1> USE ConfigAssumption DEF ConfigAssumption, IInv
<1>1. TypeOK'
  BY DEF Contents, Absent, TypeOK, Placed, Guarded, Loaders, Phases, Inside,
     Loading, Saving, Ended, OnThread, Insert, Loaded, Resume, Goto, Entry,
     loadVars
<1>2. Placed'
  BY DEF Contents, Absent, TypeOK, Placed, Guarded, Loaders, Phases, Inside,
     Loading, Saving, Ended, OnThread, Insert, Loaded, Resume, Goto, Entry,
     loadVars
<1>3. Guarded'
  BY DEF TypeOK, Guarded, Loaders, Phases, Inside, Loading, Saving, Ended,
     OnThread, Insert, Loaded, Resume, Goto, Entry, loadVars
<1>4. ~stray' => Read'
  BY DEF TypeOK, Placed, Guarded, Read, Current, Loaders, StampOf, Remembered,
     Phases, Inside, Loading, Saving, Ended, OnThread, Insert, Loaded, Resume,
     Goto, Entry, loadVars
<1>5. ~stray' => Current'
  BY DEF TypeOK, Placed, Guarded, Read, Current, CacheHonest, Loaders,
     StampOf, Remembered, Fits, Edited, Phases, Inside, Loading, Saving,
     Ended, OnThread, Insert, Loaded, Resume, Goto, Entry, loadVars
<1>6. CacheHonest'
  BY DEF TypeOK, Placed, Guarded, Read, CacheHonest, Loaders, StampOf,
     Remembered, Phases, Inside, Loading, Saving, Ended, OnThread, Insert,
     Loaded, Resume, Goto, Entry, loadVars
<1> QED
  BY <1>1, <1>2, <1>3, <1>4, <1>5, <1>6

(* A load fails. *)
LEMMA LoadFailsIInv ==
  ASSUME IInv, NEW c \in Calls, LoadFails(c)
  PROVE  IInv'
<1> USE ConfigAssumption DEF ConfigAssumption, IInv
<1>1. TypeOK'
  BY DEF Contents, Absent, TypeOK, Placed, Guarded, Loaders, Phases, Inside,
     Loading, Saving, Ended, OnThread, LoadFails, Resume, Goto, loadVars
<1>2. Placed'
  BY DEF Contents, Absent, TypeOK, Placed, Guarded, Loaders, Phases, Inside,
     Loading, Saving, Ended, OnThread, LoadFails, Resume, Goto, loadVars
<1>3. Guarded'
  BY DEF TypeOK, Guarded, Loaders, Phases, Inside, Loading, Saving, Ended,
     OnThread, LoadFails, Resume, Goto, loadVars
<1>4. ~stray' => Read'
  BY DEF TypeOK, Placed, Guarded, Read, Current, Loaders, StampOf, Remembered,
     Phases, Inside, Loading, Saving, Ended, OnThread, LoadFails, Resume,
     Goto, loadVars
<1>5. ~stray' => Current'
  BY DEF TypeOK, Placed, Guarded, Read, Current, CacheHonest, Loaders,
     StampOf, Remembered, Fits, Edited, Phases, Inside, Loading, Saving,
     Ended, OnThread, LoadFails, Resume, Goto, loadVars
<1>6. CacheHonest'
  BY DEF TypeOK, Placed, Guarded, Read, CacheHonest, Loaders, StampOf,
     Remembered, Phases, Inside, Loading, Saving, Ended, OnThread, LoadFails,
     Resume, Goto, loadVars
<1> QED
  BY <1>1, <1>2, <1>3, <1>4, <1>5, <1>6

(* The edit is made in memory. *)
LEMMA EditIInv ==
  ASSUME IInv, NEW c \in Calls, Edit(c)
  PROVE  IInv'
<1> USE ConfigAssumption DEF ConfigAssumption, IInv
<1>1. TypeOK'
  <2>1. Edited(c, ast[c]) \in SUBSET Hosts
    BY EditAssumption DEF TypeOK, Loaders, Edited, EditAssumption
  <2> QED
    BY <2>1 DEF TypeOK, Placed, Guarded, Loaders, Phases, Inside, Loading, Saving,
       Ended, OnThread, Edit, Goto
<1>2. Placed'
  BY DEF Contents, Absent, TypeOK, Placed, Guarded, Loaders, Phases, Inside,
     Loading, Saving, Ended, OnThread, Edit, Goto, loadVars
<1>3. Guarded'
  BY DEF TypeOK, Guarded, Loaders, Phases, Inside, Loading, Saving, Ended,
     OnThread, Edit, Goto, loadVars
<1>4. ~stray' => Read'
  BY DEF TypeOK, Placed, Guarded, Read, Current, Loaders, StampOf, Remembered,
     Phases, Inside, Loading, Saving, Ended, OnThread, Edit, Goto, loadVars
<1>5. ~stray' => Current'
  BY DEF TypeOK, Placed, Guarded, Read, Current, CacheHonest, Loaders,
     StampOf, Remembered, Fits, Edited, Phases, Inside, Loading, Saving,
     Ended, OnThread, Edit, Goto, loadVars
<1>6. CacheHonest'
  BY DEF TypeOK, Placed, Guarded, Read, CacheHonest, Loaders, StampOf,
     Remembered, Phases, Inside, Loading, Saving, Ended, OnThread, Edit, Goto,
     loadVars
<1> QED
  BY <1>1, <1>2, <1>3, <1>4, <1>5, <1>6

(* The edit does not fit. *)
LEMMA RefuseIInv ==
  ASSUME IInv, NEW c \in Calls, Refuse(c)
  PROVE  IInv'
<1> USE ConfigAssumption DEF ConfigAssumption, IInv
<1>1. TypeOK'
  BY DEF Contents, Absent, TypeOK, Placed, Guarded, Loaders, Phases, Inside,
     Loading, Saving, Ended, OnThread, Refuse, Goto, Unlock, loadVars
<1>2. Placed'
  BY DEF Contents, Absent, TypeOK, Placed, Guarded, Loaders, Phases, Inside,
     Loading, Saving, Ended, OnThread, Refuse, Goto, Unlock, loadVars
<1>3. Guarded'
  BY DEF TypeOK, Guarded, Loaders, Phases, Inside, Loading, Saving, Ended,
     OnThread, Refuse, Goto, Unlock, loadVars
<1>4. ~stray' => Read'
  BY DEF TypeOK, Placed, Guarded, Read, Current, Loaders, StampOf, Remembered,
     Phases, Inside, Loading, Saving, Ended, OnThread, Refuse, Goto, Unlock,
     loadVars
<1>5. ~stray' => Current'
  BY DEF TypeOK, Placed, Guarded, Read, Current, CacheHonest, Loaders,
     StampOf, Remembered, Fits, Edited, Phases, Inside, Loading, Saving,
     Ended, OnThread, Refuse, Goto, Unlock, loadVars
<1>6. CacheHonest'
  BY DEF TypeOK, Placed, Guarded, Read, CacheHonest, Loaders, StampOf,
     Remembered, Phases, Inside, Loading, Saving, Ended, OnThread, Refuse,
     Goto, Unlock, loadVars
<1> QED
  BY <1>1, <1>2, <1>3, <1>4, <1>5, <1>6

(* A save remembers what it replaces. *)
LEMMA SnapshotIInv ==
  ASSUME IInv, NEW c \in Calls, Snapshot(c)
  PROVE  IInv'
<1> USE ConfigAssumption DEF ConfigAssumption, IInv
<1>1. TypeOK'
  BY DEF Contents, Absent, TypeOK, Placed, Guarded, Loaders, Phases, Inside,
     Loading, Saving, Ended, OnThread, Snapshot, Goto, loadVars
<1>2. Placed'
  BY DEF Contents, Absent, TypeOK, Placed, Guarded, Loaders, Phases, Inside,
     Loading, Saving, Ended, OnThread, Snapshot, Goto, loadVars
<1>3. Guarded'
  BY DEF TypeOK, Guarded, Loaders, Phases, Inside, Loading, Saving, Ended,
     OnThread, Snapshot, Goto, loadVars
<1>4. ~stray' => Read'
  BY DEF TypeOK, Placed, Guarded, Read, Current, Loaders, StampOf, Remembered,
     Phases, Inside, Loading, Saving, Ended, OnThread, Snapshot, Goto,
     loadVars
<1>5. ~stray' => Current'
  BY DEF TypeOK, Placed, Guarded, Read, Current, CacheHonest, Loaders,
     StampOf, Remembered, Fits, Edited, Phases, Inside, Loading, Saving,
     Ended, OnThread, Snapshot, Goto, loadVars
<1>6. CacheHonest'
  BY DEF TypeOK, Placed, Guarded, Read, CacheHonest, Loaders, StampOf,
     Remembered, Phases, Inside, Loading, Saving, Ended, OnThread, Snapshot,
     Goto, loadVars
<1> QED
  BY <1>1, <1>2, <1>3, <1>4, <1>5, <1>6

(* The new content appears; nobody remembers its stamp. *)
LEMMA RenameIInv ==
  ASSUME IInv, NEW c \in Calls, Rename(c)
  PROVE  IInv'
<1> USE ConfigAssumption DEF ConfigAssumption, IInv
<1>1. TypeOK'
  BY DEF Contents, Absent, TypeOK, Placed, Guarded, Loaders, Phases, Inside,
     Loading, Saving, Ended, OnThread, Rename, Write, Goto, Reuses, loadVars
<1>2. Placed'
  BY DEF Contents, Absent, TypeOK, Placed, Guarded, Loaders, Phases, Inside,
     Loading, Saving, Ended, OnThread, Rename, Write, Goto, Reuses, loadVars
<1>3. Guarded'
  BY DEF TypeOK, Guarded, Loaders, Phases, Inside, Loading, Saving, Ended,
     OnThread, Rename, Write, Goto, Reuses, loadVars
<1>4. ~stray' => Read'
  BY DEF TypeOK, Placed, Guarded, Read, Current, Loaders, StampOf, Remembered,
     Phases, Inside, Loading, Saving, Ended, OnThread, Rename, Write, Goto,
     Reuses, loadVars
<1>5. ~stray' => Current'
  BY DEF TypeOK, Placed, Guarded, Read, Current, CacheHonest, Loaders,
     StampOf, Remembered, Fits, Edited, Phases, Inside, Loading, Saving,
     Ended, OnThread, Rename, Write, Goto, Reuses, loadVars
<1>6. CacheHonest'
  BY DEF TypeOK, Placed, Guarded, Read, CacheHonest, Loaders, StampOf,
     Remembered, Phases, Inside, Loading, Saving, Ended, OnThread, Rename,
     Write, Goto, Reuses, loadVars
<1> QED
  BY <1>1, <1>2, <1>3, <1>4, <1>5, <1>6

(* The new content cannot be written. *)
LEMMA RenameFailsIInv ==
  ASSUME IInv, NEW c \in Calls, RenameFails(c)
  PROVE  IInv'
<1> USE ConfigAssumption DEF ConfigAssumption, IInv
<1>1. TypeOK'
  BY DEF Contents, Absent, TypeOK, Placed, Guarded, Loaders, Phases, Inside,
     Loading, Saving, Ended, OnThread, RenameFails, Resume, Goto, loadVars
<1>2. Placed'
  BY DEF Contents, Absent, TypeOK, Placed, Guarded, Loaders, Phases, Inside,
     Loading, Saving, Ended, OnThread, RenameFails, Resume, Goto, loadVars
<1>3. Guarded'
  BY DEF TypeOK, Guarded, Loaders, Phases, Inside, Loading, Saving, Ended,
     OnThread, RenameFails, Resume, Goto, loadVars
<1>4. ~stray' => Read'
  BY DEF TypeOK, Placed, Guarded, Read, Current, Loaders, StampOf, Remembered,
     Phases, Inside, Loading, Saving, Ended, OnThread, RenameFails, Resume,
     Goto, loadVars
<1>5. ~stray' => Current'
  BY DEF TypeOK, Placed, Guarded, Read, Current, CacheHonest, Loaders,
     StampOf, Remembered, Fits, Edited, Phases, Inside, Loading, Saving,
     Ended, OnThread, RenameFails, Resume, Goto, loadVars
<1>6. CacheHonest'
  BY DEF TypeOK, Placed, Guarded, Read, CacheHonest, Loaders, StampOf,
     Remembered, Phases, Inside, Loading, Saving, Ended, OnThread,
     RenameFails, Resume, Goto, loadVars
<1> QED
  BY <1>1, <1>2, <1>3, <1>4, <1>5, <1>6

(* The mode is set, or cannot be. *)
LEMMA ChmodIInv ==
  ASSUME IInv, NEW c \in Calls, Chmod(c)
  PROVE  IInv'
<1> USE ConfigAssumption DEF ConfigAssumption, IInv
<1>1. TypeOK'
  BY DEF Contents, Absent, TypeOK, Placed, Guarded, Loaders, Phases, Inside,
     Loading, Saving, Ended, OnThread, Chmod, Resume, Goto, loadVars
<1>2. Placed'
  BY DEF Contents, Absent, TypeOK, Placed, Guarded, Loaders, Phases, Inside,
     Loading, Saving, Ended, OnThread, Chmod, Resume, Goto, loadVars
<1>3. Guarded'
  BY DEF TypeOK, Guarded, Loaders, Phases, Inside, Loading, Saving, Ended,
     OnThread, Chmod, Resume, Goto, loadVars
<1>4. ~stray' => Read'
  BY DEF TypeOK, Placed, Guarded, Read, Current, Loaders, StampOf, Remembered,
     Phases, Inside, Loading, Saving, Ended, OnThread, Chmod, Resume, Goto,
     loadVars
<1>5. ~stray' => Current'
  BY DEF TypeOK, Placed, Guarded, Read, Current, CacheHonest, Loaders,
     StampOf, Remembered, Fits, Edited, Phases, Inside, Loading, Saving,
     Ended, OnThread, Chmod, Resume, Goto, loadVars
<1>6. CacheHonest'
  BY DEF TypeOK, Placed, Guarded, Read, CacheHonest, Loaders, StampOf,
     Remembered, Phases, Inside, Loading, Saving, Ended, OnThread, Chmod,
     Resume, Goto, loadVars
<1> QED
  BY <1>1, <1>2, <1>3, <1>4, <1>5, <1>6

(* The former content is put back. *)
LEMMA RestoreIInv ==
  ASSUME IInv, NEW c \in Calls, Restore(c)
  PROVE  IInv'
<1> USE ConfigAssumption DEF ConfigAssumption, IInv
<1>1. TypeOK'
  BY DEF Contents, Absent, TypeOK, Placed, Guarded, Loaders, Phases, Inside,
     Loading, Saving, Ended, OnThread, Restore, Write, Resume, Goto, Reuses,
     loadVars
<1>2. Placed'
  BY DEF Contents, Absent, TypeOK, Placed, Guarded, Loaders, Phases, Inside,
     Loading, Saving, Ended, OnThread, Restore, Write, Resume, Goto, Reuses,
     loadVars
<1>3. Guarded'
  BY DEF TypeOK, Guarded, Loaders, Phases, Inside, Loading, Saving, Ended,
     OnThread, Restore, Write, Resume, Goto, Reuses, loadVars
<1>4. ~stray' => Read'
  BY DEF TypeOK, Placed, Guarded, Read, Current, Loaders, StampOf, Remembered,
     Phases, Inside, Loading, Saving, Ended, OnThread, Restore, Write, Resume,
     Goto, Reuses, loadVars
<1>5. ~stray' => Current'
  BY DEF TypeOK, Placed, Guarded, Read, Current, CacheHonest, Loaders,
     StampOf, Remembered, Fits, Edited, Phases, Inside, Loading, Saving,
     Ended, OnThread, Restore, Write, Resume, Goto, Reuses, loadVars
<1>6. CacheHonest'
  BY DEF TypeOK, Placed, Guarded, Read, CacheHonest, Loaders, StampOf,
     Remembered, Phases, Inside, Loading, Saving, Ended, OnThread, Restore,
     Write, Resume, Goto, Reuses, loadVars
<1> QED
  BY <1>1, <1>2, <1>3, <1>4, <1>5, <1>6

(* The former content cannot be put back. *)
LEMMA RestoreFailsIInv ==
  ASSUME IInv, NEW c \in Calls, RestoreFails(c)
  PROVE  IInv'
<1> USE ConfigAssumption DEF ConfigAssumption, IInv
<1>1. TypeOK'
  BY DEF Contents, Absent, TypeOK, Placed, Guarded, Loaders, Phases, Inside,
     Loading, Saving, Ended, OnThread, RestoreFails, Resume, Goto, loadVars
<1>2. Placed'
  BY DEF Contents, Absent, TypeOK, Placed, Guarded, Loaders, Phases, Inside,
     Loading, Saving, Ended, OnThread, RestoreFails, Resume, Goto, loadVars
<1>3. Guarded'
  BY DEF TypeOK, Guarded, Loaders, Phases, Inside, Loading, Saving, Ended,
     OnThread, RestoreFails, Resume, Goto, loadVars
<1>4. ~stray' => Read'
  BY DEF TypeOK, Placed, Guarded, Read, Current, Loaders, StampOf, Remembered,
     Phases, Inside, Loading, Saving, Ended, OnThread, RestoreFails, Resume,
     Goto, loadVars
<1>5. ~stray' => Current'
  BY DEF TypeOK, Placed, Guarded, Read, Current, CacheHonest, Loaders,
     StampOf, Remembered, Fits, Edited, Phases, Inside, Loading, Saving,
     Ended, OnThread, RestoreFails, Resume, Goto, loadVars
<1>6. CacheHonest'
  BY DEF TypeOK, Placed, Guarded, Read, CacheHonest, Loaders, StampOf,
     Remembered, Phases, Inside, Loading, Saving, Ended, OnThread,
     RestoreFails, Resume, Goto, loadVars
<1> QED
  BY <1>1, <1>2, <1>3, <1>4, <1>5, <1>6

(* The call is answered and lets go of the lock. *)
LEMMA ReturnIInv ==
  ASSUME IInv, NEW c \in Calls, Return(c)
  PROVE  IInv'
<1> USE ConfigAssumption DEF ConfigAssumption, IInv
<1>1. TypeOK'
  BY DEF Contents, Absent, TypeOK, Placed, Guarded, Loaders, Phases, Inside,
     Loading, Saving, Ended, OnThread, Return, Goto, Unlock, loadVars
<1>2. Placed'
  BY DEF Contents, Absent, TypeOK, Placed, Guarded, Loaders, Phases, Inside,
     Loading, Saving, Ended, OnThread, Return, Goto, Unlock, loadVars
<1>3. Guarded'
  BY DEF TypeOK, Guarded, Loaders, Phases, Inside, Loading, Saving, Ended,
     OnThread, Return, Goto, Unlock, loadVars
<1>4. ~stray' => Read'
  BY DEF TypeOK, Placed, Guarded, Read, Current, Loaders, StampOf, Remembered,
     Phases, Inside, Loading, Saving, Ended, OnThread, Return, Goto, Unlock,
     loadVars
<1>5. ~stray' => Current'
  BY DEF TypeOK, Placed, Guarded, Read, Current, CacheHonest, Loaders,
     StampOf, Remembered, Fits, Edited, Phases, Inside, Loading, Saving,
     Ended, OnThread, Return, Goto, Unlock, loadVars
<1>6. CacheHonest'
  BY DEF TypeOK, Placed, Guarded, Read, CacheHonest, Loaders, StampOf,
     Remembered, Phases, Inside, Loading, Saving, Ended, OnThread, Return,
     Goto, Unlock, loadVars
<1> QED
  BY <1>1, <1>2, <1>3, <1>4, <1>5, <1>6

(* The future is dropped. *)
LEMMA DropIInv ==
  ASSUME IInv, NEW c \in Calls, Drop(c)
  PROVE  IInv'
<1> USE ConfigAssumption DEF ConfigAssumption, IInv
<1>1. TypeOK'
  BY DEF Contents, Absent, TypeOK, Placed, Guarded, Loaders, Phases, Inside,
     Loading, Saving, Ended, OnThread, Drop, Goto, Unlock, loadVars
<1>2. Placed'
  BY DEF Contents, Absent, TypeOK, Placed, Guarded, Loaders, Phases, Inside,
     Loading, Saving, Ended, OnThread, Drop, Goto, Unlock, loadVars
<1>3. Guarded'
  <2>1. lock' = (IF lock = c THEN None ELSE lock) /\ c \notin dropped
    BY DEF Drop, Unlock
  <2>2. lock' # c /\ dropped' \subseteq dropped \cup {c} /\ dropped' \subseteq Calls
    BY <2>1 DEF Drop, TypeOK
  <2>3. lock' \notin dropped'
    BY <2>1, <2>2 DEF Guarded
  <2>4. \A d \in Calls : pc'[d] \in Inside /\ d \notin dropped' => lock' = d
    BY <2>1 DEF Drop, Goto, TypeOK, Guarded, Loaders, Inside, Loading, Saving, OnThread
  <2>5. /\ \A d \in dropped' : pc'[d] \in OnThread
        /\ ~stray' => \A d \in dropped' : pc'[d] \notin Saving
    BY DEF Drop, Goto, TypeOK, Guarded, Loaders, OnThread
  <2> QED
    BY <2>3, <2>4, <2>5 DEF Guarded
<1>4. ~stray' => Read'
  BY DEF TypeOK, Placed, Guarded, Read, Current, Loaders, StampOf, Remembered,
     Phases, Inside, Loading, Saving, Ended, OnThread, Drop, Goto, Unlock,
     loadVars
<1>5. ~stray' => Current'
  BY DEF TypeOK, Placed, Guarded, Read, Current, CacheHonest, Loaders,
     StampOf, Remembered, Fits, Edited, Phases, Inside, Loading, Saving,
     Ended, OnThread, Drop, Goto, Unlock, loadVars
<1>6. CacheHonest'
  BY DEF TypeOK, Placed, Guarded, Read, CacheHonest, Loaders, StampOf,
     Remembered, Phases, Inside, Loading, Saving, Ended, OnThread, Drop, Goto,
     Unlock, loadVars
<1> QED
  BY <1>1, <1>2, <1>3, <1>4, <1>5, <1>6

(* A process dies. *)
LEMMA CrashIInv ==
  ASSUME IInv, NEW p \in Procs, Crash(p)
  PROVE  IInv'
<1> USE ConfigAssumption DEF ConfigAssumption, IInv
<1>1. TypeOK'
  BY DEF Contents, Absent, TypeOK, Placed, Guarded, Loaders, Phases, Inside,
     Loading, Saving, Ended, OnThread, Crash, LockAfter, loadVars
<1>2. Placed'
  BY DEF Contents, Absent, TypeOK, Placed, Guarded, Loaders, Phases, Inside,
     Loading, Saving, Ended, OnThread, Crash, LockAfter, loadVars
<1>3. Guarded'
  BY DEF TypeOK, Guarded, Loaders, Phases, Inside, Loading, Saving, Ended,
     OnThread, Crash, LockAfter, loadVars
<1>4. ~stray' => Read'
  BY DEF TypeOK, Placed, Guarded, Read, Current, Loaders, StampOf, Remembered,
     Phases, Inside, Loading, Saving, Ended, OnThread, Crash, LockAfter,
     loadVars
<1>5. ~stray' => Current'
  BY DEF TypeOK, Placed, Guarded, Read, Current, CacheHonest, Loaders,
     StampOf, Remembered, Fits, Edited, Phases, Inside, Loading, Saving,
     Ended, OnThread, Crash, LockAfter, loadVars
<1>6. CacheHonest'
  BY DEF TypeOK, Placed, Guarded, Read, CacheHonest, Loaders, StampOf,
     Remembered, Phases, Inside, Loading, Saving, Ended, OnThread, Crash,
     LockAfter, loadVars
<1> QED
  BY <1>1, <1>2, <1>3, <1>4, <1>5, <1>6

(* Nothing has been loaded, and no lock is held. *)
LEMMA InitIInv == Init => IInv
<1> SUFFICES ASSUME Init
             PROVE  IInv
  OBVIOUS
<1> USE ConfigAssumption DEF ConfigAssumption
<1>1. TypeOK
  <2>1. file \in [data : Contents, mtime : Nat]
    BY DEF Init
  <2>2. pc \in [Loaders -> Phases] /\ lock \in Calls \cup {None} /\ lock = None
    BY DEF Init, Phases, Loading, Saving, Inside
  <2>3. cache \in [Procs -> [stamp : Stamps, data : SUBSET Hosts] \cup {None}]
    BY DEF Init
  <2>4. seen \in [Loaders -> Stamps \cup {None}] /\ ast \in [Loaders -> SUBSET Hosts]
    BY DEF Init
  <2>5. /\ before \in [Calls -> Contents] /\ dropped \subseteq Calls
        /\ dead \subseteq Procs /\ stray \in BOOLEAN
    BY DEF Init, Contents
  <2> QED
    BY <2>1, <2>2, <2>3, <2>4, <2>5 DEF TypeOK
<1>2. Placed /\ Guarded
  BY DEF Init, Placed, Guarded, Loading, Saving, Inside, Loaders
<1>3. Read /\ Current /\ CacheHonest
  BY DEF Init, Read, Current, CacheHonest, Loaders
<1> QED
  BY <1>1, <1>2, <1>3 DEF IInv

(* Every step of every call, reader and process. *)
LEMMA NextIInv ==
  ASSUME IInv, [Next]_vars
  PROVE  IInv'
<1>1. ASSUME NEW l \in Loaders, Load(l)
      PROVE  IInv'
  BY <1>1, StatIInv, StatMissingIInv, ProbeHitIInv, ProbeMissIInv, InsertIInv DEF Load
<1>2. ASSUME NEW c \in Calls, Step(c)
      PROVE  IInv'
  BY <1>1, <1>2, CreateIInv, TryLockIInv, EditIInv, RefuseIInv, SnapshotIInv, RenameIInv,
     ChmodIInv, RestoreIInv, ReturnIInv DEF Step, Loaders
<1>3. ASSUME NEW c \in Calls, Begin(c) \/ Fault(c) \/ Drop(c)
      PROVE  IInv'
  BY <1>3, BeginIInv, CreateFailsIInv, OpenFailsIInv, LoadFailsIInv, RenameFailsIInv,
     RestoreFailsIInv, DropIInv DEF Fault
<1>4. CASE UNCHANGED vars
  BY <1>4 DEF vars, loadVars, IInv, TypeOK, Placed, Guarded, Read, Current, CacheHonest,
     StampOf
<1> QED
  BY <1>1, <1>2, <1>3, <1>4, CrashIInv DEF Next, Loaders

(* The inductive invariant holds throughout. *)
LEMMA Invariance == Spec => []IInv
BY InitIInv, NextIInv, PTL DEF Spec

(* Every variable keeps its type, whatever fails, is dropped or dies, and the
   lock is only ever held by a call that is inside (edit_under_lock). *)
THEOREM TypeCorrect == Spec => []TypeOK
BY Invariance, PTL DEF IInv

(* As long as no write strays, what the cache would give for the file as it is
   is what the file holds (load_cached_ast). *)
THEOREM CacheIsHonest == Spec => []CacheHonest
BY Invariance, PTL DEF IInv
-----------------------------------------------------------------------------
(* What each phase looks like from outside. *)
LEMMA StatusValues ==
  /\ \A phase \in {"chmod", "restore", "success"} : StatusOf(phase) = "applied"
  /\ StatusOf("failure") = "void"
  /\ \A phase \in {"ok", "failed", "refused"} : StatusOf(phase) = phase
  /\ \A phase \in {"dropped", "crashed"} : StatusOf(phase) = "gone"
  /\ \A phase \in Loading \cup {"idle", "create", "lock", "edit", "snapshot", "rename"} :
       StatusOf(phase) = "pending"
BY DEF StatusOf, Loading

(* At most one edit is applied and not yet answered, and its call has the lock. *)
LEMMA OneApplied ==
  ASSUME IInv, ~stray, NEW c \in Applied
  PROVE  c \in Calls /\ c \notin dropped /\ lock = c /\ Applied = {c} /\ Base = before[c]
<1>1. \A d \in Applied : d \in Calls /\ d \notin dropped /\ lock = d
  BY DEF Applied, IInv, Guarded, Inside, Saving, OnThread, Loading
<1>2. Applied = {c}
  BY <1>1
<1> QED
  BY <1>1, <1>2 DEF Base

(* A call that is neither applied before nor after a step that leaves the file
   alone changes its own status only. *)
LEMMA Moves ==
  ASSUME IInv, NEW c \in Calls, NEW to, pc' = [pc EXCEPT ![c] = to],
         StatusOf(pc[c]) # "applied", StatusOf(to) # "applied",
         file'.data = file.data, \A d \in Calls \ {c} : before'[d] = before[d]
  PROVE  Base' = Base /\ Status' = [Status EXCEPT ![c] = StatusOf(to)]
<1>1. \A d \in Calls : pc'[d] = IF d = c THEN to ELSE pc[d]
  BY DEF IInv, TypeOK, Loaders
<1>2. Applied' = Applied /\ c \notin Applied
  BY <1>1, StatusValues DEF Applied
<1>3. Applied # {} => (CHOOSE d \in Applied : TRUE) \in Calls \ {c}
  BY <1>2 DEF Applied
<1>4. Base' = Base
  BY <1>2, <1>3 DEF Base
<1>5. Status' = [Status EXCEPT ![c] = StatusOf(to)]
  <2>1. [Status EXCEPT ![c] = StatusOf(to)]
          = [d \in Calls |-> IF d = c THEN StatusOf(to) ELSE StatusOf(pc[d])]
    BY DEF Status
  <2>2. \A d \in Calls :
          StatusOf(pc'[d]) = IF d = c THEN StatusOf(to) ELSE StatusOf(pc[d])
    BY <1>1
  <2> QED
    BY <2>1, <2>2 DEF Status
<1> QED
  BY <1>4, <1>5

(* A step within one status that leaves the file alone is not seen. *)
LEMMA Unseen ==
  ASSUME IInv, NEW l \in Loaders, NEW to, pc' = [pc EXCEPT ![l] = to],
         l \in Calls => StatusOf(to) = StatusOf(pc[l]),
         l \in Calls => (pc[l] \in {"chmod", "restore", "success"}
                           <=> to \in {"chmod", "restore", "success"}),
         file'.data = file.data, stray' = stray,
         \A d \in Applied : before'[d] = before[d]
  PROVE  UNCHANGED Abstract!vars
<1>1. \A d \in Calls : pc'[d] = IF d = l THEN to ELSE pc[d]
  BY DEF IInv, TypeOK, Loaders
<1>2. Applied' = Applied
  BY <1>1 DEF Applied
<1>3. Base' = Base
  BY <1>2 DEF Base
<1>4. Status' = Status
  BY <1>1 DEF Status
<1> QED
  BY <1>3, <1>4 DEF Abstract!vars

(* Callers that disappear are seen as gone; what one of them had applied stays. *)
LEMMA Leave ==
  ASSUME IInv, ~stray, NEW S \in SUBSET Calls,
         \A c \in S : StatusOf(pc[c]) \in {"pending", "applied", "void"},
         \A c \in Calls : pc'[c] \in IF c \in S THEN {"dropped", "crashed"} ELSE {pc[c]},
         file' = file, before' = before, stray' = stray
  PROVE  Abstract!Abandon(S)
<1>1. Status' = [c \in Calls |-> IF c \in S THEN "gone" ELSE Status[c]]
  BY StatusValues DEF Status
<1>2. Applied' = Applied \ S
  BY StatusValues DEF Applied
<1>3. \A c \in Calls : Status[c] = StatusOf(pc[c])
  BY DEF Status
<1>4. \A c \in S : Status[c] = "applied" <=> c \in Applied
  BY <1>3, StatusValues DEF Applied, IInv, TypeOK, Phases, Inside, Loading, Saving, Ended,
     Loaders
<1>5. CASE \E c \in S : Status[c] = "applied"
  <2>1. PICK c \in S : c \in Applied
    BY <1>4, <1>5
  <2>2. Applied' = {}
    BY <1>2, <2>1, OneApplied
  <2> QED
    BY <1>1, <1>3, <1>5, <2>2 DEF Base, Abstract!Abandon
<1>6. CASE ~\E c \in S : Status[c] = "applied"
  <2>1. Applied' = Applied
    BY <1>2, <1>4, <1>6
  <2>2. Base' = Base
    BY <2>1 DEF Base
  <2> QED
    BY <1>1, <1>3, <1>6, <2>2 DEF Abstract!Abandon
<1> QED
  BY <1>5, <1>6

(* Once the future of a call is resumed it goes on, or is found to be gone. *)
LEMMA Resumes ==
  ASSUME IInv, ~stray, NEW c \in Calls, NEW phase, Resume(c, phase),
         file' = file, before' = before, stray' = stray,
         StatusOf(pc[c]) = "pending"
  PROVE  \/ pc' = [pc EXCEPT ![c] = phase]
         \/ Abstract!Abandon({c})
<1>1. CASE c \in dropped
  <2>1. \A d \in Calls : pc'[d] = IF d = c THEN "dropped" ELSE pc[d]
    BY <1>1 DEF Resume, Goto, IInv, TypeOK, Loaders
  <2> QED
    BY <2>1, Leave
<1>2. CASE c \notin dropped
  BY <1>2 DEF Resume, Goto
<1> QED
  BY <1>1, <1>2

(* No step of an edit is seen but by the hosts it changes and the answer. *)
LEMMA EditRefines ==
  ASSUME IInv, ~stray, ~stray', NEW c \in Calls,
         Refuse(c) \/ Rename(c) \/ Restore(c) \/ RestoreFails(c) \/ Return(c) \/ Create(c)
  PROVE  Abstract!Next
<1> USE StatusValues
<1>0. /\ \A d \in Calls : Status[d] = StatusOf(pc[d])
      /\ stray' = FALSE /\ stray = FALSE /\ TypeOK /\ Placed /\ Guarded /\ Current
  BY DEF Status, IInv, TypeOK
<1>1. CASE Refuse(c)
  <2>1. /\ pc[c] = "edit" /\ c \notin dropped /\ ~Fits(c, ast[c])
        /\ pc' = [pc EXCEPT ![c] = "refused"] /\ file' = file /\ before' = before
    BY <1>0, <1>1 DEF Refuse, Goto, Guarded, OnThread, Loading, Saving, loadVars
  <2>2. ~Fits(c, file.data)
    BY <1>0, <2>1 DEF Current
  <2>3. Base' = Base /\ Status' = [Status EXCEPT ![c] = "refused"]
    <3>1. StatusOf(pc[c]) = "pending" /\ StatusOf("refused") = "refused"
      BY <2>1
    <3>2. file'.data = file.data /\ \A d \in Calls \ {c} : before'[d] = before[d]
      BY <2>1
    <3>3. Base' = Base /\ Status' = [Status EXCEPT ![c] = StatusOf("refused")]
      BY <2>1, <3>1, <3>2, Moves
    <3> QED
      BY <3>1, <3>3
  <2> QED
    BY <1>0, <2>1, <2>2, <2>3
       DEF Abstract!Next, Abstract!Refuse, Abstract!Becomes, Abstract!Fits, Fits
<1>2. CASE Rename(c)
  <2>1. /\ pc[c] = "rename" /\ pc' = [pc EXCEPT ![c] = "chmod"]
        /\ file'.data = ast[c] /\ before' = before
    BY <1>2 DEF Rename, Write, Goto, loadVars
  <2>2. c \notin dropped /\ lock = c /\ file.data # Absent
    BY <1>0, <2>1 DEF Guarded, Saving, Inside, Placed
  <2>3. /\ Fits(c, file.data) /\ ast[c] = Edited(c, file.data)
        /\ before[c] = file.data
    BY <1>0, <2>1, <2>2 DEF Current
  <2>4. Applied = {}
    BY <2>1, <2>2, OneApplied DEF Applied
  <2>5. \A d \in Calls : pc'[d] = IF d = c THEN "chmod" ELSE pc[d]
    BY <1>0, <2>1 DEF TypeOK, Loaders
  <2>6. Applied' = {c} /\ Base = file.data /\ Base' = file.data
    BY <2>1, <2>3, <2>4, <2>5 DEF Applied, Base
  <2>7. Status' = [Status EXCEPT ![c] = "applied"]
    <3>1. \A d \in Calls :
            StatusOf(pc'[d]) = IF d = c THEN "applied" ELSE StatusOf(pc[d])
      BY <2>5
    <3> QED
      BY <3>1 DEF Status
  <2>8. \A d \in Calls : Status[d] # "applied"
    BY <1>0, <2>4 DEF Applied, TypeOK, Phases, Inside, Loading, Saving, Ended, Loaders
  <2> QED
    BY <1>0, <2>1, <2>2, <2>3, <2>6, <2>7, <2>8
       DEF Abstract!Next, Abstract!Apply, Abstract!Becomes, Abstract!Fits, Fits,
           Abstract!Edited, Edited
<1>3. CASE (Restore(c) \/ RestoreFails(c)) \/ (Return(c) /\ pc[c] = "success")
  <2>1. c \in Applied /\ Status[c] = "applied"
    BY <1>0, <1>3 DEF Applied, Restore, RestoreFails
  <2>2. c \notin dropped /\ Applied = {c} /\ Base = before[c]
    BY <2>1, OneApplied
  <2>3. PICK to \in {"failure", "ok"} :
          /\ pc' = [pc EXCEPT ![c] = to] /\ before' = before
          /\ to = "failure" <=> pc[c] = "restore"
          /\ \/ to = "failure" /\ file'.data = before[c]
             \/ file'.data = file.data
    BY <1>3, <2>2 DEF Restore, RestoreFails, Return, Resume, Goto, Write, loadVars
  <2>4. \A d \in Calls : pc'[d] = IF d = c THEN to ELSE pc[d]
    BY <1>0, <2>3 DEF TypeOK, Loaders
  <2>5. Applied' = {} /\ Base' = file'.data
    BY <2>2, <2>4 DEF Applied, Base
  <2>6. Status' = [Status EXCEPT ![c] = StatusOf(to)]
    <3>1. \A d \in Calls :
            StatusOf(pc'[d]) = IF d = c THEN StatusOf(to) ELSE StatusOf(pc[d])
      BY <2>4
    <3> QED
      BY <3>1 DEF Status
  <2> QED
    BY <1>0, <2>1, <2>2, <2>3, <2>5, <2>6
       DEF Abstract!Next, Abstract!Undo, Abstract!Confirm, Abstract!Becomes
<1>4. CASE Return(c) /\ pc[c] = "failure"
  <2>1. pc' = [pc EXCEPT ![c] = "failed"] /\ file' = file /\ before' = before
    BY <1>4 DEF Return, Goto, loadVars
  <2>2. Base' = Base /\ Status' = [Status EXCEPT ![c] = "failed"]
    <3>1. StatusOf(pc[c]) = "void" /\ StatusOf("failed") = "failed"
      BY <1>4
    <3>2. file'.data = file.data /\ \A d \in Calls \ {c} : before'[d] = before[d]
      BY <2>1
    <3>3. Base' = Base /\ Status' = [Status EXCEPT ![c] = StatusOf("failed")]
      BY <2>1, <3>1, <3>2, Moves
    <3> QED
      BY <3>1, <3>3
  <2> QED
    BY <1>0, <1>4, <2>1, <2>2 DEF Abstract!Next, Abstract!Fail, Abstract!Becomes
<1>5. CASE Create(c)
  <2>1. file.data = Absent /\ file'.data = {} /\ before' = before /\ pc[c] = "create"
    <3>1. file.data = Absent
      BY <1>0, <1>5 DEF Create
    <3>2. file'.data = {} /\ before' = before /\ pc[c] = "create"
      BY <1>5 DEF Create, Write, loadVars
    <3> QED
      BY <3>1, <3>2
  <2>2. PICK to \in {"lock", "failed", "dropped"} : pc' = [pc EXCEPT ![c] = to]
    BY <1>5 DEF Create, Resume, Goto
  <2>3. \A d \in Calls : pc'[d] = IF d = c THEN to ELSE pc[d]
    BY <1>0, <2>2 DEF TypeOK, Loaders
  <2>4. Applied' = {}
    BY <1>0, <2>1, <2>3 DEF Applied, Placed, Inside, Saving
  <2>5. Base' = {}
    BY <2>1, <2>4 DEF Base
  <2>6. /\ \A d \in Calls :
             StatusOf(pc'[d]) = IF d = c THEN StatusOf(to) ELSE StatusOf(pc[d])
        /\ Status[c] = "pending"
    BY <1>0, <2>1, <2>3
  <2>7. Status' = [Status EXCEPT ![c] = StatusOf(to)]
    BY <2>6 DEF Status
  <2>8. to = "lock" => Status' = Status
    BY <2>6 DEF Status
  <2> QED
    BY <1>0, <2>1, <2>2, <2>5, <2>6, <2>7, <2>8
       DEF Abstract!Next, Abstract!Create, Abstract!Becomes
<1> QED
  BY <1>1, <1>2, <1>3, <1>4, <1>5 DEF Return

(* The way there is not seen, unless the call is found to be gone. *)
LEMMA WayRefines ==
  ASSUME IInv, ~stray, ~stray', NEW c \in Calls,
         \/ Begin(c) \/ TryLock(c) \/ Load(c) \/ Edit(c) \/ Snapshot(c) \/ Chmod(c)
         \/ CreateFails(c) \/ OpenFails(c) \/ LoadFails(c) \/ RenameFails(c)
  PROVE  Abstract!Next \/ UNCHANGED Abstract!vars
<1> USE StatusValues
<1>0. /\ stray' = FALSE /\ stray = FALSE /\ TypeOK /\ Placed /\ Guarded /\ c \in Loaders
      /\ Status[c] = StatusOf(pc[c])
  BY DEF IInv, TypeOK, Status, Loaders
<1>1. CASE Begin(c) \/ TryLock(c) \/ Stat(c) \/ ProbeMiss(c) \/ Edit(c)
  <2>1. PICK to \in {"create", "lock", "stat", "probe", "insert", "snapshot"} :
          pc' = [pc EXCEPT ![c] = to]
    BY <1>1 DEF Begin, TryLock, Stat, ProbeMiss, Edit, Goto
  <2>2. pc[c] \in {"idle", "lock", "stat", "probe", "edit"}
    BY <1>1 DEF Begin, TryLock, Stat, ProbeMiss, Edit
  <2>3. file' = file /\ before' = before
    BY <1>1 DEF Begin, TryLock, Stat, ProbeMiss, Edit, loadVars
  <2>4. StatusOf(pc[c]) = "pending" /\ StatusOf(to) = "pending"
    BY <2>1, <2>2 DEF Loading
  <2> QED
    BY <1>0, <2>1, <2>2, <2>3, <2>4, Unseen
<1>2. CASE Snapshot(c)
  <2>1. /\ pc[c] = "snapshot" /\ pc' = [pc EXCEPT ![c] = "rename"] /\ file' = file
        /\ before' = [before EXCEPT ![c] = file.data]
    BY <1>2 DEF Snapshot, Goto
  <2>2. \A d \in Applied : before'[d] = before[d]
    BY <2>1 DEF Applied, IInv, TypeOK
  <2> QED
    BY <1>0, <2>1, <2>2, Unseen
<1>3. CASE Chmod(c)
  <2>1. c \in Applied /\ pc[c] = "chmod"
    BY <1>3 DEF Chmod, Applied
  <2>2. PICK to \in {"success", "restore"} : pc' = [pc EXCEPT ![c] = to]
    BY <1>3, <2>1, OneApplied DEF Chmod, Resume, Goto
  <2>3. file' = file /\ before' = before
    BY <1>3 DEF Chmod, loadVars
  <2> QED
    BY <1>0, <2>1, <2>2, <2>3, Unseen
<1>4. CASE StatMissing(c) \/ ProbeHit(c) \/ Insert(c)
  <2>1. pc[c] \in Loading /\ Resume(c, "edit") /\ file' = file /\ before' = before
    BY <1>4, ConfigAssumption
       DEF StatMissing, ProbeHit, Insert, Loaded, Loading, loadVars, ConfigAssumption
  <2>2. StatusOf(pc[c]) = "pending" /\ pc[c] \notin {"chmod", "restore", "success"}
    BY <2>1 DEF Loading
  <2>3. CASE pc' = [pc EXCEPT ![c] = "edit"]
    BY <1>0, <2>1, <2>2, <2>3, Unseen
  <2> QED
    BY <1>0, <2>1, <2>2, <2>3, Resumes DEF Abstract!Next
<1>5. CASE CreateFails(c) \/ OpenFails(c) \/ LoadFails(c) \/ RenameFails(c)
  <2>1. /\ pc[c] \in {"create", "lock", "stat", "probe", "rename"}
        /\ file' = file /\ before' = before
    BY <1>5 DEF CreateFails, OpenFails, LoadFails, RenameFails, loadVars
  <2>2. StatusOf(pc[c]) = "pending"
    BY <2>1 DEF Loading
  <2>3. \/ \E to \in {"failed", "failure"} : pc' = [pc EXCEPT ![c] = to]
        \/ Abstract!Abandon({c})
    BY <1>0, <1>5, <2>1, <2>2, Resumes
       DEF CreateFails, OpenFails, LoadFails, RenameFails, Goto
  <2>4. ASSUME NEW to \in {"failed", "failure"}, pc' = [pc EXCEPT ![c] = to]
        PROVE  Abstract!Fail(c)
    <3>1. StatusOf(to) \in {"failed", "void"}
      OBVIOUS
    <3>2. Base' = Base /\ Status' = [Status EXCEPT ![c] = StatusOf(to)]
      BY <2>1, <2>2, <2>4, <3>1, Moves
    <3> QED
      BY <1>0, <2>1, <2>2, <3>1, <3>2 DEF Abstract!Fail, Abstract!Becomes
  <2> QED
    BY <2>3, <2>4 DEF Abstract!Next
<1> QED
  BY <1>1, <1>2, <1>3, <1>4, <1>5 DEF Load

(* Callers that are dropped or die are gone; their threads go unseen. *)
LEMMA GoneRefines ==
  ASSUME IInv, ~stray, ~stray',
         \/ \E c \in Calls : Drop(c)
         \/ \E p \in Procs : Crash(p)
  PROVE  Abstract!Next \/ UNCHANGED Abstract!vars
<1> USE StatusValues
<1>0. /\ stray' = FALSE /\ stray = FALSE /\ TypeOK /\ Placed /\ Guarded
      /\ \A c \in Calls : StatusOf(pc[c]) \in {"pending", "applied", "void"} \/ pc[c] \in Ended
  BY DEF IInv, TypeOK, Loaders, Phases, Inside, Loading, Saving
<1>1. ASSUME NEW c \in Calls, Drop(c)
      PROVE  Abstract!Next \/ UNCHANGED Abstract!vars
  <2>1. file' = file /\ before' = before /\ pc[c] \notin Ended
    BY <1>1 DEF Drop, loadVars
  <2>2. CASE pc' = pc
    <3>1. Applied' = Applied /\ Status' = Status
      BY <2>2 DEF Applied, Status
    <3>2. Base' = Base
      BY <2>1, <3>1 DEF Base
    <3> QED
      BY <1>0, <2>1, <3>1, <3>2 DEF Abstract!vars
  <2>3. CASE Goto(c, "dropped")
    <3>1. \A d \in Calls : pc'[d] = IF d = c THEN "dropped" ELSE pc[d]
      BY <1>0, <2>3 DEF Goto, TypeOK, Loaders
    <3>2. Abstract!Abandon({c})
      <4>1. \A d \in {c} : StatusOf(pc[d]) \in {"pending", "applied", "void"}
        BY <1>0, <2>1
      <4>2. \A d \in Calls :
              pc'[d] \in IF d \in {c} THEN {"dropped", "crashed"} ELSE {pc[d]}
        BY <3>1
      <4> QED
        BY <1>0, <2>1, <4>1, <4>2, Leave
    <3> QED
      BY <3>2 DEF Abstract!Next
  <2> QED
    BY <1>1, <2>2, <2>3 DEF Drop
<1>2. ASSUME NEW p \in Procs, Crash(p)
      PROVE  Abstract!Next
  <2> DEFINE gone == {c \in Calls : ProcOf[c] = p /\ pc[c] \notin Ended}
  <2>1. /\ file' = file /\ before' = before
        /\ \A c \in Calls : pc'[c] = IF c \in gone THEN "crashed" ELSE pc[c]
    BY <1>2 DEF Crash, Loaders
  <2>2. Abstract!Abandon(gone)
    <3> HIDE DEF gone
    <3>1. gone \in SUBSET Calls /\ \A c \in gone : pc[c] \notin Ended
      BY DEF gone
    <3> QED
      BY <1>0, <2>1, <3>1, Leave
  <2> QED
    BY <2>2 DEF Abstract!Next
<1> QED
  BY <1>1, <1>2

(* Nothing is promised once a write has strayed. *)
LEMMA StrayRefines ==
  ASSUME IInv, IInv', stray'
  PROVE  Abstract!Stray
<1>1. file'.data \in Contents /\ Base' \in Contents
  <2>1. file'.data \in Contents /\ before' \in [Calls -> Contents]
    BY DEF IInv, TypeOK
  <2>2. Applied' # {} => (CHOOSE c \in Applied' : TRUE) \in Calls
    BY DEF Applied
  <2> QED
    BY <2>1, <2>2 DEF Base
<1>2. Status' \in [Calls -> Abstract!Statuses]
  <2>1. \A c \in Calls : StatusOf(pc'[c]) \in Abstract!Statuses
    BY StatusValues
       DEF IInv, TypeOK, Loaders, Phases, Inside, Loading, Saving, Ended, Abstract!Statuses
  <2> QED
    BY <2>1 DEF Status
<1> QED
  BY <1>1, <1>2 DEF Abstract!Stray, Abstract!Contents, Contents, IInv, TypeOK

(* A step of the edits is a step of the promise, or is not seen. *)
LEMMA StepRefines ==
  ASSUME IInv, [Next]_vars
  PROVE  [Abstract!Next]_(Abstract!vars)
<1>1. CASE stray'
  BY <1>1, NextIInv, StrayRefines DEF Abstract!Next
<1>2. CASE ~stray' /\ UNCHANGED vars
  BY <1>2 DEF vars, loadVars, Abstract!vars, Base, Applied, Status
<1>3. CASE ~stray' /\ Next
  <2>1. ~stray
    <3>1. CASE stray /\ \E c \in Calls : Begin(c) \/ Step(c) \/ Fault(c) \/ Drop(c)
      BY <1>3, <3>1
         DEF Begin, Step, Fault, Drop, Create, TryLock, Load, Stat, StatMissing, ProbeHit,
           ProbeMiss, Insert, Edit, Refuse, Snapshot, Rename, Chmod, Restore, Return,
           CreateFails, OpenFails, LoadFails, RenameFails, RestoreFails
    <3>2. CASE stray /\ \E r \in Readers : Load(r)
      BY <1>3, <3>2 DEF Load, Stat, StatMissing, ProbeHit, ProbeMiss, Insert
    <3>3. CASE stray /\ \E p \in Procs : Crash(p)
      BY <1>3, <3>3 DEF Crash
    <3> QED
      BY <1>3, <3>1, <3>2, <3>3 DEF Next
  <2>2. ASSUME NEW r \in Readers, Load(r)
        PROVE  UNCHANGED Abstract!vars
    <3>1. r \notin Calls /\ r \in Loaders
      BY ConfigAssumption DEF ConfigAssumption, Loaders
    <3>2. /\ \E to \in Loading : pc' = [pc EXCEPT ![r] = to]
          /\ file' = file /\ before' = before /\ stray' = stray
      BY <2>2, <3>1
         DEF Load, Stat, StatMissing, ProbeHit, ProbeMiss, Insert, Loaded, Goto, Loading,
           loadVars
    <3> QED
      BY <3>1, <3>2, Unseen
  <2> QED
    BY <1>3, <2>1, <2>2, EditRefines, WayRefines, GoneRefines DEF Next, Step, Fault
<1> QED
  BY <1>1, <1>2, <1>3

(* For any number of edits, readers, processes, failures, crashes and dropped
   futures: until a write strays, the callers of ConfigService::edit see edits
   that are atomic and are never lost. *)
THEOREM EditsAreAtomic == Spec => ImplementsEditedFile
<1>1. Init => Abstract!Init
  <2> SUFFICES ASSUME Init
               PROVE  Abstract!Init
    OBVIOUS
  <2>1. Applied = {}
    BY DEF Init, Applied, Loaders
  <2>2. Status = [c \in Calls |-> "pending"]
    BY StatusValues DEF Init, Status, Loaders
  <2> QED
    BY <2>1, <2>2 DEF Init, Base, Abstract!Init, Abstract!Contents, Contents
<1>2. IInv /\ [Next]_vars => [Abstract!Next]_(Abstract!vars)
  BY StepRefines
<1> QED
  BY <1>1, <1>2, Invariance, PTL DEF Spec, Abstract!Spec, ImplementsEditedFile
-----------------------------------------------------------------------------
(***************************************************************************)
(* What the promise of EditedFile is good for: an edit that was            *)
(* acknowledged is in the file, and in what the file may go back to.       *)
(***************************************************************************)
AInv ==
  ~stray =>
    /\ \A c, d \in Calls : Status[c] = "applied" /\ Status[d] = "applied" => c = d
    /\ \A c \in Calls : Status[c] \in {"applied", "ok"} => file.data # Absent
    /\ \A c \in Calls : Status[c] = "ok" => Base # Absent
    /\ \A c \in Calls : Status[c] \in {"applied", "ok"} /\ Alone(c) =>
         Edited(c, file.data) = file.data
    /\ \A c \in Calls : Status[c] = "ok" /\ Alone(c) => Edited(c, Base) = Base

(* An edit made twice is an edit made once. *)
LEMMA EditedTwice ==
  ASSUME NEW c \in Calls, NEW hosts
  PROVE  Edited(c, Edited(c, hosts)) = Edited(c, hosts)
BY DEF Edited

(* An edit of other hosts leaves what an edit has done. *)
LEMMA EditedApart ==
  ASSUME NEW c \in Calls, NEW d \in Calls, Touched(c) \cap Touched(d) = {},
         NEW hosts, Edited(c, hosts) = hosts
  PROVE  Edited(c, Edited(d, hosts)) = Edited(d, hosts)
BY DEF Edited, Touched

(* An edited file is there. *)
LEMMA EditedIsThere ==
  ASSUME NEW c \in Calls, NEW hosts \in Contents, hosts # Absent
  PROVE  Edited(c, hosts) # Absent
<1>1. hosts \in SUBSET Hosts /\ EditOf[c].to \in SUBSET Hosts /\ NoFile \notin Hosts
  BY ConfigAssumption, EditAssumption DEF ConfigAssumption, EditAssumption, Contents
<1> QED
  BY <1>1 DEF Edited, Absent

(* Once an edit of the same hosts is more than pending or refused it stays so. *)
LEMMA AloneBefore ==
  ASSUME \A d \in Calls :
           Status'[d] \in {"pending", "refused"} => Status[d] \in {"pending", "refused"},
         NEW c \in Calls, Alone(c)'
  PROVE  Alone(c)
BY DEF Alone, Touched

(* Every abstract step keeps what was acknowledged. *)
LEMMA AbstractAInv ==
  ASSUME TypeOK, AInv, Abstract!Next \/ UNCHANGED Abstract!vars
  PROVE  AInv'
<1> SUFFICES ASSUME ~stray'
             PROVE  AInv'
  BY DEF AInv
<1>0. /\ Status \in [Calls -> {"pending", "applied", "void", "ok", "failed", "refused",
                               "gone"}]
      /\ file.data \in Contents
  <2>1. \A c \in Calls : StatusOf(pc[c]) \in
          {"pending", "applied", "void", "ok", "failed", "refused", "gone"}
    BY StatusValues DEF TypeOK, Loaders, Phases, Inside, Loading, Saving, Ended
  <2> QED
    BY <2>1 DEF Status, TypeOK
<1>1. ASSUME UNCHANGED Abstract!vars
      PROVE  AInv'
  BY <1>1 DEF Abstract!vars, AInv, Alone, Touched
<1>2. ASSUME ~stray, Abstract!Create
      PROVE  AInv'
  <2>1. file.data = Absent /\ \A c \in Calls : Status[c] \notin {"applied", "ok"}
    BY <1>2 DEF Abstract!Create, AInv
  <2>2. \A c \in Calls : Status'[c] \notin {"applied", "ok"}
    BY <1>0, <1>2, <2>1 DEF Abstract!Create, Abstract!Becomes
  <2> QED
    BY <2>2 DEF AInv
<1>3. ASSUME ~stray, NEW c \in Calls, Abstract!Apply(c)
      PROVE  AInv'
  <2>1. /\ Status[c] = "pending" /\ \A d \in Calls : Status[d] # "applied"
        /\ file.data # Absent
        /\ file'.data = Edited(c, file.data) /\ Base' = Base
        /\ \A d \in Calls : Status'[d] = IF d = c THEN "applied" ELSE Status[d]
    BY <1>0, <1>3 DEF Abstract!Apply, Abstract!Becomes, Abstract!Edited, Edited
  <2>2. file'.data # Absent
    BY <1>0, <2>1, EditedIsThere
  <2>3. \A d \in Calls : Alone(d)' => Alone(d)
    BY <2>1, AloneBefore
  <2>4. Edited(c, file'.data) = file'.data
    BY <2>1, EditedTwice
  <2>5. ASSUME NEW d \in Calls, d # c, Status[d] = "ok", Alone(d)'
        PROVE  Edited(d, file'.data) = file'.data
    <3>1. Touched(d) \cap Touched(c) = {}
      BY <2>1, <2>5 DEF Alone, Touched
    <3>2. Edited(d, file.data) = file.data
      BY <1>3, <2>3, <2>5 DEF AInv
    <3> QED
      BY <2>1, <3>1, <3>2, EditedApart
  <2> QED
    BY <1>3, <2>1, <2>2, <2>3, <2>4, <2>5 DEF AInv
<1>4. ASSUME ~stray, NEW c \in Calls, Abstract!Confirm(c)
      PROVE  AInv'
  <2>1. /\ Status[c] = "applied" /\ file'.data = file.data /\ Base' = file.data
        /\ \A d \in Calls : Status'[d] = IF d = c THEN "ok" ELSE Status[d]
    BY <1>0, <1>4 DEF Abstract!Confirm, Abstract!Becomes
  <2>2. \A d \in Calls : Alone(d)' => Alone(d)
    BY <2>1, AloneBefore
  <2> QED
    BY <1>4, <2>1, <2>2 DEF AInv
<1>5. ASSUME ~stray, NEW c \in Calls, Abstract!Undo(c)
      PROVE  AInv'
  <2>1. /\ Status[c] = "applied"
        /\ \/ file'.data = Base /\ Base' = Base
           \/ file'.data = file.data /\ Base' = file.data
        /\ \A d \in Calls : Status'[d] = IF d = c THEN "void" ELSE Status[d]
    BY <1>0, <1>5 DEF Abstract!Undo, Abstract!Becomes
  <2>2. \A d \in Calls : Alone(d)' => Alone(d)
    BY <2>1, AloneBefore
  <2>3. \A d \in Calls : Status'[d] # "applied"
    BY <1>5, <2>1 DEF AInv
  <2> QED
    BY <1>5, <2>1, <2>2, <2>3 DEF AInv
<1>6. ASSUME ~stray, NEW c \in Calls, Abstract!Refuse(c) \/ Abstract!Fail(c)
      PROVE  AInv'
  <2>1. /\ Status[c] \in {"pending", "void"} /\ file'.data = file.data /\ Base' = Base
        /\ \E s \in {"refused", "void", "failed"} :
             /\ s = "refused" => Status[c] = "pending"
             /\ \A d \in Calls : Status'[d] = IF d = c THEN s ELSE Status[d]
    BY <1>0, <1>6 DEF Abstract!Refuse, Abstract!Fail, Abstract!Becomes
  <2>2. \A d \in Calls : Alone(d)' => Alone(d)
    BY <2>1, AloneBefore
  <2> QED
    BY <1>6, <2>1, <2>2 DEF AInv
<1>7. ASSUME ~stray, NEW S \in SUBSET Calls, Abstract!Abandon(S)
      PROVE  AInv'
  <2>1. /\ file'.data = file.data
        /\ Base' = IF \E c \in S : Status[c] = "applied" THEN file.data ELSE Base
        /\ \A d \in Calls : Status'[d] = IF d \in S THEN "gone" ELSE Status[d]
    BY <1>7 DEF Abstract!Abandon
  <2>2. \A d \in Calls : Alone(d)' => Alone(d)
    BY <2>1, AloneBefore
  <2> QED
    BY <1>7, <2>1, <2>2 DEF AInv
<1>8. ~Abstract!Stray
  BY DEF Abstract!Stray
<1>9. Abstract!Next => ~stray
  BY <1>8 DEF Abstract!Next, Abstract!Create, Abstract!Apply, Abstract!Confirm,
     Abstract!Undo, Abstract!Refuse, Abstract!Fail, Abstract!Abandon
<1> QED
  BY <1>1, <1>2, <1>3, <1>4, <1>5, <1>6, <1>7, <1>8, <1>9 DEF Abstract!Next

(* As long as no write strays, neither edits of other hosts, nor failures and
   what undoes them, nor crashes and dropped futures take an acknowledged edit
   out of the configuration (ConfigService::edit). *)
THEOREM AcknowledgedEditsStay == Spec => []AcknowledgedUntilStray
<1>1. Init => AInv
  <2>1. Init => \A c \in Calls : Status[c] = "pending"
    BY StatusValues DEF Init, Status, Loaders
  <2> QED
    BY <2>1 DEF AInv
<1>2. IInv /\ AInv /\ [Next]_vars => AInv'
  BY StepRefines, AbstractAInv DEF IInv
<1>3. AInv => AcknowledgedUntilStray
  BY DEF AInv, AcknowledgedUntilStray
<1> QED
  BY <1>1, <1>2, <1>3, Invariance, PTL DEF Spec
=============================================================================
