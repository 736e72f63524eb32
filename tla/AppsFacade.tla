------------------------------ MODULE AppsFacade ------------------------------
(***************************************************************************)
(* The Apps facade of toride-apps (apps.rs): one call at a time installs,  *)
(* removes, updates or adopts applications through the package managers    *)
(* and keeps a ledger of what toride installed, in memory and as one       *)
(* document.  A call awaits probes, commands and the save; it may be       *)
(* dropped at any of them, and its save then goes on by itself, because it *)
(* runs on the blocking pool.  Anybody may install or remove an            *)
(* application at any time, and the process may die.                       *)
(*                                                                         *)
(* An application has one installation, of a backend that is attached: the *)
(* identifiers its record holds and those the registry gives name the same *)
(* one.  Versions, dry runs and pins are left out.                         *)
(***************************************************************************)
EXTENDS Naturals, Sequences

CONSTANTS
  Apps,          \* the applications
  Listed,        \* those of a backend that answers foreign checks from a listing
  MaxBatch,      \* bound: items in a batch
  Slots,         \* bound: saves of dropped calls under way
  Unreadable,    \* a document this version cannot read
  None

ASSUME AppsAssumption ==
  /\ Listed \subseteq Apps
  /\ MaxBatch \in Nat
  /\ \A apps \in SUBSET Apps : apps # Unreadable /\ apps # None
  /\ \A apps \in SUBSET Apps, b \in BOOLEAN : None # [snap |-> apps, stale |-> b]

VARIABLES
  host,          \* what the package managers have installed
  up,            \* has the facade been built?
  records,       \* Apps.records: the ledger in memory
  doc,           \* the ledger's document
  verb,          \* the call under way
  todo,          \* its items, the one in hand first
  insist,        \* a version is asked for, or a removal is forced
  at,            \* what the item awaits
  listing,       \* ForeignListings
  saves,         \* the saves of dropped calls
  answer,        \* the item answered in this step
  lost,          \* history: a save failed, or came after a later call's
  claimed,       \* history: what toride has installed or adopted
  seen, missed   \* history: on the host, or not, at some time since the call began

call     == <<verb, todo, insist, at, listing>>
history  == <<lost, claimed, seen, missed>>
vars     == <<host, up, records, doc, call, saves, answer, history>>

Verbs    == {"ensure", "uninstall", "update", "adopt"}
Batches  == UNION {[1..n -> Apps] : n \in 1..MaxBatch}
Saves    == [snap : SUBSET Apps, stale : BOOLEAN]
Answers  ==
  {"present", "absent", "refused", "installed", "removed", "updated", "current", "adopted",
   "failed"}

TypeOK ==
  /\ host \subseteq Apps
  /\ up \in BOOLEAN
  /\ records \subseteq Apps
  /\ doc = Unreadable \/ doc \subseteq Apps
  /\ verb \in Verbs \cup {"none"}
  /\ todo \in Seq(Apps) /\ Len(todo) <= MaxBatch
  /\ insist \in BOOLEAN
  /\ at \in {"idle", "recorded", "resolving", "foreign", "run", "verify", "save"}
  /\ at = "idle" <=> todo = <<>>
  /\ at = "idle" <=> verb = "none"
  /\ listing = None \/ listing \subseteq Listed
  /\ saves \in [Slots -> {None} \cup Saves]
  /\ answer = None \/ answer \in [app : Apps, is : Answers]
  /\ lost \in BOOLEAN
  /\ claimed \subseteq Apps /\ seen \subseteq Apps /\ missed \subseteq Apps

Init ==
  /\ host \in SUBSET Apps
  /\ up = FALSE /\ records = {} /\ doc \in {{}, Unreadable}
  /\ verb = "none" /\ todo = <<>> /\ insist = FALSE /\ at = "idle" /\ listing = None
  /\ saves = [s \in Slots |-> None]
  /\ answer = None
  /\ lost = FALSE /\ claimed = {} /\ seen = {} /\ missed = {}

item == Head(todo)

\* The first thing an item awaits.
FirstAwait(v, app) ==
  CASE v = "ensure"    -> IF app \in records THEN "recorded" ELSE "resolving"
    [] v = "uninstall" -> IF app \in records THEN "run" ELSE "resolving"
    [] v = "update"    -> "recorded"
    [] OTHER           -> "foreign"

Await(p) ==
  /\ at' = p
  /\ answer' = None
  /\ UNCHANGED <<verb, todo, insist>>

\* The item is answered and the next one begins, whatever became of it.
Answer(is) ==
  /\ answer' = [app |-> item, is |-> is]
  /\ todo' = Tail(todo)
  /\ IF todo' = <<>> THEN verb' = "none" /\ at' = "idle"
                     ELSE at' = FirstAwait(verb, Head(todo')) /\ UNCHANGED verb
  /\ UNCHANGED insist

CallOver ==
  /\ verb' = "none" /\ todo' = <<>> /\ at' = "idle"
  /\ answer' = None
  /\ UNCHANGED <<insist, listing>>

HostBecomes(apps) ==
  /\ host' = apps
  /\ seen' = seen \cup apps /\ missed' = missed \cup (Apps \ apps)
-----------------------------------------------------------------------------
\* Seeded fault: the listings outlive the call that took them.
ListingsKept == listing

\* ForeignListings::default(), one for each call.
NewListings == None

\* A verb is called.  Update and adopt take one item and refuse at once where
\* the ledger says so.
Begin ==
  /\ up /\ at = "idle"
  /\ \E v \in Verbs, ids \in Batches, i \in BOOLEAN :
       /\ v \in {"update", "adopt"} => Len(ids) = 1 /\ ~i
       /\ v = "update" => Head(ids) \in records
       /\ v = "adopt" => Head(ids) \notin records
       /\ verb' = v /\ todo' = ids /\ insist' = i
       /\ at' = FirstAwait(v, Head(ids))
  /\ listing' = NewListings
  /\ seen' = host /\ missed' = Apps \ host
  /\ answer' = None
  /\ UNCHANGED <<host, up, records, doc, saves, lost, claimed>>

\* app_status of a record: its own identifiers, asked of its backend.  Whether
\* a version asked for is the one there, or an update is due, is left open.
ProbeRecord ==
  /\ at = "recorded"
  /\ \/ Answer("failed")
     \/ verb = "ensure" /\ item \in host /\ Answer("present")
     \/ verb = "ensure" /\ (item \notin host \/ insist) /\ Await("resolving")
     \/ verb = "update" /\ item \in host /\ Answer("current")
     \/ verb = "update" /\ Await("run")
  /\ UNCHANGED <<host, up, records, doc, listing, saves, history>>

\* The registry adapters, and the plan.
Resolve ==
  /\ at = "resolving"
  /\ \/ Answer("failed")
     \/ Await(IF item \in records THEN "run" ELSE "foreign")
  /\ UNCHANGED <<host, up, records, doc, listing, saves, history>>

\* A save begins with what the ledger holds now; saves still under way are of
\* older ledgers.
SaveLedger ==
  /\ Await("save")
  /\ saves' = [s \in Slots |->
                 IF saves[s] = None THEN None ELSE [saves[s] EXCEPT !.stale = TRUE]]

\* foreign_status_shared: the installed applications as this check sees them.
Known ==
  IF item \in Listed
  THEN IF listing = None THEN host \cap Listed ELSE listing
  ELSE host

\* Seeded fault: an application found on the host is put in the ledger.
ProbeForeignClaims ==
  /\ at = "foreign"
  /\ \/ Answer("failed") /\ UNCHANGED <<records, listing, saves, claimed>>
     \/ /\ verb = "ensure"
        /\ listing' = IF item \in Listed THEN Known ELSE listing
        /\ IF item \in Known /\ ~insist
           THEN Answer("present") /\ records' = records \cup {item}
           ELSE (Await("run") \/ Answer("failed")) /\ UNCHANGED records
        /\ UNCHANGED <<saves, claimed>>
     \/ /\ verb = "uninstall"
        /\ \/ item \notin host /\ Answer("absent")
           \/ item \in host /\ ~insist /\ Answer("refused")
           \/ item \in host /\ insist /\ Await("run")
        /\ UNCHANGED <<records, listing, saves, claimed>>
  /\ UNCHANGED <<host, up, doc, lost, seen, missed>>

\* Is an application without a record on the host?  An install shares one
\* listing among its items, and may still fail to be planned; a removal asks
\* anew; adopting it records it.
ProbeForeign ==
  /\ at = "foreign"
  /\ \/ Answer("failed") /\ UNCHANGED <<records, listing, saves, claimed>>
     \/ /\ verb = "ensure"
        /\ listing' = IF item \in Listed THEN Known ELSE listing
        /\ IF item \in Known /\ ~insist THEN Answer("present")
                                       ELSE Await("run") \/ Answer("failed")
        /\ UNCHANGED <<records, saves, claimed>>
     \/ /\ verb = "uninstall"
        /\ \/ item \notin host /\ Answer("absent")
           \/ item \in host /\ ~insist /\ Answer("refused")
           \/ item \in host /\ insist /\ Await("run")
        /\ UNCHANGED <<records, listing, saves, claimed>>
     \/ /\ verb = "adopt" /\ item \in host
        /\ records' = records \cup {item} /\ claimed' = claimed \cup {item}
        /\ SaveLedger
        /\ UNCHANGED listing
  /\ UNCHANGED <<host, up, doc, lost, seen, missed>>

\* The backend's command does its work, or not, and says so or not.
Command ==
  /\ \E apps \in {host, IF verb = "uninstall" THEN host \ {item} ELSE host \cup {item}} :
       HostBecomes(apps)
  /\ claimed' = IF verb = "uninstall" THEN claimed ELSE claimed \cup {item}

Run ==
  /\ at = "run"
  /\ Command
  /\ Await("verify") \/ Answer("failed")
  /\ UNCHANGED <<up, records, doc, listing, saves, lost>>

\* Seeded fault: what the probe does not find is not recorded.
VerifyRecordsFound ==
  /\ at = "verify"
  /\ IF verb = "uninstall" /\ item \notin records
     THEN Answer("removed") /\ UNCHANGED <<records, saves>>
     ELSE /\ records' = IF verb = "uninstall" THEN records \ {item}
                                             ELSE records \cup ({item} \cap host)
          /\ SaveLedger
  /\ UNCHANGED <<host, up, doc, listing, history>>

\* The probe after the command decides what is reported, not what is recorded.
Verify ==
  /\ at = "verify"
  /\ IF verb = "uninstall" /\ item \notin records
     THEN Answer("removed") /\ UNCHANGED <<records, saves>>
     ELSE /\ records' = IF verb = "uninstall" THEN records \ {item} ELSE records \cup {item}
          /\ SaveLedger
  /\ UNCHANGED <<host, up, doc, listing, history>>

Outcome ==
  CASE verb = "ensure" -> "installed" [] verb = "uninstall" -> "removed"
    [] verb = "update" -> "updated"   [] OTHER -> "adopted"

Underway == \E s \in Slots : saves[s] # None

\* The document is replaced as a whole.
Saved ==
  /\ at = "save"
  /\ doc' = records
  /\ lost' = (lost /\ Underway)
  /\ Answer(Outcome)
  /\ UNCHANGED <<host, up, records, listing, saves, claimed, seen, missed>>

\* Seeded fault: the claim stays.
SaveFailsClaimed ==
  /\ at = "save"
  /\ UNCHANGED records
  /\ IF verb = "adopt" THEN UNCHANGED lost ELSE lost' = TRUE
  /\ Answer(IF verb \in {"adopt", "update"} THEN "failed" ELSE Outcome)
  /\ UNCHANGED <<host, up, doc, listing, saves, claimed, seen, missed>>

\* Installs and removals warn, an update fails, and adopting is undone.
SaveFails ==
  /\ at = "save"
  /\ IF verb = "adopt" THEN records' = records \ {item} /\ UNCHANGED lost
                       ELSE lost' = TRUE /\ UNCHANGED records
  /\ Answer(IF verb \in {"adopt", "update"} THEN "failed" ELSE Outcome)
  /\ UNCHANGED <<host, up, doc, listing, saves, claimed, seen, missed>>
-----------------------------------------------------------------------------
\* The caller drops the future: a command is killed, a save goes on.
Dropped ==
  /\ at # "idle"
  /\ CallOver
  /\ IF at = "run" THEN Command ELSE UNCHANGED <<host, claimed, seen, missed>>
  /\ IF at = "save"
     THEN \E s \in Slots :
            /\ saves[s] = None
            /\ saves' = [saves EXCEPT ![s] = [snap |-> records, stale |-> FALSE]]
     ELSE UNCHANGED saves
  /\ UNCHANGED <<up, records, doc, lost>>

\* The save of a dropped call ends.
Land(s) ==
  /\ saves[s] # None
  /\ \/ doc' = saves[s].snap /\ lost' = saves[s].stale
     \/ lost' = TRUE /\ UNCHANGED doc
  /\ saves' = [saves EXCEPT ![s] = None]
  /\ answer' = None
  /\ UNCHANGED <<host, up, records, call, claimed, seen, missed>>

\* The process dies with whatever it was doing.
Crash ==
  /\ up /\ up' = FALSE
  /\ records' = {} /\ saves' = [s \in Slots |-> None]
  /\ CallOver
  /\ IF at = "run" THEN Command ELSE UNCHANGED <<host, claimed, seen, missed>>
  /\ UNCHANGED <<doc, lost>>

\* Meanwhile a newer version leaves a document of its own.
NewerVersion ==
  /\ ~up
  /\ doc' = Unreadable
  /\ answer' = None
  /\ UNCHANGED <<host, up, records, call, saves, history>>

\* AppsBuilder::build loads the ledger once; what it cannot read is moved aside.
Build ==
  /\ ~up /\ up' = TRUE
  /\ doc' = IF doc = Unreadable THEN {} ELSE doc
  /\ records' = doc'
  /\ lost' = FALSE
  /\ answer' = None
  /\ UNCHANGED <<host, call, saves, claimed, seen, missed>>

\* Somebody else installs or removes an application.
Outside ==
  /\ \E app \in Apps : HostBecomes(IF app \in host THEN host \ {app} ELSE host \cup {app})
  /\ answer' = None
  /\ UNCHANGED <<up, records, doc, call, saves, lost, claimed>>

Next ==
  \/ Begin
  \/ ProbeRecord \/ Resolve \/ ProbeForeign \/ Run \/ Verify \/ Saved \/ SaveFails
  \/ Dropped \/ \E s \in Slots : Land(s)
  \/ Crash \/ NewerVersion \/ Build \/ Outside

Spec == Init /\ [][Next]_vars
-----------------------------------------------------------------------------
\* The document differs from the ledger in memory only while a save is under
\* way, or after one failed or the save of a dropped call came after a later
\* call's (save_records; "the claim is rolled back, so nothing stays recorded",
\* adopt).  Neither crashes nor drops elsewhere make a difference.
Durable == (up /\ at # "save" /\ ~Underway /\ ~lost) => doc = records

\* An answer says what the ledger says: what is called installed, updated or
\* adopted is recorded, and in the document unless a save failed; what is called
\* removed is not, whatever was loaded, dropped or overtaken before (save_records).
AnswersRecorded ==
  answer # None =>
    /\ answer.is \in {"installed", "updated", "adopted"} =>
         answer.app \in records /\ (lost \/ answer.app \in doc)
    /\ answer.is = "removed" =>
         answer.app \notin records /\ (lost \/ Underway \/ answer.app \notin doc)

\* Nothing gets into the ledger, its document or a save under way but what
\* toride has installed or adopted: what was merely found on the host does not,
\* not even by way of a restart or a save that lands late.
LedgerNamesOwn ==
  /\ records \subseteq claimed
  /\ doc = Unreadable \/ doc \subseteq claimed
  /\ \A s \in Slots : saves[s] # None => saves[s].snap \subseteq claimed

\* "Uninstalling an app toride has no record for is refused by default": unless
\* forced, no call ever removes an application that toride neither installed
\* nor adopted, or has no record of since a crash, a dropped call or a failed
\* save, whatever was recorded, lost, moved aside or loaded before.
OwnRemovals ==
  [][<<at, todo>>' # <<at, todo>> =>
       \A app \in host \ host' : app \in claimed \cap records \/ insist]_vars

\* What an answer says a probe saw was so at some time during its call, not in a
\* listing or on the word of a ledger from before it: "present", "refused",
\* "current" and "adopted" were on the host, "absent" was not, and nothing is
\* installed unasked-for over what was there all along.  That an application is
\* "installed", "removed" or "updated" is the word of the command that ran; the
\* host need not have changed (ensure_installed_listed, uninstall_unrecorded,
\* update, adopt).
AnswersCurrent ==
  answer # None =>
    /\ answer.is \in {"present", "refused", "current", "adopted"} => answer.app \in seen
    /\ answer.is = "absent" => answer.app \in missed
    /\ answer.is = "installed" /\ ~insist => answer.app \in missed
=============================================================================
