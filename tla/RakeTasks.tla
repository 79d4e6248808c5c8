----------------------------- MODULE RakeTasks -----------------------------
(***************************************************************************)
(* The provider of rake tasks:                                             *)
(* packages/vscode-ruby-client/src/task/rake.ts.                           *)
(*                                                                         *)
(* `rake -AT` lists the tasks; its promise is kept until the watcher       *)
(* reports a change of a Rakefile.  Tasks may also be defined in files     *)
(* that the Rakefile loads, which the glob of the watcher does not match.  *)
(*                                                                         *)
(* A file is what its last change left: a version, or Gone.  Tasks are     *)
(* those of the versions that rake has read.                               *)
(***************************************************************************)
EXTENDS Naturals

CONSTANT MaxVersion    \* bound: versions of a file

ASSUME VersionsAssumption == MaxVersion \in Nat

VARIABLES rakefile,      \* the Rakefile
          version,       \* changes of the Rakefile so far
          loaded,        \* version of a file it loads
          creations,     \* events of the watcher under way: a Rakefile is new
          changes,       \* the others: it has been changed or deleted
          registration,  \* "searching", "found" or "watching"
          rakeFiles,     \* whether the set has a file
          missed,        \* history: it came after the search, before the watcher
          rake,          \* the process behind rakePromise: NoRake, Reading, or
                         \* the tasks it has read
          rakePromise    \* Undefined, Pending, or the tasks

rakeVars == <<rakefile, version, loaded, creations, changes, registration, rakeFiles,
              missed, rake, rakePromise>>

Gone == 0

Undefined == [kind |-> "undefined"]
Pending == [kind |-> "pending"]
NoTasks == [kind |-> "empty"]       \* there is no Rakefile in the set
Failed == [kind |-> "failed"]       \* emptyTasks as well, of a rake that failed
Tasks(r, l) == [kind |-> "tasks", rakefile |-> r, loaded |-> l]
AllTasks == {Tasks(r, l) : r \in Nat, l \in Nat}

NoRake == [kind |-> "none"]
Reading == [kind |-> "unread"]

RakeTypeOK ==
  /\ version \in Nat /\ rakefile \in {Gone, version} /\ loaded \in Nat
  /\ creations \in Nat /\ changes \in Nat
  /\ registration \in {"searching", "found", "watching"}
  /\ rakeFiles \in BOOLEAN /\ missed \in BOOLEAN
  /\ rake \in {NoRake, Reading, Failed} \cup AllTasks
  /\ rakePromise \in {Undefined, Pending, NoTasks, Failed} \cup AllTasks

RakeInit ==
  /\ version \in {0, 1}
  /\ rakefile = version
  /\ loaded = 0
  /\ creations = 0
  /\ changes = 0
  /\ registration = "searching"
  /\ rakeFiles = FALSE
  /\ missed = FALSE
  /\ rake = NoRake
  /\ rakePromise = Undefined

-----------------------------------------------------------------------------
(* The files.  Only a watcher that exists reports their changes; in which  *)
(* order makes no difference.                                              *)

ChangeRakefile ==
  /\ version < MaxVersion
  /\ version' = version + 1
  /\ rakefile' = version + 1
  /\ IF registration = "watching" /\ rakefile = Gone
       THEN creations' = creations + 1 ELSE UNCHANGED creations
  /\ IF registration = "watching" /\ rakefile # Gone
       THEN changes' = changes + 1 ELSE UNCHANGED changes
  /\ missed' = IF rakefile = Gone THEN registration = "found" ELSE missed
  /\ UNCHANGED <<loaded, registration, rakeFiles, rake, rakePromise>>

RemoveRakefile ==
  /\ rakefile # Gone
  /\ rakefile' = Gone
  /\ changes' = IF registration = "watching" THEN changes + 1 ELSE changes
  /\ UNCHANGED <<version, loaded, creations, registration, rakeFiles, missed, rake, rakePromise>>

ChangeLoaded ==
  /\ loaded < MaxVersion
  /\ loaded' = loaded + 1
  /\ UNCHANGED <<rakefile, version, creations, changes, registration, rakeFiles, missed,
                 rake, rakePromise>>

-----------------------------------------------------------------------------
(* registerTaskProvider: the search is awaited before there is a watcher.  *)

FindFiles ==
  /\ registration = "searching"
  /\ registration' = "found"
  /\ rakeFiles' = (rakefile # Gone)
  /\ UNCHANGED <<rakefile, version, loaded, creations, changes, missed, rake, rakePromise>>

Watch ==
  /\ registration = "found"
  /\ registration' = "watching"
  /\ UNCHANGED <<rakefile, version, loaded, creations, changes, rakeFiles, missed, rake,
                 rakePromise>>

(* Every event forgets the promise; a rake that still runs answers only    *)
(* those who have asked before.                                            *)
Forget ==
  /\ rakePromise' = Undefined
  /\ rake' = NoRake
  /\ UNCHANGED <<rakefile, version, loaded, registration, missed>>

ReportCreation ==
  /\ creations > 0
  /\ creations' = creations - 1
  /\ rakeFiles' = TRUE
  /\ Forget
  /\ UNCHANGED changes

(* Mutant: an event during a run of rake lets the run finish. *)
ReportChangeKeeping ==
  /\ changes > 0
  /\ changes' = changes - 1
  /\ IF rakePromise = Pending
       THEN UNCHANGED <<rakefile, version, loaded, registration, missed, rake, rakePromise>>
       ELSE Forget
  /\ UNCHANGED <<creations, rakeFiles>>

(* Changed or deleted.  The set holds Uri objects: none is ever found to   *)
(* be the one that is deleted.                                             *)
ReportChange ==
  /\ changes > 0
  /\ changes' = changes - 1
  /\ Forget
  /\ UNCHANGED <<creations, rakeFiles>>

(* provideTasks and getRakeTasks up to the process: without a file in the  *)
(* set there is nothing to ask, and the loop over rakeFiles.keys has no    *)
(* iterations.                                                             *)
ProvideTasks ==
  /\ registration = "watching"
  /\ rakePromise = Undefined
  /\ IF rakeFiles THEN rakePromise' = Pending /\ rake' = Reading
                  ELSE rakePromise' = NoTasks /\ UNCHANGED rake
  /\ UNCHANGED <<rakefile, version, loaded, creations, changes, registration, rakeFiles,
                 missed>>

(* rake reads the Rakefile and what it loads, or fails.                    *)
ReadRakefile ==
  /\ rake = Reading
  /\ \/ rakefile # Gone /\ rake' = Tasks(rakefile, loaded)
     \/ rake' = Failed
  /\ UNCHANGED <<rakefile, version, loaded, creations, changes, registration, rakeFiles,
                 missed, rakePromise>>

RakeEnds ==
  /\ rake \notin {NoRake, Reading}
  /\ rakePromise' = rake
  /\ rake' = NoRake
  /\ UNCHANGED <<rakefile, version, loaded, creations, changes, registration, rakeFiles,
                 missed>>

RakeNext ==
  \/ ChangeRakefile \/ RemoveRakefile \/ ChangeLoaded
  \/ FindFiles \/ Watch \/ ReportCreation \/ ReportChange
  \/ ProvideTasks \/ ReadRakefile \/ RakeEnds

RakeSpec == RakeInit /\ [][RakeNext]_rakeVars

-----------------------------------------------------------------------------
(* Once the watcher has reported every change, the tasks that are offered  *)
(* are those of the Rakefile as it is: a promise that was being kept while *)
(* it changed is not kept longer, however the change, the event and the    *)
(* end of rake are ordered.  There are none where rake failed, or for a    *)
(* Rakefile that came between the search and the watcher (rake.ts:12-26,   *)
(* 30-33).  Of the loaded file nothing is promised.                        *)
TasksFresh ==
  creations = 0 /\ changes = 0 =>
    /\ rakePromise = NoTasks => rakefile = Gone \/ missed
    /\ rakePromise.kind = "tasks" => rakePromise.rakefile = rakefile
=============================================================================
