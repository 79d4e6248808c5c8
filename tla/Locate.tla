------------------------------- MODULE Locate -------------------------------
(***************************************************************************)
(* The index of symbols behind definitions and workspace symbols:          *)
(* packages/vscode-ruby-client/src/locate/locate.js, as                    *)
(* providers/intellisense.ts drives it.                                    *)
(*                                                                         *)
(* A walk over the project parses every file into the tree; the watcher of *)
(* the editor has files parsed or removed as they change; searches wait    *)
(* for the walk.  Two queues of async run the tasks, which read a file and *)
(* store what they read at different times.                                *)
(*                                                                         *)
(* The symbols of a file are the number of the change it was read at.  A   *)
(* file is there, is gone, or is unreadable: it is listed and found, but   *)
(* reading or parsing it fails.                                            *)
(*                                                                         *)
(* Left out: errors of the listing of the root and of stat other than for  *)
(* a file that is gone, after which the walk only finds less.              *)
(***************************************************************************)
EXTENDS Integers, SequencesExt, Bags

CONSTANTS Files,         \* files of the project
          Nested,        \* those in its subdirectory
          Filtered,      \* those the settings include and exclude leave out
          Concurrency,   \* WALK_CONCURRENCY, SINGLE_FILE_PARSE_CONCURRENCY
          MaxChanges,    \* bound: changes of all files
          MaxWalks       \* bound: walks, one and those of ruby.reloadProject

(* "sub" is the name of the subdirectory, next to the files.               *)
ASSUME FilesAssumption ==
  IsFiniteSet(Files) /\ "sub" \notin Files /\ Nested \subseteq Files /\ Filtered \subseteq Files
ASSUME LimitsAssumption ==
  Concurrency \in Nat \ {0} /\ MaxChanges \in Nat /\ MaxWalks \in Nat \ {0}

VARIABLES disk,      \* per file: its last change, and what is there since
          barred,    \* whether and why a walk does not enter the subdirectory
          events,    \* per file: changes the watcher has yet to report
          tree,      \* per file: the change the tree was last told of
          learned,   \* history, per file: the newest change the tree was told of
          parsing,   \* parseQueue
          walking,   \* walkQueue
          strays,    \* running tasks of walk queues that were killed
          walks,     \* walks so far
          walked,    \* walkPromise is resolved
          since,     \* history: the files' changes when the walk began
          search     \* a search: "none", "waiting", "orphaned" or "answered"

locateVars == <<disk, barred, events, tree, learned, parsing, walking, strays, walks,
                walked, since, search>>

States == {"here", "unreadable", "gone"}

(* A file that is left out is never read.                                  *)
StatesOf(f) == IF f \in Filtered THEN {"here", "gone"} ELSE States

Changes == [at : 0 .. MaxChanges, is : States]

Untold == [at |-> -1, is |-> "gone"]

(* The symbols the tree has of a file: it keeps none of a file that is not *)
(* there or could not be read.                                             *)
Absent == -1

Entry(f) == IF tree[f].is = "here" THEN tree[f].at ELSE Absent

(* Files of a subdirectory that a walk does not enter.                     *)
Barred(f) == barred # "no" /\ f \in Nested

(* A task: the listing of a directory, the node of a directory, or a file  *)
(* that is to be looked at, to be read, or has been read.                  *)
DirTask(name) == [kind |-> "dir", of |-> name]
NodeTask(name) == [kind |-> "node", of |-> name]
ReadTask(f) == [kind |-> "read", of |-> f]
StoreTask(f, change) == [kind |-> "store", of |-> f, seen |-> change]

EmptyQueue == [tasks |-> <<>>, running |-> EmptyBag]

TypeOK ==
  /\ disk \in [Files -> Changes]
  /\ events \in [Files -> Seq(Changes)]
  /\ barred \in {"no", "excluded", "unlisted"}
  /\ tree \in [Files -> Changes \cup {Untold}]
  /\ \A f \in Filtered : Entry(f) = Absent
  /\ learned \in [Files -> -1 .. MaxChanges]
  /\ \A q \in {parsing, walking} : BagCardinality(q.running) <= Concurrency
  /\ BagToSet(parsing.running) \subseteq
       [kind : {"read"}, of : Files] \cup [kind : {"store"}, of : Files, seen : Changes]
  /\ walks \in 1 .. MaxWalks
  /\ walked \in BOOLEAN
  /\ since \in [Files -> Changes]
  /\ search \in {"none", "waiting", "orphaned", "answered"}

LocateInit ==
  /\ disk \in [Files -> {c \in Changes : c.at = 0}]
  /\ \A f \in Files : disk[f].is \in StatesOf(f)
  /\ events = [f \in Files |-> <<>>]
  /\ barred \in {"no", "excluded", "unlisted"}
  /\ tree = [f \in Files |-> Untold]
  /\ learned = [f \in Files |-> Untold.at]
  /\ parsing = EmptyQueue
  /\ walking = [EmptyQueue EXCEPT !.tasks = <<DirTask("root")>>]
  /\ strays = EmptyBag
  /\ walks = 1
  /\ walked = FALSE
  /\ since = disk
  /\ search = "none"

-----------------------------------------------------------------------------
(* async.queue: tasks start in order, up to the concurrency, and end in    *)
(* any.                                                                    *)

Pushed(q, tasks) == [q EXCEPT !.tasks = @ \o tasks]

CanStart(q) == q.tasks # <<>> /\ BagCardinality(q.running) < Concurrency

Started(q) ==
  [tasks |-> Tail(q.tasks), running |-> q.running (+) SetToBag({Head(q.tasks)})]

Replaced(b, old, new) == (b (-) SetToBag({old})) (+) SetToBag({new})

Idle(q) == q.tasks = <<>> /\ q.running = EmptyBag

-----------------------------------------------------------------------------
(* The file system and the watcher of the editor, which reports the        *)
(* changes of a file in order.                                             *)

Change(f, state) ==
  /\ FoldFunction(LAMBDA c, n : c.at + n, 0, disk) < MaxChanges
  /\ state # "gone" \/ disk[f].is # "gone"
  /\ disk' = [disk EXCEPT ![f] = [at |-> @.at + 1, is |-> state]]
  /\ events' = [events EXCEPT ![f] = Append(@, disk'[f])]
  /\ UNCHANGED <<barred, tree, learned, parsing, walking, strays, walks, walked, since, search>>

-----------------------------------------------------------------------------
(* What the tree is told of a file: the symbols of a change, or that there *)
(* are none of it.                                                         *)
Tell(f, change) ==
  /\ tree' = [tree EXCEPT ![f] = change]
  /\ learned' = [learned EXCEPT ![f] = IF change.at > @ THEN change.at ELSE @]

(* Mutant: a file that has symbols is not parsed again. *)
ReportOnce(f) ==
  /\ events[f] # <<>>
  /\ events' = [events EXCEPT ![f] = Tail(@)]
  /\ IF Head(events[f]).is # "gone"
       THEN /\ parsing' = IF Entry(f) = Absent THEN Pushed(parsing, <<ReadTask(f)>>) ELSE parsing
            /\ UNCHANGED <<tree, learned>>
       ELSE Tell(f, Head(events[f])) /\ UNCHANGED parsing
  /\ UNCHANGED <<disk, barred, walking, strays, walks, walked, since, search>>

(* parse and rm, called by the watcher.                                    *)
Report(f) ==
  /\ events[f] # <<>>
  /\ events' = [events EXCEPT ![f] = Tail(@)]
  /\ IF Head(events[f]).is # "gone"
       THEN parsing' = Pushed(parsing, <<ReadTask(f)>>) /\ UNCHANGED <<tree, learned>>
       ELSE Tell(f, Head(events[f])) /\ UNCHANGED parsing
  /\ UNCHANGED <<disk, barred, walking, strays, walks, walked, since, search>>

-----------------------------------------------------------------------------
(* _parseAsync: the locator reads the file; its result is stored later,    *)
(* and an error, whichever it is, removes the entry.                       *)

ParseStart ==
  /\ CanStart(parsing)
  /\ LET f == Head(parsing.tasks).of
     IN parsing' = IF f \in Filtered THEN [parsing EXCEPT !.tasks = Tail(@)] ELSE Started(parsing)
  /\ UNCHANGED <<disk, barred, events, tree, learned, walking, strays, walks, walked, since, search>>

ParseRead(f) ==
  /\ BagIn(ReadTask(f), parsing.running)
  /\ parsing' = [parsing EXCEPT !.running = Replaced(@, ReadTask(f), StoreTask(f, disk[f]))]
  /\ UNCHANGED <<disk, barred, events, tree, learned, walking, strays, walks, walked, since, search>>

ParseStore(f, change) ==
  /\ BagIn(StoreTask(f, change), parsing.running)
  /\ Tell(f, change)
  /\ parsing' = [parsing EXCEPT !.running = @ (-) SetToBag({StoreTask(f, change)})]
  /\ UNCHANGED <<disk, barred, events, walking, strays, walks, walked, since, search>>

-----------------------------------------------------------------------------
(* The walk.  A task that is over may be the last of the queue: drain      *)
(* resolves walkPromise, and the searches that wait go on.                 *)

Drain ==
  IF Idle(walking')
    THEN walked' = TRUE /\ search' = IF search = "waiting" THEN "answered" ELSE search
    ELSE UNCHANGED <<walked, search>>

(* A running task of the walk is over and pushes others, or of a killed    *)
(* queue, whose tasks are still pushed to the current one.                 *)
Over(task, tasks) ==
  \/ /\ BagIn(task, walking.running)
     /\ walking' = [Pushed(walking, tasks) EXCEPT !.running = @ (-) SetToBag({task})]
     /\ Drain
     /\ UNCHANGED strays
  \/ /\ BagIn(task, strays)
     /\ strays' = strays (-) SetToBag({task})
     /\ walking' = Pushed(walking, tasks)
     /\ UNCHANGED <<walked, search>>

(* A running task goes on. *)
On(task, new) ==
  /\ \/ /\ BagIn(task, walking.running)
        /\ walking' = [walking EXCEPT !.running = Replaced(@, task, new)]
        /\ UNCHANGED strays
     \/ /\ BagIn(task, strays)
        /\ strays' = Replaced(strays, task, new)
        /\ UNCHANGED walking
  /\ UNCHANGED <<walked, search>>

WalkStart ==
  /\ CanStart(walking)
  /\ walking' = Started(walking)
  /\ UNCHANGED <<disk, barred, events, tree, learned, parsing, strays, walks, walked, since, search>>

(* _walkDir lists a directory: its files in some order, and in the root    *)
(* the subdirectory as well.  A directory that cannot be listed has none.  *)
InDir(dir) == IF dir = "root" THEN Files \ Nested ELSE Nested

Listing(dir) ==
  {f \in InDir(dir) : disk[f].is # "gone" /\ ~(dir = "sub" /\ barred = "unlisted")} \cup
    (IF dir = "root" /\ Nested # {} THEN {"sub"} ELSE {})

WalkDir(dir) ==
  /\ \E names \in SetToSeqs(Listing(dir)) :
       Over(DirTask(dir), [i \in DOMAIN names |-> NodeTask(names[i])])
  /\ UNCHANGED <<disk, barred, events, tree, learned, parsing, walks, since>>

(* Mutant: the task of a file does not wait for its symbols. *)
WalkNodeAtOnce(name) ==
  /\ IF name = "sub"
       THEN /\ Over(NodeTask(name), IF barred = "excluded" THEN <<>> ELSE <<DirTask("sub")>>)
            /\ UNCHANGED parsing
     ELSE /\ Over(NodeTask(name), <<>>)
          /\ parsing' = IF disk[name].is # "gone" THEN Pushed(parsing, <<ReadTask(name)>>) ELSE parsing
  /\ UNCHANGED <<disk, barred, events, tree, learned, walks, since>>

(* _walkNode: stat tells a directory, which the exclude setting may keep   *)
(* out as well, from a file, and from one that is gone; the tree keeps     *)
(* what it has of that.                                                    *)
WalkNode(name) ==
  /\ CASE name = "sub" ->
            Over(NodeTask(name), IF barred = "excluded" THEN <<>> ELSE <<DirTask("sub")>>)
       [] name \in Files /\ disk[name].is # "gone" /\ name \notin Filtered ->
            On(NodeTask(name), ReadTask(name))
       [] OTHER -> Over(NodeTask(name), <<>>)
  /\ UNCHANGED <<disk, barred, events, tree, learned, parsing, walks, since>>

WalkRead(f) ==
  /\ On(ReadTask(f), StoreTask(f, disk[f]))
  /\ UNCHANGED <<disk, barred, events, tree, learned, parsing, walks, since>>

WalkStore(f, change) ==
  /\ Over(StoreTask(f, change), <<>>)
  /\ Tell(f, change)
  /\ UNCHANGED <<disk, barred, events, parsing, walks, since>>

(* Mutant: a killed walk does not resolve its promise. *)
WalkUnresolved ==
  /\ walks < MaxWalks
  /\ walks' = walks + 1
  /\ walking' = [EmptyQueue EXCEPT !.tasks = <<DirTask("root")>>]
  /\ strays' = strays (+) walking.running
  /\ walked' = FALSE
  /\ since' = disk
  /\ search' = IF search = "waiting" THEN "orphaned" ELSE search
  /\ UNCHANGED <<disk, barred, events, tree, learned, parsing>>

(* walk: the tasks that wait are dropped with their queue, after its drain *)
(* has been called for those who wait for it; the running ones go on.      *)
Walk ==
  /\ walks < MaxWalks
  /\ walks' = walks + 1
  /\ walking' = [EmptyQueue EXCEPT !.tasks = <<DirTask("root")>>]
  /\ strays' = strays (+) walking.running
  /\ walked' = FALSE
  /\ since' = disk
  /\ search' = IF search = "waiting" THEN "answered" ELSE search
  /\ UNCHANGED <<disk, barred, events, tree, learned, parsing>>

-----------------------------------------------------------------------------
(* find and query wait for the walk, which registration has started.       *)
Search ==
  /\ search \in {"none", "answered"}
  /\ search' = IF walked THEN "answered" ELSE "waiting"
  /\ search' # search
  /\ UNCHANGED <<disk, barred, events, tree, learned, parsing, walking, strays, walks, walked, since>>

Parsing ==
  \/ ParseStart
  \/ \E f \in Files : ParseRead(f) \/ \E change \in Changes : ParseStore(f, change)

Walking ==
  \/ WalkStart
  \/ \E dir \in {"root", "sub"} : WalkDir(dir)
  \/ \E name \in Files \cup {"sub"} : WalkNode(name)
  \/ \E f \in Files : WalkRead(f) \/ \E change \in Changes : WalkStore(f, change)

LocateNext ==
  \/ \E f \in Files : Report(f) \/ \E state \in StatesOf(f) : Change(f, state)
  \/ Parsing \/ Walking \/ Walk \/ Search

(* The queues go on as long as they have tasks: Node calls every callback. *)
LocateFairness == WF_locateVars(Walking)

LocateSpec == LocateInit /\ [][LocateNext]_locateVars

-----------------------------------------------------------------------------
Quiet(f) ==
  /\ events[f] = <<>>
  /\ Idle(parsing) /\ Idle(walking) /\ strays = EmptyBag

(* What the tree was told last is older than what it was told before: a    *)
(* task has been overtaken by one that read the file later (locate.js:131, *)
(* 145).                                                                   *)
Overtaken(f) == tree[f] # Untold /\ tree[f].at < learned[f]

(* The symbols of the file as it is. *)
Present(f) == IF disk[f].is = "here" /\ f \notin Filtered THEN disk[f].at ELSE Absent

(* When nothing is under way, the tree has the symbols of the file as it   *)
(* is.  Two things are excused: a task that was overtaken, the only way to *)
(* a stale index, and a file in a directory that is not walked, which is   *)
(* not in the index until the watcher reports a change of it               *)
(* (locate.js:122-140, 174).                                               *)
IndexFollows ==
  \A f \in Files :
    Quiet(f) =>
      \/ Entry(f) = Present(f)
      \/ Overtaken(f)
      \/ Barred(f) /\ disk[f].at = 0 /\ Entry(f) = Absent

(* What a search finds after the walk: the present symbols of every file   *)
(* that has not changed since the walk began, even when the walk has       *)
(* replaced another one.  The exception is a file that changed earlier and *)
(* whose older symbols, or absence, a task told the tree last: a task of   *)
(* the walk that was killed may do so after the new walk is over           *)
(* (locate.js:131, 142-152, 187).                                          *)
SearchesComplete ==
  walked =>
    \A f \in Files \ Filtered :
      since[f] = disk[f] /\ disk[f].is = "here" /\ ~Barred(f) =>
        tree[f] = disk[f] \/ Overtaken(f)

(* Every search is answered, also one that waits for a walk that is        *)
(* replaced (locate.js:145).                                               *)
SearchesAnswered == search \in {"waiting", "orphaned"} ~> search = "answered"
=============================================================================
