----------------------------- MODULE LegacyLinter -----------------------------
(***************************************************************************)
(* Linting without the language server (packages/vscode-ruby-client/src):  *)
(* lint/lintCollection.ts, lint/lib/linter.js, lint/lib/lintResults.js and *)
(* their registration in providers/linters.ts.                             *)
(*                                                                         *)
(* One file in a visible editor is modelled.  Each time it is opened it is *)
(* a new document, and each document that is linted gets a Linter of its   *)
(* own; all Linters share the configuration and the results.  A linter     *)
(* reads the text from its standard input, as rubocop, reek and ruby do.   *)
(* The branch of _runLinters for temporary files is never taken: it asks   *)
(* for svc.tmp, the linters set temp.                                      *)
(***************************************************************************)
EXTENDS Naturals, Sequences, Bags

CONSTANTS
    Linters,    \* the names used under ruby.lint
    Unknown,    \* those that lintBuilders does not have
    MaxEdits,   \* bound on the versions of the text
    MaxDocs,    \* bound on the times the file is opened
    MaxChanges  \* bound on changes of the configuration and of the active editor

ASSUME LinterAssumption == Unknown \subseteq Linters
ASSUME BoundAssumption  ==
    MaxEdits \in Nat \ {0} /\ MaxDocs \in Nat \ {0} /\ MaxChanges \in Nat

VARIABLES
    (* the editor *)
    text,     \* the version of the text of each document; the last one is open
    version,  \* the versions so far
    changes,  \* changes of the configuration and of the active editor so far
    timer,    \* the document that waits for the debounce, 0 without one
    (* LintCollection *)
    on,       \* the keys of _cfg, which the Linters share
    results,  \* the version that each collection of _results is about, 0 without one
    (* the Linters *)
    linters,  \* every Linter that was made; the last one is in _docLinters
    procs,    \* the bag of processes that run
    (* history *)
    forgotten, \* a Linter has deleted the entry of a linter that ran
    thrown     \* _runLinters has thrown

editorVars == <<text, version, changes, timer>>
vars == <<editorVars, on, results, linters, procs, forgotten, thrown>>

Versions == 0..MaxEdits
Docs     == 1..MaxDocs

\* A Linter: its document, the keys of linting, and those that are active and
\* those that pend.
Objects == [doc : Docs, entries : SUBSET Linters,
            active : SUBSET Linters, pend : SUBSET Linters]
Fresh(d) == [doc |-> d, entries |-> {}, active |-> {}, pend |-> {}]

\* A process: the index of its Linter, which linter it is, and the text it reads.
Processes == [by : Nat \ {0}, linter : Linters, of : Versions]

Init ==
    /\ text = <<1>> /\ version = 1 /\ changes = 0 /\ timer = 0
    /\ on \in SUBSET Linters
    /\ results = [l \in Linters |-> 0]
    /\ linters = <<>>
    /\ procs = EmptyBag
    /\ forgotten = FALSE /\ thrown = FALSE

Open == Len(text)

-----------------------------------------------------------------------------
(* linter.js                                                                *)

\* The entries that are not configured any more.
Gone(x, cfg) == x.entries \ cfg

\* Mutant of Due: a linter is run again while it runs.
DueWhileActive(x, cfg) == x.entries \cap cfg \cap x.pend

\* The linters to run.
Due(x, cfg) == (x.entries \cap cfg \cap x.pend) \ x.active

\* The Linter once gone are deleted and due are marked.
After(x, gone, due) ==
    [x EXCEPT !.entries = @ \ gone,
              !.active  = (@ \ gone) \cup due,
              !.pend    = @ \ (gone \cup due)]

\* _runLinters of the i-th Linter in list, while the processes running run.  A
\* name that lintBuilders does not have throws: what the loop did before, in the
\* order of the user's keys, is done, and no process is started.
RunLinters(list, i, cfg, running) ==
    LET x    == list[i]
        gone == Gone(x, cfg)
        due  == Due(x, cfg)
    IN  \/ /\ due \cap Unknown = {}
           /\ linters' = [list EXCEPT ![i] = After(x, gone, due)]
           /\ procs' = running (+) SetToBag([by : {i}, linter : due, of : {text'[x.doc]}])
           /\ forgotten' = (forgotten \/ gone \cap x.active # {})
           /\ UNCHANGED thrown
        \/ /\ due \cap Unknown # {}
           /\ \E some \in SUBSET gone, begun \in SUBSET (due \ Unknown) :
                 /\ linters' = [list EXCEPT ![i] = After(x, some, begun)]
                 /\ forgotten' = (forgotten \/ some \cap x.active # {})
           /\ procs' = running
           /\ thrown' = TRUE

\* Linter.run: every linter of the configuration pends.
Pending(x, cfg) == [x EXCEPT !.entries = @ \cup cfg, !.pend = @ \cup cfg]

\* Mutants of Final: the linter stays active; a change made meanwhile is lost.
FinalKeepingActive(p, failed, running) ==
    IF p.linter \in linters[p.by].entries /\ (failed \/ p.linter \in linters[p.by].pend)
    THEN RunLinters(linters, p.by, on, running)
    ELSE procs' = running /\ UNCHANGED <<linters, forgotten, thrown>>

FinalForgettingPend(p, failed, running) ==
    /\ linters' = [linters EXCEPT ![p.by].active = @ \ {p.linter}]
    /\ procs' = running
    /\ UNCHANGED <<forgotten, thrown>>

\* What follows the update: the linter is not active any more, and _runLinters is
\* called when it pends or has failed.  Without an entry the continuation throws
\* before it does anything.
Final(p, failed, running) ==
    IF p.linter \in linters[p.by].entries
    THEN LET list == [linters EXCEPT ![p.by].active = @ \ {p.linter}]
         IN  IF failed \/ p.linter \in linters[p.by].pend
             THEN RunLinters(list, p.by, on, running)
             ELSE linters' = list /\ procs' = running /\ UNCHANGED <<forgotten, thrown>>
    ELSE procs' = running /\ UNCHANGED <<linters, forgotten, thrown>>

\* LintCollection._update: the result takes the place of what was shown, in a new
\* collection if there is none.  A failure drops what was shown.
Update(p) == results' = [results EXCEPT ![p.linter] = p.of]

\* A process is over.  It may have failed: it could not be run, or its output, read
\* when 'exit' is emitted, was not complete and could not be parsed.
ProcessEnds(p, failed) ==
    /\ BagIn(p, procs)
    /\ Update(p)
    /\ UNCHANGED <<editorVars, on>>
    /\ Final(p, failed, procs (-) SetToBag({p}))

-----------------------------------------------------------------------------
(* LintCollection and the events of providers/linters.ts                    *)

\* LintCollection.run: a Linter for another document is replaced.
Run(d, cfg) ==
    LET list == IF linters # <<>> /\ linters[Len(linters)].doc = d
                THEN linters ELSE Append(linters, Fresh(d))
        i    == Len(list)
    IN  RunLinters([list EXCEPT ![i] = Pending(list[i], cfg)], i, cfg, procs)

\* onDidChangeTextDocument: linting is put off until typing has stopped.
Edit ==
    /\ version < MaxEdits
    /\ version' = version + 1
    /\ text' = [text EXCEPT ![Open] = version + 1]
    /\ timer' = Open
    /\ UNCHANGED <<changes, on, results, linters, procs, forgotten, thrown>>

Debounced ==
    /\ timer # 0
    /\ timer' = 0
    /\ UNCHANGED <<text, version, changes, on, results>>
    /\ Run(timer, on)

\* The file is closed and opened: a new document in the active editor.
Reopen ==
    /\ Len(text) < MaxDocs /\ version < MaxEdits
    /\ version' = version + 1
    /\ text' = Append(text, version + 1)
    /\ UNCHANGED <<changes, timer, on, results>>
    /\ Run(Len(text) + 1, on)

\* onDidChangeActiveTextEditor, and the documents open at registration.
Activate ==
    /\ changes < MaxChanges
    /\ changes' = changes + 1
    /\ UNCHANGED <<text, version, timer, on, results>>
    /\ Run(Open, on)

\* Mutant: the collection of a linter that is switched off is kept.
ChangeConfigurationKeeping(cfg) ==
    /\ changes < MaxChanges
    /\ changes' = changes + 1
    /\ on' = cfg
    /\ UNCHANGED <<text, version, timer, results>>
    /\ Run(Open, cfg)

\* onDidChangeConfiguration: the collections of linters that are switched off are
\* disposed of, and the visible documents linted.
ChangeConfiguration(cfg) ==
    /\ changes < MaxChanges
    /\ changes' = changes + 1
    /\ on' = cfg
    /\ results' = [l \in Linters |-> IF l \in on \ cfg THEN 0 ELSE results[l]]
    /\ UNCHANGED <<text, version, timer>>
    /\ Run(Open, cfg)

Next ==
    \/ Edit \/ Debounced \/ Reopen \/ Activate
    \/ \E cfg \in SUBSET Linters : ChangeConfiguration(cfg)
    \/ \E p \in BagToSet(procs), failed \in BOOLEAN : ProcessEnds(p, failed)

Spec == Init /\ [][Next]_vars

-----------------------------------------------------------------------------
(* Properties.                                                              *)

\* Types; what is active or pends has an entry.
TypeOK ==
    /\ text \in Seq(Versions) /\ Len(text) \in Docs
    /\ version \in Versions /\ changes \in 0..MaxChanges /\ timer \in 0..MaxDocs
    /\ on \in SUBSET Linters
    /\ results \in [Linters -> Versions]
    /\ linters \in Seq(Objects)
    /\ \A i \in 1..Len(linters) :
          linters[i].active \cup linters[i].pend \subseteq linters[i].entries
    /\ IsABag(procs) /\ BagToSet(procs) \subseteq Processes
    /\ forgotten \in BOOLEAN /\ thrown \in BOOLEAN

\* One document, of which no Linter was replaced.
OneLinter == Len(linters) = 1

Quiet == procs = EmptyBag /\ timer = 0

Runs(i, l) == {p \in BagToSet(procs) : p.by = i /\ p.linter = l}

\* linter.js:138-150 - active tells whether a process of the linter runs, however
\* edits, changes of the configuration, retries and exits follow each other: none
\* runs twice, and none is blocked for ever by a process that is over.  The two
\* exceptions: an entry deleted under a running process, and a name that throws.
ActiveIsRunning ==
    (~forgotten /\ ~thrown) =>
        \A i \in 1..Len(linters), l \in Linters :
            IF l \in linters[i].active
            THEN \E p \in Runs(i, l) : Runs(i, l) = {p} /\ procs[p] = 1
            ELSE Runs(i, l) = {}

\* linter.js:31-35, 150-152 - a change made while a linter runs is not lost: at rest
\* the last process of every linter that is on, failed or not, had the present text.
LatestText ==
    (Quiet /\ OneLinter /\ ~forgotten /\ ~thrown) =>
        \A l \in on : results[l] = text[Open]

\* lintCollection.ts:42-51 - a linter that is off shows nothing, unless it ran when
\* it was switched off.
OffIsClear ==
    (OneLinter /\ ~forgotten /\ ~thrown) =>
        \A l \in Linters \ on : results[l] = 0

\* A result never gives way to one of an older text, unless the file was opened
\* again or an entry was deleted under a running process.
ResultsInOrder ==
    [][(OneLinter' /\ ~forgotten) =>
           \A l \in Linters : results'[l] # 0 => results'[l] >= results[l]]_vars
=============================================================================
