----------------------------- MODULE LintPipeline -----------------------------
(***************************************************************************)
(* Linting in the language server (packages/language-server-ruby/src):     *)
(* the events of DocumentManager.ts, the switchMap of Linter.ts over the   *)
(* events of all documents, the configuration it takes from                *)
(* SettingsCache.ts, and the linters that forkJoin puts together.          *)
(*                                                                         *)
(* Server and editor talk over two FIFO channels.  The server is a single  *)
(* event loop that runs a message and all the promises it resolves before  *)
(* the next message; a linter is a child process that ends at any time.    *)
(* The documents and the caches start empty, ConfigurationProvider is      *)
(* registered.  loadEnv runs its shell synchronously, so the environment   *)
(* takes no step of its own; it fails, if it does, when a configuration    *)
(* that was fetched is used for the first time.                            *)
(***************************************************************************)
EXTENDS Naturals, Sequences

CONSTANTS
    Files,       \* the documents
    Linters,     \* the names used under ruby.lint
    Supported,   \* those in LINTER_MAP
    Missing,     \* those whose command is not installed
    Settings,    \* the configurations the user chooses from
    Failing,     \* whether fetching a configuration or loading the environment
                 \* may fail
    MaxEdits,    \* bound on opening, changing and closing documents
    MaxChanges   \* bound on changes of the configuration

\* A configuration: the linters whose value is not false, those of them
\* without an executionRoot, and whether the workspace has a folder.
AllSettings == [on : SUBSET Linters, rootless : SUBSET Linters, folder : BOOLEAN]

ASSUME LinterAssumption   == Supported \subseteq Linters /\ Missing \subseteq Linters
ASSUME SettingsAssumption == Settings \subseteq AllSettings
ASSUME FailingAssumption  == Failing \in BOOLEAN
ASSUME BoundAssumption    == MaxEdits \in Nat /\ MaxChanges \in Nat

VARIABLES
    (* the editor *)
    text,       \* the version of each document, 0 when closed
    setting,    \* the configuration of the user
    shown,      \* the diagnostics it shows for each document
    edits,      \* events of documents so far
    changes,    \* changes of the configuration so far
    (* the channels *)
    toServer,
    toClient,
    (* the server *)
    documents,  \* documents of DocumentManager: their version, 0 when closed
    cache,      \* documentConfigurationCache: the set of values under a key
    fetched,    \* calls of the fetcher so far
    job,        \* the inner observable of the switchMap
    alive,      \* the outer stream has not failed
    (* history *)
    sent,       \* the diagnostics last sent for each document
    focus,      \* the document of the last event
    muted       \* its lint found no linter that is on

editorVars  == <<text, setting, shown, edits, changes>>
historyVars == <<sent, focus, muted>>
vars == <<editorVars, toServer, toClient, documents, cache, fetched, job, alive, historyVars>>

\* Diagnostics are the version they are about and the linters they come from.
Versions    == 0..MaxEdits
Diagnostics == [of : Versions, found : SUBSET Linters]
Cleared     == [of |-> 0, found |-> {}]

NoJob == [stage |-> "none"]
Jobs  == {NoJob}
         \cup [stage : {"settings"}, file : Files, id : Nat]
         \cup [stage : {"linting"}, file : Files, of : Versions,
               running : (SUBSET Linters) \ {{}}, found : SUBSET Linters]

DocumentMessages == [type : {"didOpen", "didChange"}, file : Files, version : 1..MaxEdits]
                    \cup [type : {"didClose"}, file : Files, version : {0}]
Responses        == [type : {"response"}, file : Files, id : Nat, value : Settings]
ConfigMessage    == [type |-> "didChangeConfiguration"]
ServerMessages   == DocumentMessages \cup Responses \cup {ConfigMessage}
ClientMessages   == [type : {"request"}, file : Files, id : Nat]
                    \cup [type : {"diagnostics"}, file : Files, list : Diagnostics]

Init ==
    /\ text = [f \in Files |-> 0]
    /\ setting \in Settings
    /\ shown = [f \in Files |-> Cleared]
    /\ edits = 0 /\ changes = 0
    /\ toServer = <<>> /\ toClient = <<>>
    /\ documents = [f \in Files |-> 0]
    /\ cache = [f \in Files |-> {}]
    /\ fetched = 0
    /\ job = NoJob
    /\ alive = TRUE
    /\ sent = [f \in Files |-> Cleared]
    /\ focus = {}
    /\ muted = FALSE

-----------------------------------------------------------------------------
(* The editor.                                                             *)

Notify(type, f, v) ==
    /\ edits < MaxEdits
    /\ edits' = edits + 1
    /\ text' = [text EXCEPT ![f] = v]
    /\ toServer' = Append(toServer, [type |-> type, file |-> f, version |-> v])
    /\ UNCHANGED <<setting, shown, changes, toClient, documents, cache, fetched,
                   job, alive, historyVars>>

OpenDocument(f)   == text[f] = 0 /\ Notify("didOpen", f, edits + 1)
ChangeDocument(f) == text[f] # 0 /\ Notify("didChange", f, edits + 1)
CloseDocument(f)  == text[f] # 0 /\ Notify("didClose", f, 0)

ChangeSettings(s) ==
    /\ changes < MaxChanges
    /\ s # setting
    /\ changes' = changes + 1
    /\ setting' = s
    /\ toServer' = Append(toServer, ConfigMessage)
    /\ UNCHANGED <<text, shown, edits, toClient, documents, cache, fetched, job,
                   alive, historyVars>>

\* workspace/configuration is answered at once, out of the configuration as
\* it is now (the middleware of client.ts).
AnswerRequest ==
    /\ toClient # <<>>
    /\ LET m == Head(toClient)
       IN  /\ m.type = "request"
           /\ toServer' = Append(toServer, [type |-> "response", file |-> m.file,
                                            id |-> m.id, value |-> setting])
    /\ toClient' = Tail(toClient)
    /\ UNCHANGED <<editorVars, documents, cache, fetched, job, alive, historyVars>>

ShowDiagnostics ==
    /\ toClient # <<>>
    /\ LET m == Head(toClient)
       IN  /\ m.type = "diagnostics"
           /\ shown' = [shown EXCEPT ![m.file] = m.list]
    /\ toClient' = Tail(toClient)
    /\ UNCHANGED <<text, setting, edits, changes, toServer, documents, cache,
                   fetched, job, alive, historyVars>>

Editor ==
    \/ \E f \in Files : OpenDocument(f) \/ ChangeDocument(f) \/ CloseDocument(f)
    \/ \E s \in Settings : ChangeSettings(s)
    \/ AnswerRequest
    \/ ShowDiagnostics

-----------------------------------------------------------------------------
(* One lint: lint() of Linter.ts once the configuration s is there.         *)

\* getLinter reads executionRoot of every supported linter, unless the
\* workspace has no folder.
Throws(s) == s.folder /\ s.on \cap Supported \cap s.rootless # {}

\* The linters that run a process; the others are a NullLinter.
Started(s) == IF s.folder THEN s.on \cap Supported ELSE {}

Send(f, list) ==
    /\ sent' = [sent EXCEPT ![f] = list]
    /\ toClient' = Append(toClient, [type |-> "diagnostics", file |-> f, list |-> list])

\* The text v of document f is linted with configuration s.
Begin(f, v, s) ==
    /\ muted' = (s.on = {})
    /\ \/ /\ Throws(s)
          /\ alive' = FALSE
          /\ job' = NoJob
          /\ UNCHANGED <<sent, toClient>>
       \/ /\ s.on = {}                        \* forkJoin of nothing
          /\ job' = NoJob
          /\ UNCHANGED <<alive, sent, toClient>>
       \/ /\ s.on # {} /\ Started(s) = {}     \* only NullLinters
          /\ job' = NoJob
          /\ Send(f, [of |-> v, found |-> {}])
          /\ UNCHANGED alive
       \/ /\ ~Throws(s) /\ Started(s) # {}
          /\ job' = [stage |-> "linting", file |-> f, of |-> v,
                     running |-> Started(s), found |-> {}]
          /\ UNCHANGED <<alive, sent, toClient>>

-----------------------------------------------------------------------------
(* The messages of the editor.                                              *)

Take(type) ==
    /\ toServer # <<>>
    /\ Head(toServer).type = type
    /\ toServer' = Tail(toServer)

\* The calls of the fetcher by the next gets that miss the cache.
Requests(f, gets) == [n \in 1..gets |-> [type |-> "request", file |-> f, id |-> fetched + n]]

\* An event that opens or changes f: the switchMap drops the previous job, and
\* the lint of f gets its configuration from the cache or from the editor.  The
\* event of an opened document is emitted twice, as OPEN and as CHANGE_CONTENT
\* (gets = 2), before the first get can have been answered.
Lint(f, v, gets) ==
    /\ \/ /\ cache[f] = {}
          /\ fetched' = fetched + gets
          /\ toClient' = toClient \o Requests(f, gets)
          /\ job' = [stage |-> "settings", file |-> f, id |-> fetched + gets]
          /\ muted' = FALSE
          /\ UNCHANGED <<alive, sent>>
       \/ \E s \in cache[f] : Begin(f, v, s) /\ UNCHANGED fetched

\* A failed stream takes no events.
Ignore == UNCHANGED <<fetched, toClient, job, muted, alive, sent>>

\* TextDocuments keeps the new document and DocumentManager emits its events.
DidOpen ==
    /\ Take("didOpen")
    /\ LET m == Head(toServer)
       IN  /\ documents' = [documents EXCEPT ![m.file] = m.version]
           /\ focus' = {m.file}
           /\ IF alive THEN Lint(m.file, m.version, 2) ELSE Ignore
    /\ UNCHANGED <<editorVars, cache>>

\* Mutant: exhaustMap, which takes no other event before a lint is done.
DidChangeExhausting ==
    /\ Take("didChange")
    /\ LET m == Head(toServer)
       IN  /\ documents' = [documents EXCEPT ![m.file] = m.version]
           /\ focus' = {m.file}
           /\ IF alive /\ job = NoJob THEN Lint(m.file, m.version, 1) ELSE Ignore
    /\ UNCHANGED <<editorVars, cache>>

DidChange ==
    /\ Take("didChange")
    /\ LET m == Head(toServer)
       IN  /\ documents' = [documents EXCEPT ![m.file] = m.version]
           /\ focus' = {m.file}
           /\ IF alive THEN Lint(m.file, m.version, 1) ELSE Ignore
    /\ UNCHANGED <<editorVars, cache>>

\* The lint of a closed document is an argument of iif that is not used: its get
\* asks for the configuration all the same, and no one waits for the answer.
Clear(f) ==
    /\ muted' = FALSE
    /\ sent' = [sent EXCEPT ![f] = Cleared]
    /\ LET gets == IF cache[f] = {} THEN 1 ELSE 0
       IN  /\ fetched' = fetched + gets
           /\ toClient' = toClient \o Requests(f, gets)
                          \o <<[type |-> "diagnostics", file |-> f, list |-> Cleared]>>

DidClose ==
    /\ Take("didClose")
    /\ LET m == Head(toServer)
       IN  /\ documents' = [documents EXCEPT ![m.file] = 0]
           /\ focus' = {m.file}
           /\ IF alive
              THEN Clear(m.file) /\ job' = NoJob /\ UNCHANGED alive
              ELSE Ignore
    /\ UNCHANGED <<editorVars, cache>>

\* Mutant: the cache is not flushed.
DidChangeConfigurationKeeping ==
    /\ Take("didChangeConfiguration")
    /\ UNCHANGED <<editorVars, toClient, documents, cache, fetched, job, alive, historyVars>>

\* ConfigurationProvider flushes the cache; the callback only sets a log level.
DidChangeConfiguration ==
    /\ Take("didChangeConfiguration")
    /\ cache' = [f \in Files |-> {}]
    /\ UNCHANGED <<editorVars, toClient, documents, fetched, job, alive, historyVars>>

\* Mutant: the get that waits is not the one that is resolved.
ResponseUnheard ==
    /\ Take("response")
    /\ LET m == Head(toServer) IN cache' = [cache EXCEPT ![m.file] = {m.value}]
    /\ UNCHANGED <<editorVars, toClient, documents, fetched, job, alive, historyVars>>

\* Mutant: a lint that was dropped goes on when another one waits.
ResponseToAnyone ==
    /\ Take("response")
    /\ LET m == Head(toServer)
       IN  /\ cache' = [cache EXCEPT ![m.file] = {m.value}]
           /\ IF job.stage = "settings"
              THEN Begin(m.file, documents[m.file], m.value) /\ UNCHANGED fetched
              ELSE Ignore
    /\ UNCHANGED <<editorVars, documents, focus>>

\* SettingsCache.get goes on: the value is stored and, unless the switchMap has
\* dropped it meanwhile, the lint that waits for it begins.
Response ==
    /\ Take("response")
    /\ LET m == Head(toServer)
       IN  /\ cache' = [cache EXCEPT ![m.file] = {m.value}]
           /\ IF job.stage = "settings" /\ job.id = m.id
              THEN Begin(m.file, documents[m.file], m.value) /\ UNCHANGED fetched
              ELSE Ignore
    /\ UNCHANGED <<editorVars, documents, focus>>

\* The configuration could not be fetched and is not stored, or it was but
\* loadEnv throws (environment.ts:185-198): a lint that waits for it ends the
\* whole stream.
ResponseFails ==
    /\ Failing
    /\ Take("response")
    /\ LET m == Head(toServer)
       IN  /\ \/ UNCHANGED cache
              \/ cache' = [cache EXCEPT ![m.file] = {m.value}]
           /\ IF job.stage = "settings" /\ job.id = m.id
              THEN /\ job' = NoJob /\ alive' = FALSE
                   /\ UNCHANGED <<fetched, toClient, sent, muted>>
              ELSE Ignore
    /\ UNCHANGED <<editorVars, documents, focus>>

-----------------------------------------------------------------------------
(* The linters.                                                             *)

\* What is left of the job when linter l has ended.
Ended(l) ==
    [stage   |-> "linting", file |-> job.file, of |-> job.of,
     running |-> job.running \ {l},
     found   |-> IF l \in Missing THEN job.found ELSE job.found \cup {l}]

\* Mutant: merge instead of forkJoin.
LinterEndsMerging(l) ==
    /\ job.stage = "linting"
    /\ l \in job.running
    /\ Send(job.file, [of |-> job.of, found |-> Ended(l).found])
    /\ job' = IF job.running = {l} THEN NoJob ELSE Ended(l)
    /\ UNCHANGED <<editorVars, toServer, documents, cache, fetched, alive, focus, muted>>

\* The process of linter l is over.  A linter that cannot be run, or whose
\* output cannot be parsed, counts as one without findings (BaseLinter.lint).
\* The last one completes the forkJoin.
LinterEnds(l) ==
    /\ job.stage = "linting"
    /\ l \in job.running
    /\ \/ /\ job.running # {l}
          /\ job' = Ended(l)
          /\ UNCHANGED <<toClient, sent>>
       \/ /\ job.running = {l}
          /\ job' = NoJob
          /\ Send(job.file, [of |-> job.of, found |-> Ended(l).found])
    /\ UNCHANGED <<editorVars, toServer, documents, cache, fetched, alive, focus, muted>>

Server == DidOpen \/ DidChange \/ DidClose \/ DidChangeConfiguration \/ Response \/ ResponseFails

Next ==
    \/ Editor
    \/ Server
    \/ \E l \in Linters : LinterEnds(l)

Spec == Init /\ [][Next]_vars

\* Messages are delivered and handled, and a linter that runs ends.
Fairness ==
    /\ WF_vars(Server)
    /\ WF_vars(AnswerRequest) /\ WF_vars(ShowDiagnostics)
    /\ \A l \in Linters : WF_vars(LinterEnds(l))

FairSpec == Spec /\ Fairness

-----------------------------------------------------------------------------
(* Properties.                                                              *)

\* Types; a job that lints still waits for some linter.
TypeOK ==
    /\ text \in [Files -> Versions] /\ documents \in [Files -> Versions]
    /\ setting \in Settings
    /\ shown \in [Files -> Diagnostics] /\ sent \in [Files -> Diagnostics]
    /\ edits \in 0..MaxEdits /\ changes \in 0..MaxChanges /\ fetched \in Nat
    /\ toServer \in Seq(ServerMessages) /\ toClient \in Seq(ClientMessages)
    /\ cache \in [Files -> SUBSET Settings]
    /\ job \in Jobs
    /\ alive \in BOOLEAN /\ muted \in BOOLEAN
    /\ focus \in SUBSET Files

\* SettingsCache.ts:73 - a fetch that is under way while the cache is flushed
\* does not bring back an older configuration: once the server has been told of
\* every change, whatever it has cached is the configuration of the user.
SettingsFresh ==
    (\A i \in 1..Len(toServer) : toServer[i] # ConfigMessage) =>
        \A f \in Files : cache[f] \subseteq {setting}

\* Linter.ts:69 - the diagnostics sent are those of all the linters of one
\* configuration that can be run, never those of a part of them
\* (CHANGELOG.md:115, multiple linters' output at the same time).
AllTogether ==
    \A f \in Files :
        sent[f].of # 0 => \E s \in Settings : sent[f].found = Started(s) \ Missing

\* Behind the answers of the fetcher: each belongs to the lint that waits for it,
FetchesMatch ==
    /\ job.stage = "settings" => job.id <= fetched
    /\ \A i \in 1..Len(toClient) : toClient[i].type = "request" =>
          /\ toClient[i].id <= fetched
          /\ job.stage = "settings" /\ job.id = toClient[i].id => toClient[i].file = job.file
    /\ \A i \in 1..Len(toServer) : toServer[i].type = "response" =>
          /\ toServer[i].id <= fetched
          /\ job.stage = "settings" /\ job.id = toServer[i].id => toServer[i].file = job.file

\* a lint is of the latest event and of the present text of an open document,
JobIsCurrent ==
    job # NoJob =>
        /\ alive
        /\ focus = {job.file}
        /\ documents[job.file] # 0
        /\ job.stage = "linting" => job.of = documents[job.file]

\* and an older configuration on its way is followed by the news of the change.
AnswersOrdered ==
    \A i \in 1..Len(toServer) :
        toServer[i].type = "response" /\ toServer[i].value # setting =>
            \E j \in (i + 1)..Len(toServer) : toServer[j] = ConfigMessage

\* The inductive invariant: what SettingsCache.ts:73 and Linter.ts:82 rely on.
IInv == FetchesMatch /\ JobIsCurrent /\ AnswersOrdered /\ SettingsFresh

\* Linter.ts:82 - when the pipeline is at rest, the document of the latest event
\* has diagnostics of its present text, unless no linter is on.  (Of another
\* document the switchMap may have dropped the lint.)
LatestServed ==
    (alive /\ job = NoJob /\ ~muted) =>
        \A f \in focus : sent[f].of = documents[f]

\* What is sent is of the latest event and of the present text: the pipeline
\* implements the abstract board.
Board == INSTANCE DiagnosticBoard
         WITH text <- documents, over <- ~alive

ImplementsBoard == Board!Spec

\* Edits and changes of the configuration being bounded, the server comes to
\* rest, and the editor then shows what was sent last: no lint waits for
\* settings or linters for ever.
EditorSettles == <>[](job = NoJob /\ shown = sent)

\* docs/linting.md:36 documents "rubocop": true as a way to switch RuboCop on;
\* linting survives it.
LintingSurvives == alive
=============================================================================
