# TLA+ models of vscode-ruby

vscode-ruby is a Visual Studio Code extension for Ruby.  Its packages hold a
debug adapter (`packages/vscode-ruby-debugger`), a language server
(`packages/language-server-ruby`), the extension itself with legacy features
(`packages/vscode-ruby-client`) and the code both share
(`packages/vscode-ruby-common`).  This directory models the parts of them whose
correctness depends on order, on shared state or on failure.  Paths below are
relative to `src/packages`.

## 1. Inventory

| Component | State | Operations | Talks to | What is hard |
|---|---|---|---|---|
| **RubyProcess** `vscode-ruby-debugger/src/ruby.ts` | `state`, `buffer`, `pendingCommands`, `pendingResponses` | `Run`, `Enqueue`, `FinishCmd`, socket callbacks `connect` `data` `end` `close` `error`, process callbacks `exit` `error`, stderr | rdebug-ide over a socket; the debug session by events and promises | replies carry no number; chunks; commands before, during and after the connection; death of the debugger at any point |
| **RubyDebugSession** `vscode-ruby-debugger/src/main.ts` | `_frameId`, `_firstSuspendReceived`, `_existingBreakpoints`, `_activeFileData`, `_variableHandles` | one handler per DAP request, listeners of RubyProcess' events | client (DAP); RubyProcess | continuations that run after later requests; automatic stepping; a cached frame; a cache of breakpoints |
| **Server** `language-server-ruby/src/{index,Server,CapabilityCalculator}.ts` | connection, capabilities | initialize, initialized, shutdown, exit | all of the server | life cycle, release of the forest |
| **DocumentManager, Forest, Analyzer** | open documents, one syntax tree each, analyses by uri | open, change, close; createTree, updateTree, deleteTree, release; analyze | rxjs streams | ownership of trees; an exception ends a stream for all documents; stale analyses |
| **Linter** and `linters/*` | subscription of the `switchMap` | lint a document | settings caches, spawn, client (diagnostics) | one switchMap for all documents; joining linters |
| **SettingsCache** | a map from uri to settings | get, getAll, set, delete, flush | client (configuration), environment | fetches that race with flushes |
| **spawn** `util/spawn.ts` | the child, its input, two pipe ends, `noClose` | subscribe, unsubscribe, data, close, error | child processes; Formatter, Linter | exit, close of either pipe, errors and unsubscription come in any order |
| **Formatter** and `formatters/*` | text at the start of the request | format, range format | settings caches, spawn | output cut short by an error that is accepted; edits computed against a document that may have changed |
| **analyzers** | symbol stack, ranges, the last node | analyze a tree | Forest | one pass over the nodes whose state must fit every nesting |
| **LintCollection, Linter, LintResults** `vscode-ruby-client/src/lint` | per document and linter: `pend`, `active`; diagnostics per linter | run, cfg, update, dispose | child processes, editor | runs that outlive their configuration |
| **Locate** `vscode-ruby-client/src/locate` | the index `tree`, walk and parse queues | walk, parse, rm, find, query | file system | out-of-order parses, killed walks |
| **rake tasks** `vscode-ruby-client/src/task` | `rakeFiles`, `rakePromise` | provideTasks, file events | rake | a cached promise and its invalidation |
| **environment** `vscode-ruby-common/src/environment.ts` | the shim file | loadEnv | a shell, other windows | a file made in three steps by several processes; parsing |
| **RuboCop formatter** `vscode-ruby-client/src/format` | a temporary file | test, correct | RuboCop | a file rewritten in place by a process that may be killed |
| completion, highlight, configuration of the extension; activation | `highlight`: the pairs of one document | | | translation of data |

What makes each of them correct, in one line: RubyProcess – every reply reaches
its command and nothing is lost or left hanging while the connection lives;
session – client and program agree on stopped or running, answers are about the
frame that was asked for, the breakpoints are those of the last request; forest –
one live tree per open document, freed once; linter – the diagnostics shown are
of the current text and configuration; settings cache – no value older than the
last flush; spawn – completed once, after the last output, by the exit status;
formatter – the edits come from the whole output and turn the old text into the new;
analyzers – folds are nested, the outline has the shape of the document; locate – the
index is that of the files on disk once all is quiet, and every search is answered;
rake – the tasks are those of the Rakefile as it is; environment – Ruby's tools get
the variables of the shell; RuboCop formatter – a document is never replaced by half a file.

## 2. Modules

| Module | What it is |
|---|---|
| `CommandChannel` | abstract: what RubyProcess promises to the session |
| `RubyProcess` | the connection in detail, implements `CommandChannel` |
| `RubyProcess_proofs` | theorems about it |
| `Breakpoints` | `setBreakPointsRequest` for one file, on top of the channel |
| `Breakpoints_proofs` | theorems about it |
| `DebugSession` | stops, frames, scopes, evaluation and disconnecting, on top of the channel |
| `DebugSession_proofs` | theorems about it |
| `DiagnosticBoard` | abstract: what linting promises to the editor |
| `LintPipeline` | the language server's linting with its settings cache, implements `DiagnosticBoard` |
| `LintPipeline_proofs` | theorems about it |
| `MCLintPipeline` | documents, linters and configurations for TLC |
| `DocumentForest` | documents, syntax trees, analyses, the requests answered from them, and the server's beginning and end |
| `DocumentForest_proofs` | theorems about it |
| `Spawn` | a child process behind an Observable |
| `Formatting` | a request for formatting, from the configuration to the answer; extends `Spawn` |
| `FormatEdits` | from the formatter's output to edits |
| `FoldingRanges` | the folds of a document |
| `DocumentSymbols` | the outline of a document |
| `DocumentFeatures` | the four before, as what the server computes from one document |
| `DocumentFeatures_proofs` | theorems about `Spawn`, `Formatting`, `FormatEdits`, `FoldingRanges` and `DocumentSymbols` |
| `MCDocumentFeatures` | texts for TLC |
| `LegacyLinter` | the extension's own linting of a file: pending and active linters, one configuration, their results |
| `LegacyLinter_proofs` | theorems about it |
| `Locate` | the index of symbols, its walks, and the searches in it |
| `RakeTasks` | the cached list of rake tasks |
| `Environment` | the shim, and the variables read from the shell's output |
| `AutoCorrect` | the extension's own formatter |
| `WorkspaceFeatures` | the four before, as what the extension keeps of the workspace |
| `WorkspaceFeatures_proofs` | theorems about `Locate`, `RakeTasks`, `Environment` and `AutoCorrect` |
| `MCWorkspaceFeatures` | values of variables for TLC |

The components of `DocumentFeatures` and of `WorkspaceFeatures` share no state in the code.
Each of the two modules lets one of them act, chosen at the start, and leaves the others at
rest: the initial states and the steps are those of the components, and a property of the
whole is one of each.  `Formatting` does contain `Spawn`: the end of the stream and the answer
are one callback.

`Breakpoints` and `DebugSession` use the connection as two FIFO queues whose
replies carry what their continuation closes over.  That is what
`ChannelImplemented` proves of `RubyProcess`: promises settle in the order in
which the commands were issued, each with its own reply.

An operator whose comment begins with "Mutant" is a plausible slip in the
definition that follows it.  Nothing uses it: it is put in the place of that
definition to see that a property notices.

### RubyProcess

Variables named like fields are those fields.  `cut` and `dispatching` stand
for two facts of the `data` callback: that the buffer ends in a fragment, and that
the loop of lines 164-195 is at work, one element per step; no other callback
of the adapter runs until it is done, because the adapter is a single event loop
(`Idle`), while the debugger and the network go on.  An XML element is a record
of the call it answers (0: a stop event) and of the double quotes in its value, which
are all the parser's verdict depends on: all escaped; raw, with one of the two messages the
callback looks for (lines 146-147); or raw with any other message, as it is for a value that
begins with a quote.  `Repair` is the repair of lines 145-158: it finds the value of the first
eval in the buffer, whichever element the message was about.  What xmldom reports of which
value is external, and values that contain the text of an element's end are left out.  `calls`
and `settled` record what the session has asked and got.

`Receive` takes any number of whole elements and perhaps a fragment of the next
off the wire: every way TCP can cut the stream.  `Connect`, `Refused`, `SocketEnd`,
`SocketReset`, `ChildExit`, `SpawnError`, `Banner` and `Access` are the callbacks.
`Answer`, `Obey`, `ObeyQuit`, `Stop` and `Die` are rdebug-ide, as ruby.ts relies on
it: it takes commands in order, answers the awaited ones once and the others not
at all.  The client is restricted to what DAP allows it: it disconnects once
and asks nothing afterwards, and resumes only after it has seen `debuggerConnect`.

### Breakpoints

`reqs[k]` holds the variables the handler's closures capture: `existing` is the
private copy of the cache, `remove` and `add` the arrays `breakpointsToRemove` and
`breakpointsToAdd`, `deleted` and `added` the promises that are resolved, each with its position
in the array of promises and what the reply to it says.  A reply has a number and a location, and nothing
of the breakpoint it is about: `NewEntries` pairs the two arrays by position, as lines 253-264 do.
A reply that completes an array runs its continuation, and the response when both are complete, in
one step (`HandleReply`): the continuations are microtasks of the same callback.  The cache is
a set, so that the order of the breakpoints in a response, which is that of the cache and not
that of the request, is left out.

### DebugSession

`frameId`, `first` and `closed` are the adapter's; `view` is the client's belief;
`run`, `stack` and `selected` are the debugger's.  A file is only what the two lists
of regular expressions make of it.  The halves of the adapter and of the client
that talk to each other without delay are one step; everything between adapter and
debugger is asynchronous.  A stop of the program is an arbitrary stack with an
arbitrary reason; `exception` is treated like `breakpoint`, as in the code.

The continuation of a stack trace (`WhereReply`) answers, gives the session up for lack of frames, or
throws: it reads the line of every frame in a file that may be shorter than what the program
has loaded (lines 322-337, `Editing`).  Such a request is never answered, and `lost` counts it.  When skipFiles
has filtered every frame, the client is offered a synthetic one, frame 0 (`Offered`), and may ask for its
scopes; that rdebug-ide selects no other frame for it is external.  `pauseRequest` is left out.

`overlapped` and `hidden` are history: whether the client has ever asked before
the previous answer was there, and whether a stack trace has ever left out the
current frame.  They name the two circumstances under which `_frameId` may differ
from the frame that is selected; `ScopesUnlessHidden` says that there is no third.

### LintPipeline

`documents`, `cache`, `job` and `alive` are the server's: the documents that
`TextDocuments` keeps, `documentConfigurationCache` (the set of values under a key),
the inner observable of the one `switchMap` (waiting for settings, or for linters)
and whether the outer stream has failed.  `text`, `setting` and `shown` are the
editor's.  `toServer` and `toClient` are the two directions of the connection, both
FIFO.  A configuration is only what the pipeline tells apart: the linters whose value
is not `false`, those of them without an `executionRoot`, and whether the workspace
has a folder.  Diagnostics are the version they are about and the linters they come
from.

| Action | Code |
|---|---|
| `OpenDocument`, `ChangeDocument`, `CloseDocument`, `ChangeSettings`, `AnswerRequest`, `ShowDiagnostics` | the editor; it answers `workspace/configuration` with the configuration of that moment |
| `DidOpen`, `DidChange` | an event of `DocumentManager`, the switch to it, `lint` up to the first wait (`Lint`): a hit of the cache goes on at once, a miss sends a request.  Opening emits two events, hence two requests |
| `DidClose` | the same for a closed document: the diagnostics are cleared, and the `lint` that `iif` does not use still asks for the configuration |
| `Response` | `SettingsCache.get` stores the value; the lint that waits for this very request, if it was not dropped, begins (`Begin`) |
| `ResponseFails` | the fetch is rejected, or `loadEnv` throws behind it: the lint that waits ends the whole stream.  Only with `Failing` |
| `DidChangeConfiguration` | the flush |
| `LinterEnds` | a child process is over; the last one completes the `forkJoin` |

`Begin` has the four ways a lint can go once its configuration is there: `getLinter`
throws, no linter is on (`forkJoin` of nothing completes without a value), all are
`NullLinter`s, or processes are started.  An environment that cannot be loaded although the
configuration was in the cache is left out: it ends the stream as `ResponseFails` does.

### DocumentForest

`documents` are those of `TextDocuments`, `trees` is `forest.trees` as indices into `heap`,
which keeps every tree ever parsed: the version of the text and how often `delete()` was
called on it.  A tree lives in the memory of the WebAssembly parser, where nothing collects
it.  `analyses` is `analyses.analyses`: no value, the analysis of a version, or that of a
closed document, which has no results (`{0}`).  `subscribed` tells whether `analyses` still
listens to `forestStream`.  `toServer` is the connection, FIFO, and every message is handled
to the end before the next, because no handler waits for anything but a resolved promise.

| Action | Code |
|---|---|
| `OpenDocument`, `ChangeDocument`, `CloseDocument`, `Ask`, `Stop`, `Leave` | the editor: a client that waits for 'initialize', and after 'shutdown' sends 'exit' alone |
| `Initialize` | the parser is loaded, then `./Server` with the module-level forest and its subscription |
| `DidOpen`, `DidChange`, `DidClose` | `TextDocuments` emits, `forestStream` parses or deletes, `analyses` analyses, all in one turn; opening emits two events (`Grow` with 2), hence two trees |
| `HandleDocumentSymbol`, `HandleFoldingRange`, `HandleDocumentHighlight` | the three providers |
| `Shutdown`, `Exit` | `server.shutdown()`, both times `forest.release()` |

A document message carries whether the analysis of its text throws: a method called
`attr_x` without arguments makes `RubyDocumentSymbol.build` read `namedChildren` of undefined.
The exception ends the subscription, for all documents; afterwards events pass by (`Ignore`).
`answer` is the last answer, with whether the subscription was alive.

### LegacyLinter

`on` is the set of keys of `LintCollection._cfg`, the one object that all Linters hold;
`results` tells for each linter whether it has a collection, and which version of the text
that is about.  A Linter is a record of its document and of the keys of `linting` with
their two flags; `linters` keeps the replaced ones too, because their processes still call
back.  A process carries the text it was given.

| Action | Code |
|---|---|
| `Edit`, `Debounced` | `onDidChangeTextDocument`; the debounced call, with the document of the last event |
| `Reopen`, `Activate` | `onDidChangeActiveTextEditor` with a new document, or with the one that is open |
| `ChangeConfiguration` | `onDidChangeConfiguration`: `cfg`, then `run` for the visible document |
| `ProcessEnds` | 'exit' or 'error' of a process, `_update`, and the continuation `final` |

The first three call `Run` (`LintCollection.run`, `Linter.run`, `_runLinters`) in the same
step: the promises in between are resolved, and no other event comes before them.  A
process that fails and one whose output could not be parsed, for instance because 'exit'
came before the end of the output, are the same: a result with an `error`.  The linters are
those that read their standard input.  The code has a branch for linters that need a
temporary file, but asks for `svc.tmp` where the linters set `temp`, so it is never taken.
Other files are left out: they share the configuration and the collections, in which each
has its own entry.

`OneLinter`, `forgotten` and `thrown` are the circumstances under which the properties do
not hold: the file was opened again, so that processes of two Linters write the same
entry; an entry was deleted under a running process; a name that is not a linter threw.

### Spawn and Formatting

`child` is the operating system's process, `open` and `written` its pipes, which a descendant
may hold open after it; `read` is what Node has handed to the `data` handlers.  `ended`,
`closed` and `noClose` are `stdoutCompleted`, `stderrCompleted`, `procCompleted` and the local of that
name.  Chunks are counted.

| Action | Code |
|---|---|
| `Subscribe` | `spawn` and the writing of the input; a process that cannot be started is reported later |
| `Write`, `CloseEnd`, `TakeInput`, `Exit` | the process and its descendants |
| `Data`, `PipeClose`, `ProcClose`, `ProcError`, `StdinError` | the handlers; `Finish` is `complete` or `error` with the teardown that rxjs runs for the first of them |
| `Unsubscribe` | the teardown alone; only the linter's `switchMap` does this |
| `GotConfig`, `AnswerAtOnce`, `Start` | `getFormatter` and its early answers |
| `Reject` | the configuration or the environment cannot be had, there is no such document, or the formatter cannot be made |
| `Conclude` | `processError`, `processResults`, the answer: in the callback that ends the stream |

Node reports `close` of the process from within that of the last pipe, before the handler that
spawn.ts has on the pipe, or after the exit: both orders are there, and so is a failed process
that is closed without ever having been started.  `Accepted` says which ends each formatter
takes for a success.  A linter is the fourth kind of user, of which `LintPipeline` sees the end
alone (`LinterEnds`).

### FormatEdits

One step per diff.  The diffs are any sequence of alternating kinds whose equal and deleted
parts make up the captured text; `original` is that text, `document` the one whose
`positionAt` and `offsetAt` are used when the formatter has finished.  `Applied` is what an
editor does with edits in order: it puts them in one behind the other (`Patched`).  `expected` is history: the formatter's output inside the selection,
the original outside.

### FoldingRanges and DocumentSymbols

One step per captured node, or per node of the walk.  `Follows` and `Comes` are the parser's:
which node may come next in a syntax tree, so that TLC meets every tree within the bounds.
A node is its type, its rows or tokens, and what the analyzer asks about it; names, kinds of
symbols and columns are left out, and so are the tokens without width that the parser puts
into incomplete documents, and the exception of a method `attr_x` without arguments, which
`DocumentForest` has.

### Locate

`parsing` and `walking` are the two queues of `async`, `strays` the running tasks of walk queues
that were killed: their results are stored all the same, and the nodes they list are pushed to
the present queue.  A task that reads a file and stores what it read later is two steps.  A change of
a file has a number, and leaves it there, gone, or unreadable (no permission, or a text the parser
fails on); `tree` has the change that the index was told of last, whose symbols are there if the file was
(`Entry`), and `learned` is history, the newest change it was told of.  `Overtaken` is what the two have to do with each
other.  `barred` says that the walk does not enter the subdirectory, because `ruby.locate.exclude` names it or it
cannot be listed; the watcher reports its files nevertheless.  A root that cannot be listed, and errors of `stat`
other than a missing file, are left out.

| Action | Code |
|---|---|
| `Change`, `Report` | the file system, the watcher: `parse` or `rm` |
| `ParseStart`, `ParseRead`, `ParseStore` | `parseQueue` and `_parseAsync` |
| `WalkStart`, `WalkDir`, `WalkNode`, `WalkRead`, `WalkStore` | `walkQueue`, `_walkDir`, `_walkNode`; the last task resolves `walkPromise` (`Drain`) |
| `Walk` | `walk`: the drain handler is called, the queue killed, another one made |
| `Search` | `find`, `query`, which wait for `walkPromise` |

### RakeTasks, Environment, AutoCorrect

`RakeTasks` has a Rakefile, a file it loads, the search for Rakefiles, the watcher that is made
when the search is over, and the promise: `Pending` while rake runs, which reads the files at some
moment of its run.  An event drops the promise (`Forget`); the rake that runs then answers only
those who have asked before.

`Environment` has one shim and several processes, each of which runs the steps `getShim` (look for the
directory, make it, look for the file), `mkShim` (create, write, chmod) and the run of the shell
synchronously, while the others interleave.  Of two that make the directory the second gets an
exception, which ends its `loadEnv`.  The reading of the output is `ProcessEnvironment`, over texts made of words,
names, blanks, newlines, escapes and quotes.  `Output` is what the shell prints, a line for each of
its variables, of which no two have the same name: shells that quote values print a command ahead
of the name (`Prefix`).  A line ends at its newline, so a value that holds one is read as several lines.

`AutoCorrect` is one request, with everything that can fail on its way; RuboCop rewrites the
file in two steps and may be killed between them.

## 3. Runs

| Run | Model | Shows |
|---|---|---|
| `connection_safety` | `RubyProcess`, launched: 4 commands, 1 stop, eval replies of all three kinds | `RepliesMatch`, `StopsConserved`, `OneEvalNeverBlocks`, the refinement `ImplementsChannel` |
| `connection_live` | `RubyProcess`, attached: 3 commands, 1 stop, eval replies of all three kinds | `EveryCallSettles`, `EveryStopIsEmitted`, `DeathIsNoticed` |
| `breakpoints_requests` | `Breakpoints`: 2 lines, 3 requests that may overlap, lines that may be refused | `LastRequestWins`, `AnsweredOnce`, `IdsBelongToLines`, `EveryRequestAnswered` |
| `breakpoints_assertions` | 4 requests, none refused | *violated*: `AssertionsHold` |
| `breakpoints_condition` | 2 conditions | *violated*: `ConditionsApplied` |
| `session` | `DebugSession`: all kinds of files but one, stop on entry, 2 stops, 2 frames, 3 requests that may overlap, files that may have been edited | `ScopesUnlessHidden`, `StoppedMeansStopped`, `NoSilentStop`, `AnsweredUnlessLost`, `DisconnectQuits` |
| `lint_edits` | `LintPipeline`: 2 documents, 4 linters, 4 configurations, 3 edits, 2 changes of the configuration, fetches that may fail | `SettingsFresh`, `AllTogether`, `LatestServed`, the refinement `ImplementsBoard`, `EditorSettles` |
| `lint_documented` | one configuration, `"rubocop": true` | *violated*: `LintingSurvives` |
| `document_requests` | `DocumentForest`: 2 documents, 4 document events, texts whose analysis throws, 2 requests, shutdown and exit | `TreesAreOwned`, `ForestFollows`, `AnswersAreOfTheTextAsked` |
| `legacy_lint` | `LegacyLinter`: 2 linters and a name that is none, 3 versions, 2 documents, 3 changes | `ActiveIsRunning`, `LatestText`, `OffIsClear`, `ResultsInOrder` |
| `features` | `DocumentFeatures`: 3 exit codes and 0, 2 chunks per pipe; 4 texts, 2 insertions; 3 captures of 6 types on 4 rows; 6 nodes over 4 tokens | `NoProcessLeft`, `EditsOfWholeOutput`, `FormattingSettles`, `EditsReproduce`, `FoldsNest`, `SymbolsNested` |
| `workspace` | `WorkspaceFeatures`: 2 files, one nested and one filtered, a subdirectory that may be left out, 2 tasks at a time, 1 change, 2 walks; 3 versions of a Rakefile; 2 processes, shells with up to 2 variables out of 3 names and 4 values; RuboCop with 4 exits | `IndexFollows`, `SearchesComplete`, `SearchesAnswered`, `TasksFresh`, `EnvironmentOfShell`, `NeverCut` |

Every property of a passing run has a mutant that makes the run fail.  The type invariants and
the inductive invariants are not repeated in the runs: they are theorems (section 4), and so is every
invariant and action property of the runs.  The type invariant of `Locate` has no proof; it was
checked by TLC on the instance of the run.

What some of them mean.  `LastRequestWins` is stated for requests that did not
overlap: overlapping ones do undo each other, which is `breakpoints_assertions`.  `StoppedMeansStopped` excludes the worst confusion of a
debugger, a program that runs while the client shows it stopped.  `OneEvalNeverBlocks` bounds a flaw of the protocol: raw
quotes keep the buffer, and all that comes after, but not for a client that evaluates one expression at a time with
values the repair was made for.  `DeathIsNoticed` is checked in attach mode, where no child process
tells the adapter that the debugger is gone and only the socket can.  `IdsBelongToLines` is about positions
in two arrays, matched when all replies are in, while those of other requests come between.
`AnsweredUnlessLost` says that a stack trace that throws takes nothing else with it.  `LatestServed` is
restricted to the document of the latest event, because the single `switchMap` drops
the lint of any other document; the board makes the same promise, and no more.
`ActiveIsRunning` ties the flag in one object to the processes of another world: a flag left
behind blocks a linter for good, one cleared too early runs it twice.  `LatestText` says that
the two flags lose no edit, whatever fails or is switched off and on meanwhile.
`TreesAreOwned` is about memory that nobody else frees: two documents with one tree, an entry that
outlives its tree, or a tree deleted twice while the server is in use would crash the parser.
`AnswersAreOfTheTextAsked` compares two ends of a channel: the editor asks about one version and
has sent others before the server comes to the request, and yet the handler finds that one.
`EditsOfWholeOutput` is about the errors a formatter forgives: RuboCop's exit code 1 is one of them, and
if a broken input or a killed process were another, half an output would replace the document.
`EditsReproduce` compares the edits, applied as an editor does, with the output: the position in
the original, the position in the document and the selection have to agree for every order of diffs.
`FoldsNest` and `SymbolsNested` state the circumstances under which the one-pass analyses go
wrong, and that there are no others.  `IndexFollows` does so for the index: only tasks that
overtake each other make it stale.  `SearchesComplete` is about the index as a search finds it once the walk is over, beside
tasks of a killed walk that run on: those can set back a file that has changed before, and do no harm to any other.  `TasksFresh` is about a promise that is
dropped while it is pending.  `EnvironmentOfShell` joins the shim, which others may be making, to
the parsing of what it prints.
`SettingsFresh` is a property of the order of messages: the answer to a request and
the notification of a change come over one FIFO channel, so an answer that is older
than a change is always followed by the flush.

**Bounds.** Four commands are enough for one postponed, one being answered, one on
its way and one quit, and for two eval replies in a buffer with something in
front; the theorems cover every number.  The liveness run has three commands, and its properties have
the blocked buffer as an escape (`Blocked`): without it they are false (section 5).  Two lines and three requests let a breakpoint be set,
removed and set again beside one that stays; four overlapping requests are what the
failing assertion takes.  Two frames and two stops let a frame selected at one stop
meet another at the next; a `finish`-only file differs from `both` in no action but
`Shown`.  Three edits open, change and close a document, or interrupt the lint of
one by another; two changes let a configuration return to what it was; the
four linters are two that are installed, one that is missing and one that is
not supported any more.  Three changes switch a linter off and on and lint once more, with
a process of before still running; three versions are one shown, one being linted and one
typed meanwhile.  Four events open two documents and change or close both, or close one and open
it again; two requests are one before and one after a change.  The theorems cover every number of all of
these and of those that follow.  Two chunks let one be read before and one after the exit.  Three captures are a fold, one inside it
and one after; six types are comments and calls, which join, one that shortens its fold by a row and one that
does not, and the pair of `begin` and `rescue`.  Four tokens and six nodes nest two definitions with something behind them.
One change and two walks let a file change during either walk, with tasks of both at work.  Three
versions of a Rakefile are one listed, one that changes it, one that comes while rake runs.

Larger instances were run once, without error: `Locate` with two indexed files, one change and two walks
(2.6 million states), and with two changes and one walk
(0.7 million); `DebugSession` with a depth of 3, 4 requests and
three kinds of file (7.1 million), without the liveness properties.  The models' clients are bounded, so the runs really stop, and deadlock is not
checked.

**Fairness.** Node's event loop serves a callback that is due: weak fairness of
each adapter callback and of the server's handling of messages.  TCP delivers what was
sent: fairness of `ReceiveSome`.  rdebug-ide reads its socket: fairness of its taking
commands, and of its banner.  The editor answers requests and shows diagnostics, and
a linter that runs ends: nothing in the code ends it, so `EditorSettles` depends on it.
A formatter's process ends and its pipes are closed: spawn.ts sets no time limit, so
`FormattingSettles` depends on it.  Node calls back for every read of a walk (`LocateFairness`).
Nothing makes a client or editor ask, a document change, a file change, the program stop or end,
or the debugger die.

## 4. What is proved

### RubyProcess_proofs

For every `Mode`, `MaxCalls`, `MaxStops` and `Quoting`, from the assumptions named in
`RubyProcess`:

* `TypeCorrect` – `Spec => []TypeOK`;
* `QueuesCorrespond` – `Spec => []IInv`;
* `RepliesAlwaysMatch` – `Spec => []RepliesMatch`;
* `ChannelImplemented` – `Spec => ImplementsChannel`;
* `OneEvalNeverBlocksTheBuffer` – `Spec => []OneEvalNeverBlocks`;
* `StopsAlwaysConserved` – `Spec => []StopsConserved`.

`RepliesMatch` is not inductive: that the oldest pending response is the one the next
reply belongs to follows from where every command is.  `IInv` adds: the phases of
the connection (`Phases`); commands and replies are in issue order in each queue,
and everything in flight towards the adapter is older than everything in flight
towards the debugger (`InOrder`); a silent command that was postponed, and so
expects a reply, can only be the quit that ends the session (`QuitIsLast`); every
reply still to come is expected, and nothing expected has been overtaken
(`Expectations`); unsettled promises are exactly those of queued commands
(`Unsettled`).  The proof has one lemma per way a step can change the queues – issue,
connect, receive, take an element, answer, obey, lose – and `CoreInductive` puts
them together, one step per action.  `OldestMatches` is the heart: the first element in
flight answers the oldest pending response.  The refinement maps FinishCmd to
`Settle`, both ways of issuing to `Call`, and the end, the reset and the refusal
to `Close`.

A buffer that is complete and kept holds a reply beyond repair, or two evals (`KeptInv`): nothing but an eval
is ever quoted, and what can be repaired in the first one is.  By the correspondence of the queues, two replies in the
buffer are to two commands whose promises are not settled (`EvalsWaitedFor`), so the client has not waited.  The stops are counted by the places they have in flight: `Receive`
moves elements and keeps their places, `Stop` adds a place (`StopsAppended`), and the loop over the
buffer takes the first and moves the others up by one, a bijection (`StopsMoveUp`).  A reset may lose
some; after it the debugger is dead, so the connection is never in order again (`StopsInv`).

### LintPipeline_proofs

For all sets of documents, linters and configurations and all bounds, from
`LinterAssumption`, `SettingsAssumption` and `BoundAssumption`:

* `TypeCorrect` – `Spec => []TypeOK`;
* `PipelineInvariant` – `Spec => []IInv`;
* `SettingsStayFresh` – `Spec => []SettingsFresh`;
* `SentTogether` – `Spec => []AllTogether`;
* `LatestAlwaysServed` – `Spec => []LatestServed`;
* `BoardImplemented` – `Spec => ImplementsBoard`.

`SettingsFresh` alone is not inductive: an old answer may be about to be stored.
`AnswersOrdered` says that the news of the change is behind it in the channel; the two
together are inductive (`FreshSaid` for a message the editor adds, `FreshTaken` for one
the server takes).  For the refinement the step that matters is `Response`: the board
publishes for the document of the latest event, the code for the document of the
answer.  They are the same because the number of a request determines its document
(`FetchesMatch`, for requests and answers on their way, preserved by `FetchesStep`), and
because a job is always of the latest event and the present text (`JobIsCurrent`,
preserved by `JobStep`).  `BoardStep` then maps `DidOpen` and `DidChange` to `Revise`,
`DidClose` to `Close`, the beginning and the end of a lint to `Publish`, the `TypeError`
and a failed fetch to `Fail` (`FailureEnds`), and everything else to a stutter.

`AllTogether` needs the account of a lint that is under way: each linter of its configuration runs,
is missing, or has its findings kept (`JobIsWhole`).  `LatestServed` needs `JobIsCurrent`: the lint
whose end brings the pipeline to rest is of the latest event, so it is not another document that was
served.

### DocumentForest_proofs

For all sets of documents and all bounds, from `BoundAssumption`:

* `TypeCorrect` – `Spec => []TypeOK`;
* `ForestInvariant` – `Spec => []IInv`;
* `TreesAlwaysOwned` – `Spec => []TreesAreOwned`;
* `ForestAlwaysFollows` – `Spec => []ForestFollows`;
* `AnswersAlwaysOfTheTextAsked` – `Spec => []AnswersAreOfTheTextAsked`.

None of the three properties is inductive.  That no document is closed between 'shutdown' and
'exit', when its tree would be deleted a second time, is a matter of which messages may
be in the channel (`LifeCycle`).  That an answer is about the text asked for needs what every
prefix of the channel makes of a document (`Reaches`): before the i-th message, a request,
the server will have the version that was asked about (`InStep`).  `ReachesBefore` and
`ReachesBehind` carry this over a message the editor adds, `ReachesTaken` over one the server
takes; when the request is the first message, `Reaches` is about the documents the server has,
and `ForestFollows` does the rest.  `Growing`, `Felling` and `Releasing` say what each operation
of the forest does to the heap.

### Breakpoints_proofs

For all lines, conditions and numbers of requests, refused or not, from the assumptions of
`Breakpoints`:

* `TypeCorrect` – `Spec => []TypeOK`;
* `OnceInvariant`, `AgreedInvariant` – the two inductive invariants;
* `AlwaysAnsweredOnce` – `Spec => []AnsweredOnce`;
* `IdsAlwaysBelongToLines` – `Spec => []IdsBelongToLines`;
* `LastRequestAlwaysWins` – `Spec => []LastRequestWins`.

`OnceInv` holds for overlapping requests too: what is on its way is owed by a request whose
promises are not all resolved (`QueueOwed`, `RepliesOwed`); no command is on its way twice, nor
again after its reply (`BatchesDiffer`, `RepliesDiffer`, `NotYetAnswered`); a request is answered
exactly when both arrays are complete (`Settled`); and every id that is noted anywhere is that of a
breakpoint on its line (`Placed`).  `Agreement` adds, for requests that do not overlap, what client,
adapter and debugger have in common at every moment between a request and its response: the
debugger has the breakpoints of the cache, those it is still told to delete, and those of
the last request whose reply is on its way or waits for the others (`Held`).  When all is
answered the last three are empty (`NothingOwed`), and `LastRequestWins` is left.  Each action has
one lemma for each of the two invariants.

### DebugSession_proofs

For all kinds of files, depths, numbers of stops and of requests, with and without stopOnEntry:

* `ControlInvariant` – `Spec => []ControlInv`;
* `StoppedAlwaysMeansStopped` – `Spec => []StoppedMeansStopped`;
* `NeverASilentStop` – `Spec => []NoSilentStop`;
* `FrameInvariant` – `Spec => []FrameInv`;
* `ScopesAlwaysUnlessHidden` – `Spec => []ScopesUnlessHidden`;
* `TypeCorrect` – `Spec => []TypeOK`.

None of the three properties is inductive.  `ControlInv` says that one thing at a time controls the program:
the program itself while it runs, a stop that is on its way, a command that will resume it, or the
client that was told (`InControl`, with `OneStop` and `OneResume`); that the stop on its way is the
present one (`StopsAreOfNow`); and that nothing follows the end (`EndIsTheEnd`).  The automatic step of
`onSuspended` hands control from a stop to a command, a report hands it to the client, and a step
that did both, or neither, would break it.

`FrameInv` speaks of a client that waits for every response, as long as no current frame was left out
of a stack trace.  What it asked is in one place – a
question on its way or the answer to it – and while it is on its way the program does nothing
(`OneAsked`, `AskedWhileStopped`); a command that selects a frame is directly followed by the
question it was sent for (`FrameFirst`); an answer tells of the frame that was asked for
(`AnswersFit`); and `_frameId` is the frame that is selected once what was sent has been carried out
(`FrameTracked`).  Without
`ControlInv` none of this is kept: a program that resumed by itself would answer from another stop.

`TypeOK` says that no request is answered that is not open, and no stop reported that did not happen.  Both
are counted (`CountInv`): the questions on their way to the debugger and the answers on their way back
are no more than the open requests, and the reports together with the stop on its way no more than the
stops; a place in a channel is taken away by a bijection (`PlacesDropped`).  `DepthInv` keeps the
frames within the depth of the stack.

### LegacyLinter_proofs

For all linters, known or not, and all bounds, from `LinterAssumption` and `BoundAssumption`:

* `TypeCorrect` – `Spec => []TypeOK`;
* `ActiveAlwaysRunning` – `Spec => []ActiveIsRunning`;
* `TextAlwaysLatest` – `Spec => []LatestText`;
* `OffAlwaysClear` – `Spec => []OffIsClear`;
* `ResultsAlwaysInOrder` – `Spec => ResultsInOrder`.

`LinterInv` is one conjunction of facts that hold in fewer and fewer circumstances.  Always: the open document is
the newest, and nothing is about a newer text (`Newest`).  As long as no entry was deleted
under a running process, a process is that of an active linter and the only one (`Unique`); as long as no
unknown name threw either, an active linter has a process (`Alive`).  With one Linter for the file,
a process is about no older text than what is shown (`Later`), and each linter that is on shows the present
text, or waits for the debounce, or runs on the present text, or pends (`Settled`).  `RunEffect` says
what `_runLinters` does, whether it returns or throws (`Effect`), and for each part a lemma that `Effect` keeps it,
whichever handler has called.

### DocumentFeatures_proofs

*The process and the request* (`Spawn`, `Formatting`), for all exit codes and numbers of chunks, from
`CodesAssumption` and `ChunksAssumption`:

* `FormattingInvariant`, `TypeCorrect` – the inductive invariant of process, stream and request;
* `StreamsComplete` – `OutputComplete`: a stream that ends by the exit code has passed on everything;
* `NoProcessEverLeft` – `NoProcessLeft`;
* `EditsAlwaysOfWholeOutput` – `EditsOfWholeOutput`.

The invariant ties the three flags of spawn.ts to the world: a pipe counts as ended only when nobody
can write to it and all was read, `closed` implies that of both pipes and that the process is over or
never was, `noClose` implies that it need not be killed, and a subscription that is open has received
all that was read.  An end by the code needs all three flags, whichever comes last.

*The edits* (`FormatEdits`), for all texts, selections and diffs, from `TextsAssumption`:

* `EditsAlwaysReproduce` – `EditsReproduce`;
* `EditsAlwaysInOrder` – `EditsInOrder`: the edits never overlap, also in a document that has changed.

Both rest on what positions are: `PositionAt` and `OffsetAt` are inverse to each other and keep the order of
offsets, and a place past the end is that of the end.  `EditInv` says what the editor has put out
after the edits made so far: followed by the text up to the present position, it is `expected`.  A diff then
adds the same to both, whether it is wanted or not, and whether an edit at the same place came before.

*The folds* (`FoldingRanges`), for documents of any size, from `RowsAssumption`: `FoldsAlwaysNest` –
`FoldsNest`.  A fold spans a run of captures (`Spans`): it begins where the first does, ends where the last
one would end it, and, unless a block straddles a node's end, both are on the same side of every node before.
Two folds are those of two runs, one after the other, and the captures are nested as in a tree (`Ordered`).
The property was first stated with narrower circumstances and found false by its proof: blocks also
go on behind the row where a `rescue` cuts the fold around them short, in documents that
the run did not have then.  `Straddling` and `SharedRow` are what the proof needed.

*The outline* (`DocumentSymbols`), for trees of any size, from `TokensAssumption`: `SymbolsAlwaysNested` –
`SymbolsNested`.  Unless constants are chained, the wrappers on the stack are open, each ends before the
one below it, and every open definition is among them (`StackOpen`): its `end` is a token of its own,
so no other node takes it off.

### WorkspaceFeatures_proofs

For any number of files, changes, walks, tasks, versions, processes, names, variables, values and exit codes:

* `IndexAlwaysFollows` – `IndexFollows`; `SearchesAlwaysComplete` – `SearchesComplete`;
* `RakeTypeCorrect`, `TasksAlwaysFresh` – type correctness of `RakeTasks`, and `TasksFresh`;
* `NeverEverCut` – `NeverCut`;
* `ShimAlwaysStays` – a process that finds the shim in order, with nobody at work on it, reads what
  the shell prints;
* `EnvironmentAlwaysOfShell` – `EnvironmentOfShell`.

`LocateInv` follows every file through the tasks.  What is reported, read or stored is a change that the file has
had (`Seen`, `Stored`).  Until the tree was told of the file's last change, an event is to come, or
`parseQueue` has a task that will tell it (`Followed`).  Until the walk is over, one of its tasks leads to
every file that is as it was when the walk began: the directory it is in, its node, its reading,
or its storing (`Reached`).  The tasks of killed walks appear in none of the last two, and therefore do no harm.
`FilesAssumption` and `LimitsAssumption` are all that is assumed.

`TasksFresh` needs that a promise, and what a rake that is still wanted has read, are of the
present Rakefile unless a change is still to be reported.

`EnvironmentOfShell` is a fact about the parsing as well as about the processes.  By induction over the variables
of the shell, the output has one line for each, in their order (`LinesOf`); the key of such a line is the
variable's name, because nothing but words and blanks is ahead of it; and reading takes away
what printing has added, for all three ways to quote.  No two variables have one name, so the last line with
a key is the only one.  The assumptions are that names differ from the other characters and from
each other's classes (`NamesAssumption`), and that values have no quotes of their own (`ValuesAssumption`).

The library's induction theorems take an operator as a parameter, which the provers cannot instantiate.  Where a
proof needs induction it takes the least counterexample: a set of numbers that is not empty has a
least element (`WFMin`, about sets), and the step excludes it.

### Only model-checked

All liveness properties, because fairness and `ENABLED` are beyond the prover: `EveryCallSettles`,
`EveryStopIsEmitted`, `DeathIsNoticed`, `EveryRequestAnswered`, `AnsweredUnlessLost`,
`DisconnectQuits`, `EditorSettles`, `FormattingSettles`, `SearchesAnswered`.  The type invariant of
`Locate`: that no more tasks run than `Concurrency` allows, and that no file has more than `MaxChanges`
changes, are about sums over a bag and over a function, whose laws need an induction over finite sets.
(`LocateInv` has the rest of it.)

## 5. What the code does against its own text

Three runs end in a counterexample; PROJECT.json quotes the text for each.

* `breakpoints_assertions` – overlapping breakpoint requests of one file undo each other
  in the cache, and the assertion at main.ts:240 fails.
* `breakpoints_condition` – a changed condition of an existing breakpoint is not sent.
* `lint_documented` – `"rubocop": true` makes `getLinter` throw; the stream fails, and no
  document is linted any more.

Seen in the models or while writing them, and not given a run of their own.

*Debugger.*  A complete buffer may be kept for ever, and the session blocks: two eval replies with raw quotes, of
which only the first is repaired, or one value whose quotes give another message than the two that are looked for.  The
comment at ruby.ts:159, that the XML is then not complete, is not true of it (`OneEvalNeverBlocks` says when it is).
A stack trace through a file that is now shorter than what the program loaded is never answered (main.ts:337).  A refused line is cached without a number (the assertion at
main.ts:262; `Refusing = TRUE`).  A stop whose current frame is hidden by skipFiles leaves `_frameId` as it
was, and scopes may come from another frame than the one asked for (main.ts:319, 486); a late stack trace
sets `_frameId` back for a client that does not wait.  Expressions are evaluated in the frame that was
selected last, not the top one (main.ts:553-562).  With stopOnEntry, a session that first meets a
breakpoint takes a later stop for the entry.

*Linting.*  An event of one document drops the running lint of another.  When the last linter is switched
off, the old diagnostics stay.  The late result of a legacy linter that was switched off makes its
collection again, and its continuation throws; an unknown name under `ruby.lint` leaves the linters
before it marked active without a process.

*Documents.*  An exception in the analysis of one document ends symbols and folding ranges for all of
them, and highlights are computed from trees of old texts, while linting goes on.  A tree that is replaced
is never deleted, so that opening a document leaks one and each change another; shutdown followed by exit
deletes every remaining tree twice.

*Analyses.*  Comments are merged into one fold although there is code between them, which is not
captured, across the end of a definition, or across the `rescue` where the fold around them is cut
short (`Straddling`); the `rescue` or `else` of an inner node shortens the fold of the outer one (`Borrowed`);
blocks, lambdas and singleton classes fold their `end` as well, and share that row with the node around them or
with what follows (`SharedRow`).  After `A = B = 1` the outline puts what follows below `A` (`Chained`).

*Workspace.*  Two parses of one file may overtake each other, and the index keeps the older symbols; a walk that is
replaced answers the searches that wait for it before it is complete; the test `!absPath in this.tree` of
`listInFile` is always false, so a file that is not indexed is never parsed.  A rake that failed is
cached like an empty list; the loop over `rakeFiles.keys` has no iterations; a deleted Rakefile stays in
the set, which compares identities; loaded `*.rake` files are not watched.  Two windows that
make the shim's directory at once: the second throws.  A shim that could not be
made executable is found again by the next window and never repaired, and `loadEnv` throws on its missing
output; a value of several lines is read as several variables.  A RuboCop that was killed by a signal is
taken for a success, and its temporary folder is never removed.

## 6. Not modelled, and the plan

Not modelled, and why:

* the `DocumentHighlightAnalyzer` of the language server: one look-up in a tree, no state;
* `providers/highlight.ts`, `completion.ts`, `configuration.ts` of the extension, registration and
  activation: translation of data; `highlight.ts` keeps the pairs of the last document for all
  documents, which is listed as a hazard;
* `util/env.ts` of the extension: a near-copy of `environment.ts` that nothing imports; the choice of the shell;
* of `main.ts`, variables and their handles, threads, the catch of exceptions, the mapping of paths: they
  translate requests into commands and replies into responses, one by one;
* of the settings caches, all but `documentConfigurationCache` as linting uses it; the environment is loaded
  synchronously and takes no step;
* capabilities and the registration of the server's providers; the log level;
* grammars and snippets (data), the vendored parser, build files, type declarations, command
  lines, and the forwarding of program output.

What would come next:

1. the order of the breakpoints in a response, with `breakpoints_condition` replaced by a run that shows both;
2. variable handles across stops in `DebugSession`;
3. a theorem for the type invariant of `Locate`, with the changes counted by a variable;
4. refinements: `DebugSession` and `LegacyLinter` as implementations of what they promise.
