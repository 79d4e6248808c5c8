---------------------------- MODULE DocumentForest ----------------------------
(***************************************************************************)
(* Documents, their syntax trees and the requests answered from them, in   *)
(* the language server (packages/language-server-ruby/src): the events of  *)
(* DocumentManager.ts, Forest.ts, Analyzer.ts, the providers of symbols,   *)
(* folding ranges and highlights, and the server's life from index.ts.     *)
(*                                                                         *)
(* The editor talks to the server over a FIFO channel; each message is     *)
(* handled to the end before the next.  A tree lives in the memory of the  *)
(* parser, outside of the reach of garbage collection, until delete() is   *)
(* called on it.                                                           *)
(***************************************************************************)
EXTENDS Naturals, Sequences

CONSTANTS
    Files,     \* the documents
    MaxEdits,  \* bound on opening, changing and closing documents
    MaxAsks    \* bound on requests

ASSUME BoundAssumption == MaxEdits \in Nat /\ MaxAsks \in Nat

VARIABLES
    (* the editor *)
    text,       \* the version of each document, 0 when closed
    edits,      \* events of documents so far
    asks,       \* requests so far
    stopping,   \* it has sent 'shutdown'
    (* the channel *)
    toServer,
    (* the server *)
    started,    \* 'initialize' is done: the parser is loaded, the providers registered
    documents,  \* the documents of DocumentManager: their version, 0 when closed
    heap,       \* all trees: the version parsed and the calls of delete()
    trees,      \* forest.trees: an index into heap, 0 without one
    analyses,   \* analyses.analyses: the set of versions under a key, {0} after closing
    subscribed, \* analyses is subscribed to forestStream
    released,   \* calls of forest.release
    (* history *)
    answer      \* the last answer

editorVars == <<text, edits, asks, stopping>>
serverVars == <<started, documents, heap, trees, analyses, subscribed, released>>
vars == <<editorVars, toServer, serverVars, answer>>

Versions == 0..MaxEdits
Kinds    == {"documentSymbol", "foldingRange", "documentHighlight"}

Trees == [of : Versions, deleted : Nat]

\* A document message tells whether the analysis of the text throws: a method
\* called attr_... without arguments is enough (RubyDocumentSymbol.ts:60-62).
DocumentMessages == [type : {"didOpen", "didChange"}, file : Files, version : 1..MaxEdits,
                     throws : BOOLEAN]
                    \cup [type : {"didClose"}, file : Files, version : {0}, throws : {FALSE}]
Requests         == [type : Kinds, file : Files, asked : 1..MaxEdits]
Calls            == [type : {"initialize", "shutdown", "exit"}]
Messages         == DocumentMessages \cup Requests \cup Calls

\* An answer: what was asked for, the versions it is about ({} is an error), and
\* whether all texts so far could be analysed.
NoAnswer == [asked |-> 0, got |-> {}, sound |-> TRUE]
Answers  == [asked : Versions, got : SUBSET Versions, sound : BOOLEAN]

Init ==
    /\ text = [f \in Files |-> 0]
    /\ edits = 0 /\ asks = 0 /\ stopping = FALSE
    /\ toServer = <<[type |-> "initialize"]>>
    /\ started = FALSE
    /\ documents = [f \in Files |-> 0]
    /\ heap = <<>>
    /\ trees = [f \in Files |-> 0]
    /\ analyses = [f \in Files |-> {}]
    /\ subscribed = FALSE
    /\ released = 0
    /\ answer = NoAnswer

-----------------------------------------------------------------------------
(* The editor: a client that waits for 'initialize' and says no more after  *)
(* 'shutdown' than 'exit'.                                                   *)

Say(m) == toServer' = Append(toServer, m)

Notify(type, f, v, throws) ==
    /\ started /\ ~stopping
    /\ edits < MaxEdits
    /\ edits' = edits + 1
    /\ text' = [text EXCEPT ![f] = v]
    /\ Say([type |-> type, file |-> f, version |-> v, throws |-> throws])
    /\ UNCHANGED <<asks, stopping, serverVars, answer>>

OpenDocument(f, throws)   == text[f] = 0 /\ Notify("didOpen", f, edits + 1, throws)
ChangeDocument(f, throws) == text[f] # 0 /\ Notify("didChange", f, edits + 1, throws)
CloseDocument(f)          == text[f] # 0 /\ Notify("didClose", f, 0, FALSE)

Ask(kind, f) ==
    /\ text[f] # 0 /\ ~stopping
    /\ asks < MaxAsks
    /\ asks' = asks + 1
    /\ Say([type |-> kind, file |-> f, asked |-> text[f]])
    /\ UNCHANGED <<text, edits, stopping, serverVars, answer>>

\* client.stop(): 'shutdown', and once it is answered 'exit'.
Stop ==
    /\ started /\ ~stopping
    /\ stopping' = TRUE
    /\ Say([type |-> "shutdown"])
    /\ UNCHANGED <<text, edits, asks, serverVars, answer>>

Leave ==
    /\ released = 1 /\ toServer = <<>>
    /\ Say([type |-> "exit"])
    /\ UNCHANGED <<editorVars, serverVars, answer>>

Editor ==
    \/ \E f \in Files, throws \in BOOLEAN : OpenDocument(f, throws) \/ ChangeDocument(f, throws)
    \/ \E f \in Files : CloseDocument(f)
    \/ \E kind \in Kinds, f \in Files : Ask(kind, f)
    \/ Stop \/ Leave

-----------------------------------------------------------------------------
(* Forest.ts and Analyzer.ts                                                *)

\* createTree or updateTree, n times: the text is parsed anew, and the last tree
\* is the one that is kept.
Parsed(h, v, n) == h \o [k \in 1..n |-> [of |-> v, deleted |-> 0]]

\* delete() is called on the trees with these indices.
Deleted(h, indices) ==
    [n \in 1..Len(h) |-> IF n \in indices THEN [h[n] EXCEPT !.deleted = @ + 1] ELSE h[n]]

\* Events that bring the text v of f.  The forest parses it before it is analysed;
\* an analysis that throws ends the subscription, so that a further event reaches
\* neither.
Grow(f, v, events, throws) ==
    /\ subscribed' = ~throws
    /\ LET n == IF throws THEN 1 ELSE events
       IN  /\ heap' = Parsed(heap, v, n)
           /\ trees' = [trees EXCEPT ![f] = Len(heap) + n]
    /\ analyses' = IF throws THEN analyses ELSE [analyses EXCEPT ![f] = {v}]

\* Mutants of Fell: the tree is deleted, its entry is kept; so is the analysis.
FellKeepingEntry(f) ==
    /\ heap' = Deleted(heap, {trees[f]})
    /\ analyses' = [analyses EXCEPT ![f] = {0}]
    /\ UNCHANGED <<trees, subscribed>>

FellKeepingAnalysis(f) ==
    /\ heap' = Deleted(heap, {trees[f]})
    /\ trees' = [trees EXCEPT ![f] = 0]
    /\ UNCHANGED <<analyses, subscribed>>

\* deleteTree, and an analysis without results.
Fell(f) ==
    /\ heap' = Deleted(heap, {trees[f]})
    /\ trees' = [trees EXCEPT ![f] = 0]
    /\ analyses' = [analyses EXCEPT ![f] = {0}]
    /\ UNCHANGED subscribed

\* Without a subscription the events pass by.
Ignore == UNCHANGED <<heap, trees, analyses, subscribed>>

-----------------------------------------------------------------------------
(* The messages.                                                            *)

Take(type) ==
    /\ toServer # <<>>
    /\ Head(toServer).type = type
    /\ toServer' = Tail(toServer)

\* The parser is loaded, then ./Server with all it imports: the forest, the
\* analyses and their subscription.
Initialize ==
    /\ Take("initialize")
    /\ started' = TRUE
    /\ subscribed' = TRUE
    /\ UNCHANGED <<editorVars, documents, heap, trees, analyses, released, answer>>

\* TextDocuments emits OPEN and CHANGE_CONTENT for an opened document.
DidOpen ==
    /\ Take("didOpen")
    /\ LET m == Head(toServer)
       IN  /\ documents' = [documents EXCEPT ![m.file] = m.version]
           /\ IF subscribed THEN Grow(m.file, m.version, 2, m.throws) ELSE Ignore
    /\ UNCHANGED <<editorVars, started, released, answer>>

\* Mutant: the tree of the document is kept, as incremental parsing would do.
DidChangeReusing ==
    /\ Take("didChange")
    /\ LET m == Head(toServer)
       IN  /\ documents' = [documents EXCEPT ![m.file] = m.version]
           /\ subscribed' = (subscribed /\ ~m.throws)
           /\ analyses' = IF subscribed /\ ~m.throws
                          THEN [analyses EXCEPT ![m.file] = {m.version}] ELSE analyses
    /\ UNCHANGED <<editorVars, heap, trees, started, released, answer>>

DidChange ==
    /\ Take("didChange")
    /\ LET m == Head(toServer)
       IN  /\ documents' = [documents EXCEPT ![m.file] = m.version]
           /\ IF subscribed THEN Grow(m.file, m.version, 1, m.throws) ELSE Ignore
    /\ UNCHANGED <<editorVars, started, released, answer>>

DidClose ==
    /\ Take("didClose")
    /\ LET f == Head(toServer).file
       IN  /\ documents' = [documents EXCEPT ![f] = 0]
           /\ IF subscribed THEN Fell(f) ELSE Ignore
    /\ UNCHANGED <<editorVars, started, released, answer>>

\* computeHighlights fails without a tree, reading a property of undefined.
Highlighted(f) == IF trees[f] = 0 THEN {} ELSE {heap[trees[f]].of}

\* So does what reads the symbols or the ranges of an analysis that is not there.
Answered(kind, f) == IF kind = "documentHighlight" THEN Highlighted(f) ELSE analyses[f]

Reply(kind) ==
    /\ Take(kind)
    /\ LET m == Head(toServer)
       IN  answer' = [asked |-> m.asked, got |-> Answered(kind, m.file), sound |-> subscribed]
    /\ UNCHANGED <<editorVars, serverVars>>

HandleDocumentSymbol    == Reply("documentSymbol")
HandleFoldingRange      == Reply("foldingRange")
HandleDocumentHighlight == Reply("documentHighlight")

\* forest.release: the entries are kept, and so 'exit' deletes the trees again.
Release ==
    /\ heap' = Deleted(heap, {trees[f] : f \in Files})
    /\ released' = released + 1
    /\ UNCHANGED <<editorVars, started, documents, trees, analyses, subscribed, answer>>

Shutdown == Take("shutdown") /\ Release
Exit     == Take("exit") /\ Release

Server ==
    \/ Initialize \/ DidOpen \/ DidChange \/ DidClose
    \/ HandleDocumentSymbol \/ HandleFoldingRange \/ HandleDocumentHighlight
    \/ Shutdown \/ Exit

Next == Editor \/ Server

Spec == Init /\ [][Next]_vars

-----------------------------------------------------------------------------
(* Properties.                                                              *)

\* Types; the entries of the forest are trees.
TypeOK ==
    /\ text \in [Files -> Versions] /\ documents \in [Files -> Versions]
    /\ edits \in 0..MaxEdits /\ asks \in 0..MaxAsks
    /\ stopping \in BOOLEAN /\ started \in BOOLEAN /\ subscribed \in BOOLEAN
    /\ released \in Nat
    /\ toServer \in Seq(Messages)
    /\ heap \in Seq(Trees)
    /\ trees \in [Files -> 0..Len(heap)]
    /\ analyses \in [Files -> SUBSET Versions]
    /\ answer \in Answers

\* Forest.ts:66-77 - who owns a tree: one document, which has not deleted it as long
\* as the server is not told to shut down; and no tree is deleted twice before 'exit',
\* whether it was replaced, closed or kept after a failure.
TreesAreOwned ==
    /\ \A f, g \in Files : f # g /\ trees[f] # 0 => trees[f] # trees[g]
    /\ released = 0 => \A f \in Files : trees[f] # 0 => heap[trees[f]].deleted = 0
    /\ released < 2 => \A n \in 1..Len(heap) : heap[n].deleted <= 1

\* Forest.ts:81, Analyzer.ts:84 - as long as no analysis has thrown, forest and
\* analyses hold the open documents and their present text, nothing of others.
ForestFollows ==
    subscribed =>
        \A f \in Files :
            /\ documents[f] = 0 => trees[f] = 0 /\ analyses[f] \subseteq {0}
            /\ documents[f] # 0 => /\ trees[f] # 0 /\ heap[trees[f]].of = documents[f]
                                   /\ analyses[f] = {documents[f]}

\* DocumentSymbolProvider.ts:21, DocumentHighlightAnalyzer.ts:19 - unless an analysis has
\* thrown, an answer is about the text the editor had when it asked, although the
\* handler looks at the documents only later; and it is not an error.
AnswersAreOfTheTextAsked ==
    answer.sound /\ answer.asked # 0 => answer.got = {answer.asked}

\* Behind the answers: with these documents and messages, the version of f that the
\* server has when it comes to the i-th message is v.
IsEvent(m, f) == m.type \in {"didOpen", "didChange", "didClose"} /\ m.file = f

Reaches(docs, channel, i, f, v) ==
    \/ \E j \in 1..(i - 1) :
          /\ IsEvent(channel[j], f) /\ channel[j].version = v
          /\ \A k \in (j + 1)..(i - 1) : ~IsEvent(channel[k], f)
    \/ /\ docs[f] = v
       /\ \A k \in 1..(i - 1) : ~IsEvent(channel[k], f)

\* Editor and server agree: after all messages on the text, before a request on
\* what it was asked about.
InStep ==
    /\ \A f \in Files : Reaches(documents, toServer, Len(toServer) + 1, f, text[f])
    /\ \A i \in 1..Len(toServer) :
          toServer[i].type \in Kinds =>
              Reaches(documents, toServer, i, toServer[i].file, toServer[i].asked)

\* The order of the calls: 'initialize' first, 'shutdown' last but for 'exit'.
Ending(m) == m.type \in {"shutdown", "exit"}

LifeCycle ==
    /\ ~started => /\ toServer = <<[type |-> "initialize"]>>
                   /\ ~stopping /\ ~subscribed /\ released = 0
                   /\ \A f \in Files : /\ text[f] = 0 /\ documents[f] = 0
                                       /\ trees[f] = 0 /\ analyses[f] = {}
    /\ started => \A i \in 1..Len(toServer) : toServer[i].type # "initialize"
    /\ ~stopping => released = 0 /\ \A i \in 1..Len(toServer) : ~Ending(toServer[i])
    /\ stopping /\ released = 0 =>
          /\ toServer # <<>> /\ toServer[Len(toServer)].type = "shutdown"
          /\ \A i \in 1..(Len(toServer) - 1) : ~Ending(toServer[i])
    /\ released = 1 => toServer = <<>> \/ (Len(toServer) = 1 /\ toServer[1].type = "exit")
    /\ released = 2 => toServer = <<>>
    /\ released <= 2

\* The inductive invariant.
IInv == LifeCycle /\ InStep /\ TreesAreOwned /\ ForestFollows /\ AnswersAreOfTheTextAsked
=============================================================================
