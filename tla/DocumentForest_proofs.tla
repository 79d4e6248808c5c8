------------------------- MODULE DocumentForest_proofs -------------------------
(***************************************************************************)
(* Proofs about DocumentForest for all documents and bounds.               *)
(***************************************************************************)
EXTENDS DocumentForest, Integers, SequenceTheorems, TLAPS

(***************************************************************************)
(* Messages and trees.                                                     *)
(***************************************************************************)

\* The fields of the messages.
LEMMA MessageFields ==
    \A m \in Messages :
        /\ m.type \in {"didOpen", "didChange", "didClose", "documentSymbol", "foldingRange",
                       "documentHighlight", "initialize", "shutdown", "exit"}
        /\ m.type \in {"didOpen", "didChange"} =>
              m.file \in Files /\ m.version \in 1..MaxEdits /\ m.throws \in BOOLEAN
        /\ m.type = "didClose" => m.file \in Files /\ m.version = 0
        /\ m.type \in Kinds => m.file \in Files /\ m.asked \in 1..MaxEdits
BY DEF Messages, DocumentMessages, Requests, Calls, Kinds

\* The requests are handled alike.
LEMMA Handlers ==
    ASSUME Server
    PROVE  \/ Initialize \/ DidOpen \/ DidChange \/ DidClose
           \/ \E kind \in Kinds : Reply(kind)
           \/ Shutdown \/ Exit
BY DEF Server, HandleDocumentSymbol, HandleFoldingRange, HandleDocumentHighlight, Kinds

\* The message that the server takes.
LEMMA Taken ==
    ASSUME TypeOK, NEW t, Take(t)
    PROVE  /\ toServer' \in Seq(Messages)
           /\ Head(toServer) \in Messages /\ Head(toServer).type = t
           /\ Head(toServer) = toServer[1] /\ 1 \in 1..Len(toServer)
           /\ Len(toServer) \in Nat /\ Len(toServer') = Len(toServer) - 1
           /\ \A i \in 1..Len(toServer') :
                 i + 1 \in 1..Len(toServer) /\ toServer'[i] = toServer[i + 1]
BY HeadTailProperties, LenProperties, EmptySeq DEF TypeOK, Take

\* The message that the editor says.
LEMMA Said ==
    ASSUME TypeOK, NEW m \in Messages, Say(m)
    PROVE  /\ toServer' \in Seq(Messages)
           /\ Len(toServer) \in Nat /\ Len(toServer') = Len(toServer) + 1
           /\ toServer'[Len(toServer) + 1] = m
           /\ \A i \in 1..Len(toServer) : toServer'[i] = toServer[i]
           /\ \A i \in 1..Len(toServer') : i \in 1..Len(toServer) \/ i = Len(toServer) + 1
BY AppendProperties, LenProperties DEF TypeOK, Say

\* The fields of a tree.
LEMMA TreeFields ==
    \A t \in Trees :
        /\ t.of \in Versions /\ t.deleted \in Nat
        /\ [t EXCEPT !.deleted = @ + 1] \in Trees
        /\ [t EXCEPT !.deleted = @ + 1].of = t.of
        /\ [t EXCEPT !.deleted = @ + 1].deleted = t.deleted + 1
<1> SUFFICES ASSUME NEW t \in Trees
             PROVE  /\ t.of \in Versions /\ t.deleted \in Nat
                    /\ [t EXCEPT !.deleted = @ + 1] \in Trees
                    /\ [t EXCEPT !.deleted = @ + 1].of = t.of
                    /\ [t EXCEPT !.deleted = @ + 1].deleted = t.deleted + 1
  OBVIOUS
<1>1. QED
  BY DEF Trees

\* The heap g is h with n new trees of the version v.
Extended(h, g, v, n) ==
    /\ g \in Seq(Trees)
    /\ Len(h) \in Nat /\ Len(g) = Len(h) + n
    /\ \A i \in 1..Len(h) : g[i] = h[i]
    /\ \A i \in (Len(h) + 1)..(Len(h) + n) : g[i] = [of |-> v, deleted |-> 0]

\* Parsing adds trees and leaves the others alone.
LEMMA Parsing ==
    ASSUME NEW h \in Seq(Trees), NEW v \in Versions, NEW n \in Nat
    PROVE  Extended(h, Parsed(h, v, n), v, n)
<1> DEFINE new == [k \in 1..n |-> [of |-> v, deleted |-> 0]]
<1>1. /\ new \in [1..n -> Trees]
      /\ \A k \in 1..n : new[k] = [of |-> v, deleted |-> 0]
  BY DEF Trees
<1>2. new \in Seq(Trees) /\ Len(new) = n
  BY <1>1, SeqDef, LenProperties
<1>3. Len(h) \in Nat
  BY LenProperties
<1>4. Parsed(h, v, n) = h \o new
  BY DEF Parsed
<1> HIDE DEF new
<1>5. /\ h \o new \in Seq(Trees)
      /\ Len(h \o new) = Len(h) + n
      /\ \A i \in 1..(Len(h) + n) :
            (h \o new)[i] = IF i <= Len(h) THEN h[i] ELSE new[i - Len(h)]
  BY <1>2, <1>3, ConcatProperties
<1>6. \A i \in (Len(h) + 1)..(Len(h) + n) :
         i \in 1..(Len(h) + n) /\ ~(i <= Len(h)) /\ i - Len(h) \in 1..n
  BY <1>3
<1>7. \A i \in 1..Len(h) : i \in 1..(Len(h) + n) /\ i <= Len(h)
  BY <1>3
<1>8. QED
  BY <1>1, <1>3, <1>4, <1>5, <1>6, <1>7 DEF Extended

\* The heap g is h with delete() called once more on the trees in S.
Culled(h, g, S) ==
    /\ g \in Seq(Trees)
    /\ Len(h) \in Nat /\ Len(g) = Len(h)
    /\ \A i \in 1..Len(h) :
          /\ h[i].deleted \in Nat /\ g[i].of = h[i].of
          /\ i \in S => g[i].deleted = h[i].deleted + 1
          /\ i \notin S => g[i].deleted = h[i].deleted

\* Deleting counts, and changes nothing else.
LEMMA Deleting ==
    ASSUME NEW h \in Seq(Trees), NEW S
    PROVE  Culled(h, Deleted(h, S), S)
<1>1. Len(h) \in Nat /\ \A i \in 1..Len(h) : h[i] \in Trees
  BY LenProperties, ElementOfSeq
<1>2. \A i \in 1..Len(h) : [h[i] EXCEPT !.deleted = @ + 1] \in Trees
  BY <1>1, TreeFields
<1>3. Deleted(h, S) \in [1..Len(h) -> Trees]
  BY <1>1, <1>2 DEF Deleted
<1>4. Deleted(h, S) \in Seq(Trees) /\ Len(Deleted(h, S)) = Len(h)
  BY <1>1, <1>3, SeqDef, LenProperties
<1>5. \A i \in 1..Len(h) :
         Deleted(h, S)[i] = IF i \in S THEN [h[i] EXCEPT !.deleted = @ + 1] ELSE h[i]
  BY DEF Deleted
<1>6. \A i \in 1..Len(h) :
         /\ h[i].deleted \in Nat
         /\ [h[i] EXCEPT !.deleted = @ + 1].of = h[i].of
         /\ [h[i] EXCEPT !.deleted = @ + 1].deleted = h[i].deleted + 1
  BY <1>1, TreeFields
<1>7. QED
  BY <1>1, <1>4, <1>5, <1>6 DEF Culled

(***************************************************************************)
(* Type correctness.                                                       *)
(***************************************************************************)

\* A document is opened or changed.
LEMMA GrowTypes ==
    ASSUME TypeOK, NEW f \in Files, NEW v \in Versions, NEW n \in {1, 2},
           NEW throws \in BOOLEAN, Grow(f, v, n, throws)
    PROVE  /\ subscribed' \in BOOLEAN /\ heap' \in Seq(Trees)
           /\ trees' \in [Files -> 0..Len(heap')]
           /\ analyses' \in [Files -> SUBSET Versions]
<1>1. PICK k \in {1, 2} : /\ heap' = Parsed(heap, v, k)
                          /\ trees' = [trees EXCEPT ![f] = Len(heap) + k]
  BY DEF Grow
<1>2. heap' \in Seq(Trees) /\ Len(heap) \in Nat /\ Len(heap') = Len(heap) + k
  <2>1. heap \in Seq(Trees) /\ k \in Nat
    BY DEF TypeOK
  <2>2. Extended(heap, heap', v, k)
    BY <1>1, <2>1, Parsing
  <2>3. QED
    BY <2>2 DEF Extended
<1>3. trees' \in [Files -> 0..Len(heap')]
  BY <1>1, <1>2 DEF TypeOK
<1>4. QED
  BY <1>2, <1>3 DEF Grow, TypeOK

\* A document is closed.
LEMMA FellTypes ==
    ASSUME TypeOK, NEW f \in Files, Fell(f)
    PROVE  /\ subscribed' \in BOOLEAN /\ heap' \in Seq(Trees)
           /\ trees' \in [Files -> 0..Len(heap')]
           /\ analyses' \in [Files -> SUBSET Versions]
<1>1. heap' \in Seq(Trees) /\ Len(heap') = Len(heap) /\ Len(heap) \in Nat
  <2>1. Culled(heap, heap', {trees[f]})
    BY Deleting DEF Fell, TypeOK
  <2>2. QED
    BY <2>1 DEF Culled
<1>2. 0 \in Versions
  BY BoundAssumption DEF Versions
<1>3. trees' \in [Files -> 0..Len(heap')]
  <2>1. trees' \in [Files -> 0..Len(heap)]
    BY <1>1 DEF Fell, TypeOK
  <2>2. QED
    BY <1>1, <2>1
<1>4. analyses' \in [Files -> SUBSET Versions]
  BY <1>2 DEF Fell, TypeOK
<1>5. QED
  BY <1>1, <1>3, <1>4 DEF Fell, TypeOK

LEMMA TypeInit == Init => TypeOK
<1>1. 0 \in Versions /\ [type |-> "initialize"] \in Messages
  BY BoundAssumption DEF Versions, Messages, Calls
<1>2. <<>> \in Seq(Trees) /\ Len(<<>>) = 0
  BY EmptySeq
<1>3. <<[type |-> "initialize"]>> \in Seq(Messages)
  BY <1>1
<1>4. NoAnswer \in Answers
  BY <1>1 DEF NoAnswer, Answers
<1> SUFFICES ASSUME Init PROVE TypeOK
  OBVIOUS
<1>5. /\ heap \in Seq(Trees) /\ trees \in [Files -> 0..Len(heap)]
      /\ toServer \in Seq(Messages) /\ answer \in Answers
  BY <1>2, <1>3, <1>4 DEF Init
<1>6. /\ text \in [Files -> Versions] /\ documents \in [Files -> Versions]
      /\ analyses \in [Files -> SUBSET Versions]
  BY <1>1 DEF Init
<1>7. edits \in 0..MaxEdits /\ asks \in 0..MaxAsks /\ released \in Nat
  BY BoundAssumption DEF Init
<1>8. stopping \in BOOLEAN /\ started \in BOOLEAN /\ subscribed \in BOOLEAN
  BY DEF Init
<1>9. QED
  BY <1>5, <1>6, <1>7, <1>8 DEF TypeOK

LEMMA TypeStep == TypeOK /\ [Next]_vars => TypeOK'
<1> SUFFICES ASSUME TypeOK, [Next]_vars PROVE TypeOK'
  OBVIOUS
<1> USE BoundAssumption
<1>1. ASSUME NEW f \in Files, NEW throws \in BOOLEAN,
             OpenDocument(f, throws) \/ ChangeDocument(f, throws)
      PROVE  TypeOK'
  <2>1. PICK t \in {"didOpen", "didChange"} : Notify(t, f, edits + 1, throws)
    BY <1>1 DEF OpenDocument, ChangeDocument
  <2>2. edits + 1 \in 1..MaxEdits /\ edits + 1 \in Versions
    BY <2>1 DEF Notify, TypeOK, Versions
  <2>3. [type |-> t, file |-> f, version |-> edits + 1, throws |-> throws] \in Messages
    BY <2>2 DEF Messages, DocumentMessages
  <2>4. QED
    BY <2>1, <2>2, <2>3, Said DEF Notify, TypeOK, serverVars
<1>2. ASSUME NEW f \in Files, CloseDocument(f)
      PROVE  TypeOK'
  <2>1. edits + 1 \in 0..MaxEdits /\ 0 \in Versions
    BY <1>2 DEF CloseDocument, Notify, TypeOK, Versions
  <2>2. [type |-> "didClose", file |-> f, version |-> 0, throws |-> FALSE] \in Messages
    BY DEF Messages, DocumentMessages
  <2>3. QED
    BY <1>2, <2>1, <2>2, Said DEF CloseDocument, Notify, TypeOK, serverVars
<1>3. ASSUME NEW kind \in Kinds, NEW f \in Files, Ask(kind, f)
      PROVE  TypeOK'
  <2>1. [type |-> kind, file |-> f, asked |-> text[f]] \in Messages
    BY <1>3 DEF Ask, TypeOK, Versions, Messages, Requests
  <2>2. QED
    BY <1>3, <2>1, Said DEF Ask, TypeOK, serverVars
<1>4. CASE Stop
  <2>1. [type |-> "shutdown"] \in Messages
    BY DEF Messages, Calls
  <2>2. QED
    BY <1>4, <2>1, Said DEF Stop, TypeOK, serverVars
<1>5. CASE Leave
  <2>1. [type |-> "exit"] \in Messages
    BY DEF Messages, Calls
  <2>2. QED
    BY <1>5, <2>1, Said DEF Leave, TypeOK, editorVars, serverVars
<1>6. CASE Initialize
  BY <1>6, Taken DEF Initialize, TypeOK, editorVars
<1>7. CASE DidOpen \/ DidChange
  <2>1. PICK t \in {"didOpen", "didChange"} : Take(t)
    BY <1>7 DEF DidOpen, DidChange
  <2> DEFINE m == Head(toServer)
  <2>2. /\ m.file \in Files /\ m.version \in Versions /\ m.throws \in BOOLEAN
        /\ toServer' \in Seq(Messages)
    BY <2>1, Taken, MessageFields DEF Versions
  <2>3. documents' \in [Files -> Versions]
    BY <1>7, <2>2 DEF DidOpen, DidChange, TypeOK
  <2>4. CASE Ignore
    BY <1>7, <2>2, <2>3, <2>4 DEF DidOpen, DidChange, Ignore, TypeOK, editorVars
  <2>5. CASE \E n \in {1, 2} : Grow(m.file, m.version, n, m.throws)
    <3>1. /\ subscribed' \in BOOLEAN /\ heap' \in Seq(Trees)
          /\ trees' \in [Files -> 0..Len(heap')]
          /\ analyses' \in [Files -> SUBSET Versions]
      BY <2>2, <2>5, GrowTypes
    <3>2. QED
      BY <1>7, <2>2, <2>3, <3>1 DEF DidOpen, DidChange, TypeOK, editorVars
  <2>6. QED
    BY <1>7, <2>4, <2>5 DEF DidOpen, DidChange
<1>8. CASE DidClose
  <2> DEFINE f == Head(toServer).file
  <2>1. f \in Files /\ toServer' \in Seq(Messages) /\ 0 \in Versions
    BY <1>8, Taken, MessageFields DEF DidClose, Versions
  <2>2. CASE Ignore
    BY <1>8, <2>1, <2>2 DEF DidClose, Ignore, TypeOK, editorVars
  <2>3. CASE Fell(f)
    BY <1>8, <2>1, <2>3, FellTypes DEF DidClose, TypeOK, editorVars
  <2>4. QED
    BY <1>8, <2>2, <2>3 DEF DidClose
<1>9. ASSUME NEW kind \in Kinds, Reply(kind)
      PROVE  TypeOK'
  <2> DEFINE m == Head(toServer)
  <2>1. /\ m.file \in Files /\ m.asked \in Versions /\ toServer' \in Seq(Messages)
    BY <1>9, Taken, MessageFields DEF Reply, Versions
  <2>2. Answered(kind, m.file) \in SUBSET Versions
    <3>1. \A i \in 1..Len(heap) : heap[i].of \in Versions
      <4>1. heap \in Seq(Trees)
        BY DEF TypeOK
      <4>2. QED
        BY <4>1, ElementOfSeq, TreeFields
    <3>2. Len(heap) \in Nat
      BY LenProperties DEF TypeOK
    <3>3. trees[m.file] # 0 => trees[m.file] \in 1..Len(heap)
      BY <2>1, <3>2 DEF TypeOK
    <3>4. QED
      BY <2>1, <3>1, <3>3 DEF Answered, Highlighted, TypeOK
  <2>3. answer' \in Answers
    BY <1>9, <2>1, <2>2 DEF Reply, Answers, TypeOK
  <2>4. QED
    BY <1>9, <2>1, <2>3 DEF Reply, TypeOK, editorVars, serverVars
<1>10. CASE Shutdown \/ Exit
  <2>1. PICK t : Take(t) /\ Release
    BY <1>10 DEF Shutdown, Exit
  <2>2. heap' \in Seq(Trees) /\ Len(heap') = Len(heap)
    <3>1. Culled(heap, heap', {trees[f] : f \in Files})
      BY <2>1, Deleting DEF Release, TypeOK
    <3>2. QED
      BY <3>1 DEF Culled
  <2>3. toServer' \in Seq(Messages)
    BY <2>1, Taken
  <2>4. trees' \in [Files -> 0..Len(heap')] /\ released' \in Nat
    <3>1. trees' \in [Files -> 0..Len(heap)] /\ released' \in Nat
      BY <2>1 DEF Release, TypeOK
    <3>2. QED
      BY <2>2, <3>1
  <2>5. QED
    BY <2>1, <2>2, <2>3, <2>4 DEF Release, TypeOK, editorVars
<1>11. CASE UNCHANGED vars
  BY <1>11 DEF TypeOK, vars, editorVars, serverVars
<1>12. QED
  BY <1>1, <1>2, <1>3, <1>4, <1>5, <1>6, <1>7, <1>8, <1>9, <1>10, <1>11, Handlers
     DEF Next, Editor

\* DocumentForest - type correctness, for all documents and bounds.
THEOREM TypeCorrect == Spec => []TypeOK
BY TypeInit, TypeStep, PTL DEF Spec

(***************************************************************************)
(* The life of the server: 'initialize' first, 'shutdown' and 'exit' last.  *)
(***************************************************************************)

\* What the server may take, and when.
LEMMA Order ==
    ASSUME TypeOK, LifeCycle, NEW t, Take(t)
    PROVE  /\ t = "initialize" => ~started /\ Len(toServer) = 1
           /\ t # "initialize" => started
           /\ t \notin {"shutdown", "exit"} => released = 0
           /\ t = "shutdown" => released = 0 /\ stopping /\ Len(toServer) = 1
           /\ t = "exit" => released = 1 /\ stopping /\ Len(toServer) = 1
<1>1. /\ toServer # <<>> /\ toServer[1].type = t /\ Len(toServer) \in Nat
      /\ 1 \in 1..Len(toServer)
  BY Taken DEF Take
<1>2. released \in {0, 1, 2}
  BY DEF TypeOK, LifeCycle
<1>3. ~started => t = "initialize" /\ Len(toServer) = 1 /\ released = 0 /\ ~stopping
  BY <1>1 DEF LifeCycle
<1>4. started => t # "initialize"
  BY <1>1 DEF LifeCycle
<1>5. ~stopping => released = 0 /\ t \notin {"shutdown", "exit"}
  BY <1>1 DEF LifeCycle, Ending
<1>6. released = 1 => t = "exit" /\ Len(toServer) = 1
  BY <1>1 DEF LifeCycle
<1>7. released # 2
  BY <1>1 DEF LifeCycle
<1>8. ASSUME stopping, released = 0, t \in {"shutdown", "exit"}
      PROVE  t = "shutdown" /\ Len(toServer) = 1
  <2>1. /\ toServer[Len(toServer)].type = "shutdown"
        /\ \A i \in 1..(Len(toServer) - 1) : ~Ending(toServer[i])
    BY <1>8 DEF LifeCycle
  <2>2. Ending(toServer[1])
    BY <1>1, <1>8 DEF Ending
  <2>3. 1 \notin 1..(Len(toServer) - 1)
    BY <2>1, <2>2
  <2>4. Len(toServer) = 1
    <3>1. \A n \in Nat : 1 \in 1..n /\ 1 \notin 1..(n - 1) => n = 1
      OBVIOUS
    <3>2. QED
      BY <1>1, <2>3, <3>1
  <2>5. QED
    BY <1>1, <2>1, <2>4
<1>9. QED
  BY <1>1, <1>2, <1>3, <1>4, <1>5, <1>6, <1>7, <1>8

LEMMA LifeCycleStep == TypeOK /\ LifeCycle /\ [Next]_vars => LifeCycle'
<1> SUFFICES ASSUME TypeOK, LifeCycle, [Next]_vars PROVE LifeCycle'
  OBVIOUS
\* A message on a document, or a request.
<1>1. ASSUME NEW m \in Messages, ~Ending(m), m.type # "initialize", Say(m),
             started, ~stopping, UNCHANGED <<stopping, serverVars>>
      PROVE  LifeCycle'
  <2>1. released' = 0 /\ started' /\ ~stopping'
    BY <1>1 DEF LifeCycle, serverVars
  <2>2. \A i \in 1..Len(toServer') : ~Ending(toServer'[i]) /\ toServer'[i].type # "initialize"
    BY <1>1, Said DEF LifeCycle
  <2>3. QED
    BY <2>1, <2>2 DEF LifeCycle, Ending
<1>2. ASSUME NEW f \in Files, NEW t \in {"didOpen", "didChange", "didClose"}, NEW v,
             NEW throws, [type |-> t, file |-> f, version |-> v, throws |-> throws] \in Messages,
             Notify(t, f, v, throws)
      PROVE  LifeCycle'
  BY <1>1, <1>2 DEF Notify, Ending
<1>3. ASSUME NEW f \in Files, NEW throws \in BOOLEAN,
             OpenDocument(f, throws) \/ ChangeDocument(f, throws)
      PROVE  LifeCycle'
  <2>1. PICK t \in {"didOpen", "didChange"} : Notify(t, f, edits + 1, throws)
    BY <1>3 DEF OpenDocument, ChangeDocument
  <2>2. edits + 1 \in 1..MaxEdits
    BY <2>1, BoundAssumption DEF Notify, TypeOK
  <2>3. [type |-> t, file |-> f, version |-> edits + 1, throws |-> throws] \in Messages
    BY <2>2 DEF Messages, DocumentMessages
  <2>4. QED
    BY <1>2, <2>1, <2>3
<1>4. ASSUME NEW f \in Files, CloseDocument(f)
      PROVE  LifeCycle'
  <2>1. [type |-> "didClose", file |-> f, version |-> 0, throws |-> FALSE] \in Messages
    BY DEF Messages, DocumentMessages
  <2>2. QED
    BY <1>2, <1>4, <2>1 DEF CloseDocument
<1>5. ASSUME NEW kind \in Kinds, NEW f \in Files, Ask(kind, f)
      PROVE  LifeCycle'
  <2>1. [type |-> kind, file |-> f, asked |-> text[f]] \in Messages
    BY <1>5 DEF Ask, TypeOK, Versions, Messages, Requests
  <2>2. started
    BY <1>5 DEF Ask, LifeCycle
  <2>3. QED
    BY <1>1, <1>5, <2>1, <2>2 DEF Ask, Ending, Kinds
<1>6. CASE Stop
  <2>1. [type |-> "shutdown"] \in Messages
    BY DEF Messages, Calls
  <2>2. /\ Len(toServer) \in Nat /\ Len(toServer') = Len(toServer) + 1
        /\ toServer'[Len(toServer) + 1].type = "shutdown"
        /\ \A i \in 1..Len(toServer) : toServer'[i] = toServer[i]
        /\ \A i \in 1..Len(toServer') : i \in 1..Len(toServer) \/ i = Len(toServer) + 1
    BY <1>6, <2>1, Said DEF Stop
  <2>3. stopping' /\ started' /\ released' = 0
    BY <1>6 DEF Stop, serverVars, LifeCycle
  <2>4. \A i \in 1..Len(toServer) : ~Ending(toServer'[i]) /\ toServer'[i].type # "initialize"
    BY <1>6, <2>2 DEF Stop, LifeCycle
  <2>5. toServer' # <<>> /\ toServer'[Len(toServer')].type = "shutdown"
    BY <2>2
  <2>6. \A i \in 1..(Len(toServer') - 1) : ~Ending(toServer'[i])
    BY <2>2, <2>4
  <2>7. \A i \in 1..Len(toServer') : toServer'[i].type # "initialize"
    BY <2>2, <2>4
  <2>8. QED
    BY <2>3, <2>5, <2>6, <2>7 DEF LifeCycle, Ending
<1>7. CASE Leave
  <2>1. [type |-> "exit"] \in Messages
    BY DEF Messages, Calls
  <2>2. /\ Len(toServer') = 1 /\ toServer'[1].type = "exit"
        /\ \A i \in 1..Len(toServer') : toServer'[i].type # "initialize"
    BY <1>7, <2>1, Said DEF Leave
  <2>3. stopping' /\ started' /\ released' = 1
    BY <1>7 DEF Leave, editorVars, serverVars, LifeCycle
  <2>4. QED
    BY <2>2, <2>3 DEF LifeCycle, Ending
<1>8. CASE Initialize
  <2>1. ~stopping /\ released = 0 /\ toServer' = <<>>
    <3>1. ~started /\ Len(toServer) = 1 /\ Take("initialize")
      BY <1>8, Order DEF Initialize
    <3>2. Len(toServer') = 0 /\ toServer' \in Seq(Messages)
      BY <3>1, Taken
    <3>3. QED
      BY <3>1, <3>2, EmptySeq DEF LifeCycle
  <2>2. started' /\ ~stopping' /\ released' = 0
    BY <1>8, <2>1 DEF Initialize, editorVars
  <2>3. \A i \in 1..Len(toServer') : FALSE
    BY <2>1, EmptySeq
  <2>4. QED
    BY <2>2, <2>3 DEF LifeCycle, Ending
\* A message on a document, or a request, is taken.
<1>9. ASSUME NEW t, Take(t), t \notin {"initialize", "shutdown", "exit"},
             UNCHANGED <<stopping, started, released>>
      PROVE  LifeCycle'
  <2>1. started' /\ released' = 0
    BY <1>9, Order
  <2>2. /\ Len(toServer) \in Nat /\ Len(toServer') = Len(toServer) - 1
        /\ \A i \in 1..Len(toServer') :
              i + 1 \in 1..Len(toServer) /\ toServer'[i] = toServer[i + 1]
        /\ 1 \in 1..Len(toServer) /\ toServer[1].type = t
        /\ toServer' \in Seq(Messages)
    BY <1>9, Taken
  <2>3. \A i \in 1..Len(toServer') : toServer'[i].type # "initialize"
    BY <2>1, <2>2, <1>9 DEF LifeCycle
  <2>4. ~stopping' => \A i \in 1..Len(toServer') : ~Ending(toServer'[i])
    BY <2>2, <1>9 DEF LifeCycle, Ending
  <2>5. ASSUME stopping'
        PROVE  /\ toServer' # <<>> /\ toServer'[Len(toServer')].type = "shutdown"
               /\ \A i \in 1..(Len(toServer') - 1) : ~Ending(toServer'[i])
    <3>1. /\ toServer[Len(toServer)].type = "shutdown"
          /\ \A i \in 1..(Len(toServer) - 1) : ~Ending(toServer[i])
      BY <1>9, <2>1, <2>5 DEF LifeCycle
    <3>2. Len(toServer) # 1
      BY <1>9, <2>2, <3>1
    <3>3. Len(toServer') \in 1..Len(toServer') /\ Len(toServer') # 0
      BY <2>2, <3>2
    <3>4. toServer'[Len(toServer')] = toServer[Len(toServer)]
      BY <2>2, <3>3
    <3>5. \A i \in 1..(Len(toServer') - 1) :
             i \in 1..Len(toServer') /\ i + 1 \in 1..(Len(toServer) - 1)
      BY <2>2
    <3>6. \A i \in 1..(Len(toServer') - 1) : ~Ending(toServer'[i])
      BY <2>2, <3>1, <3>5 DEF Ending
    <3>7. toServer' # <<>>
      BY <3>3, EmptySeq
    <3>8. QED
      BY <3>1, <3>4, <3>6, <3>7
  <2>6. QED
    BY <2>1, <2>3, <2>4, <2>5 DEF LifeCycle, Ending
<1>10. CASE DidOpen \/ DidChange \/ DidClose
  <2>1. PICK t \in {"didOpen", "didChange", "didClose"} : Take(t)
    BY <1>10 DEF DidOpen, DidChange, DidClose
  <2>2. UNCHANGED <<stopping, started, released>>
    BY <1>10 DEF DidOpen, DidChange, DidClose, editorVars
  <2>3. QED
    BY <1>9, <2>1, <2>2
<1>11. ASSUME NEW kind \in Kinds, Reply(kind)
       PROVE  LifeCycle'
  BY <1>9, <1>11 DEF Reply, Kinds, editorVars, serverVars
<1>12. CASE Shutdown \/ Exit
  <2>1. PICK t \in {"shutdown", "exit"} : Take(t) /\ Release
    BY <1>12 DEF Shutdown, Exit
  <2>2. started /\ stopping /\ Len(toServer) = 1 /\ released \in {0, 1}
    BY <2>1, Order
  <2>3. toServer' = <<>>
    <3>1. toServer' \in Seq(Messages) /\ Len(toServer') = 0
      BY <2>1, <2>2, Taken
    <3>2. QED
      BY <3>1, EmptySeq
  <2>4. \A i \in 1..Len(toServer') : FALSE
    BY <2>3, EmptySeq
  <2>5. started' /\ stopping' /\ released' \in {1, 2}
    BY <2>1, <2>2 DEF Release, editorVars
  <2>6. QED
    BY <2>3, <2>4, <2>5 DEF LifeCycle
<1>13. CASE UNCHANGED vars
  BY <1>13 DEF LifeCycle, Ending, vars, editorVars, serverVars
<1>14. QED
  BY <1>3, <1>4, <1>5, <1>6, <1>7, <1>8, <1>10, <1>11, <1>12, <1>13, Handlers
     DEF Next, Editor

(***************************************************************************)
(* The trees.                                                              *)
(***************************************************************************)

\* Entries of the forest that are not 0 lead to trees.
LEMMA Entries ==
    ASSUME TypeOK
    PROVE  /\ heap \in Seq(Trees) /\ Len(heap) \in Nat
           /\ \A f \in Files : trees[f] \in 0..Len(heap)
           /\ \A f \in Files : trees[f] # 0 => trees[f] \in 1..Len(heap)
<1>1. heap \in Seq(Trees) /\ Len(heap) \in Nat
  BY LenProperties DEF TypeOK
<1>2. \A f \in Files : trees[f] \in 0..Len(heap)
  BY DEF TypeOK
<1>3. QED
  BY <1>1, <1>2

\* What Grow does to the trees.
LEMMA Growing ==
    ASSUME TypeOK, NEW f \in Files, NEW v \in Versions, NEW n \in {1, 2},
           NEW throws \in BOOLEAN, Grow(f, v, n, throws)
    PROVE  /\ Len(heap) \in Nat /\ Len(heap') \in Nat /\ Len(heap') > Len(heap)
           /\ trees'[f] = Len(heap') /\ heap'[Len(heap')] = [of |-> v, deleted |-> 0]
           /\ \A g \in Files : g # f => trees'[g] = trees[g]
           /\ \A i \in 1..Len(heap) : heap'[i] = heap[i]
           /\ \A i \in 1..Len(heap') : i \in 1..Len(heap) \/ heap'[i].deleted = 0
<1>1. PICK k \in {1, 2} : /\ heap' = Parsed(heap, v, k)
                          /\ trees' = [trees EXCEPT ![f] = Len(heap) + k]
  BY DEF Grow
<1>2. /\ Len(heap) \in Nat /\ Len(heap') = Len(heap) + k
      /\ \A i \in 1..Len(heap) : heap'[i] = heap[i]
      /\ \A i \in (Len(heap) + 1)..(Len(heap) + k) : heap'[i] = [of |-> v, deleted |-> 0]
  <2>1. heap \in Seq(Trees) /\ k \in Nat
    BY DEF TypeOK
  <2>2. Extended(heap, heap', v, k)
    BY <1>1, <2>1, Parsing
  <2>3. QED
    BY <2>2 DEF Extended
<1>3. trees'[f] = Len(heap') /\ \A g \in Files : g # f => trees'[g] = trees[g]
  BY <1>1, <1>2 DEF TypeOK
<1>4. \A i \in 1..Len(heap') :
         i \in 1..Len(heap) \/ i \in (Len(heap) + 1)..(Len(heap) + k)
  BY <1>2
<1>5. Len(heap') \in (Len(heap) + 1)..(Len(heap) + k)
  BY <1>2
<1>6. heap'[Len(heap')] = [of |-> v, deleted |-> 0]
  BY <1>2, <1>5
<1>7. \A i \in 1..Len(heap') : i \in 1..Len(heap) \/ heap'[i].deleted = 0
  BY <1>2, <1>4
<1>8. Len(heap') \in Nat /\ Len(heap') > Len(heap)
  BY <1>2
<1>9. QED
  BY <1>2, <1>3, <1>6, <1>7, <1>8

\* What Fell does to the trees.
LEMMA Felling ==
    ASSUME TypeOK, NEW f \in Files, Fell(f)
    PROVE  /\ trees'[f] = 0 /\ \A g \in Files : g # f => trees'[g] = trees[g]
           /\ Len(heap') = Len(heap)
           /\ \A i \in 1..Len(heap) :
                 /\ heap[i].deleted \in Nat /\ heap'[i].of = heap[i].of
                 /\ i = trees[f] => heap'[i].deleted = heap[i].deleted + 1
                 /\ i # trees[f] => heap'[i].deleted = heap[i].deleted
<1>1. heap' = Deleted(heap, {trees[f]}) /\ heap \in Seq(Trees)
  BY DEF Fell, TypeOK
<1>2. /\ Len(heap') = Len(heap)
      /\ \A i \in 1..Len(heap) :
            /\ heap[i].deleted \in Nat /\ heap'[i].of = heap[i].of
            /\ i \in {trees[f]} => heap'[i].deleted = heap[i].deleted + 1
            /\ i \notin {trees[f]} => heap'[i].deleted = heap[i].deleted
  <2>1. Culled(heap, heap', {trees[f]})
    BY <1>1, Deleting
  <2>2. QED
    BY <2>1 DEF Culled
<1>3. QED
  BY <1>2 DEF Fell, TypeOK

\* What Release does to the trees.
LEMMA Releasing ==
    ASSUME TypeOK, Release
    PROVE  /\ trees' = trees /\ Len(heap') = Len(heap)
           /\ \A i \in 1..Len(heap) :
                 /\ heap[i].deleted \in Nat /\ heap'[i].of = heap[i].of
                 /\ (\E f \in Files : i = trees[f]) => heap'[i].deleted = heap[i].deleted + 1
                 /\ (\A f \in Files : i # trees[f]) => heap'[i].deleted = heap[i].deleted
<1> DEFINE S == {trees[f] : f \in Files}
<1>1. Culled(heap, heap', S) /\ trees' = trees
  BY Deleting DEF Release, TypeOK
<1>2. \A i : i \in S <=> \E f \in Files : i = trees[f]
  OBVIOUS
<1> HIDE DEF S
<1>3. QED
  BY <1>1, <1>2 DEF Culled

\* The three ways a message on a document goes.
LEMMA DocumentMessage ==
    ASSUME TypeOK, LifeCycle, DidOpen \/ DidChange \/ DidClose
    PROVE  LET m == Head(toServer)
           IN  /\ released = 0 /\ released' = 0 /\ UNCHANGED answer
               /\ m.file \in Files /\ m.version \in Versions
               /\ documents' = [documents EXCEPT ![m.file] = m.version]
               /\ \/ ~subscribed /\ Ignore
                  \/ /\ subscribed /\ m.version # 0
                     /\ \E n \in {1, 2}, throws \in BOOLEAN :
                           Grow(m.file, m.version, n, throws)
                  \/ subscribed /\ m.version = 0 /\ Fell(m.file)
<1> DEFINE m == Head(toServer)
<1>1. PICK t \in {"didOpen", "didChange", "didClose"} : Take(t)
  BY DEF DidOpen, DidChange, DidClose
<1>2. released = 0 /\ released' = 0 /\ UNCHANGED answer
  BY <1>1, Order DEF DidOpen, DidChange, DidClose
<1>3. m \in Messages /\ m.type = t
  BY <1>1, Taken
<1>4. CASE DidOpen \/ DidChange
  <2>1. m.type \in {"didOpen", "didChange"}
    BY <1>4 DEF DidOpen, DidChange, Take
  <2>2. m.file \in Files /\ m.version \in 1..MaxEdits /\ m.throws \in BOOLEAN
    BY <1>3, <2>1, MessageFields
  <2>3. m.version \in Versions /\ m.version # 0
    BY <2>2, BoundAssumption DEF Versions
  <2>4. \/ ~subscribed /\ Ignore
        \/ subscribed /\ \E n \in {1, 2} : Grow(m.file, m.version, n, m.throws)
    BY <1>4 DEF DidOpen, DidChange
  <2>5. documents' = [documents EXCEPT ![m.file] = m.version]
    BY <1>4 DEF DidOpen, DidChange
  <2>6. QED
    BY <1>2, <2>2, <2>3, <2>4, <2>5
<1>5. CASE DidClose
  <2>1. m.type = "didClose"
    BY <1>5 DEF DidClose, Take
  <2>2. m.file \in Files /\ m.version = 0
    BY <1>3, <2>1, MessageFields
  <2>3. m.version \in Versions
    BY <2>2, BoundAssumption DEF Versions
  <2>4. QED
    BY <1>2, <1>5, <2>2, <2>3 DEF DidClose
<1>6. QED
  BY <1>4, <1>5

LEMMA TreesStep ==
    TypeOK /\ LifeCycle /\ TreesAreOwned /\ [Next]_vars => TreesAreOwned'
<1> SUFFICES ASSUME TypeOK, LifeCycle, TreesAreOwned, [Next]_vars PROVE TreesAreOwned'
  OBVIOUS
<1>1. ASSUME UNCHANGED <<trees, heap, released>>
      PROVE  TreesAreOwned'
  BY <1>1 DEF TreesAreOwned
<1>2. CASE DidOpen \/ DidChange \/ DidClose
  <2> DEFINE m == Head(toServer)
  <2>1. released = 0 /\ released' = 0 /\ m.file \in Files /\ m.version \in Versions
    BY <1>2, DocumentMessage
  <2>2. /\ \A f, g \in Files : f # g /\ trees[f] # 0 => trees[f] # trees[g]
        /\ \A f \in Files : trees[f] # 0 => heap[trees[f]].deleted = 0
        /\ \A n \in 1..Len(heap) : heap[n].deleted <= 1
    BY <2>1 DEF TreesAreOwned
  <2>3. CASE Ignore
    BY <1>1, <2>1, <2>3 DEF Ignore
  <2>4. ASSUME NEW n \in {1, 2}, NEW throws \in BOOLEAN,
               Grow(m.file, m.version, n, throws)
        PROVE  TreesAreOwned'
    <3>1. /\ Len(heap) \in Nat /\ Len(heap') \in Nat /\ Len(heap') > Len(heap)
          /\ trees'[m.file] = Len(heap')
          /\ heap'[Len(heap')] = [of |-> m.version, deleted |-> 0]
          /\ \A g \in Files : g # m.file => trees'[g] = trees[g]
          /\ \A i \in 1..Len(heap) : heap'[i] = heap[i]
          /\ \A i \in 1..Len(heap') : i \in 1..Len(heap) \/ heap'[i].deleted = 0
      BY <2>1, <2>4, Growing
    <3>2. \A f \in Files : trees[f] # Len(heap') /\ (trees[f] # 0 => trees[f] \in 1..Len(heap))
      BY <3>1, Entries
    <3>3. \A f, g \in Files : f # g /\ trees'[f] # 0 => trees'[f] # trees'[g]
      BY <2>2, <3>1, <3>2
    <3>4. \A f \in Files : trees'[f] # 0 => heap'[trees'[f]].deleted = 0
      BY <2>2, <3>1, <3>2
    <3>5. \A i \in 1..Len(heap') : heap'[i].deleted <= 1
      BY <2>2, <3>1
    <3>6. QED
      BY <3>3, <3>4, <3>5 DEF TreesAreOwned
  <2>5. CASE Fell(m.file)
    <3>1. /\ trees'[m.file] = 0 /\ \A g \in Files : g # m.file => trees'[g] = trees[g]
          /\ Len(heap') = Len(heap)
          /\ \A i \in 1..Len(heap) :
                /\ heap[i].deleted \in Nat /\ heap'[i].of = heap[i].of
                /\ i = trees[m.file] => heap'[i].deleted = heap[i].deleted + 1
                /\ i # trees[m.file] => heap'[i].deleted = heap[i].deleted
      BY <2>1, <2>5, Felling
    <3>2. \A f \in Files : trees[f] # 0 => trees[f] \in 1..Len(heap)
      BY Entries
    <3>3. \A f, g \in Files : f # g /\ trees'[f] # 0 => trees'[f] # trees'[g]
      BY <2>2, <3>1
    <3>4. \A f \in Files : trees'[f] # 0 => heap'[trees'[f]].deleted = 0
      BY <2>1, <2>2, <3>1, <3>2
    <3>5. \A i \in 1..Len(heap) : i = trees[m.file] => heap[i].deleted = 0 /\ heap'[i].deleted = 1
      <4>1. \A i \in 1..Len(heap) : i # 0
        OBVIOUS
      <4>2. QED
        BY <2>1, <2>2, <3>1, <4>1
    <3>6. \A i \in 1..Len(heap') : heap'[i].deleted <= 1
      BY <2>2, <3>1, <3>5
    <3>7. QED
      BY <3>3, <3>4, <3>6 DEF TreesAreOwned
  <2>6. QED
    BY <1>2, <2>3, <2>4, <2>5, DocumentMessage
<1>3. CASE Shutdown
  <2>1. released = 0 /\ Release
    BY <1>3, Order DEF Shutdown
  <2>2. /\ \A f, g \in Files : f # g /\ trees[f] # 0 => trees[f] # trees[g]
        /\ \A f \in Files : trees[f] # 0 => heap[trees[f]].deleted = 0
        /\ \A n \in 1..Len(heap) : heap[n].deleted <= 1
    BY <2>1 DEF TreesAreOwned
  <2>3. /\ trees' = trees /\ Len(heap') = Len(heap)
        /\ \A i \in 1..Len(heap) :
              /\ heap[i].deleted \in Nat
              /\ (\E f \in Files : i = trees[f]) => heap'[i].deleted = heap[i].deleted + 1
              /\ (\A f \in Files : i # trees[f]) => heap'[i].deleted = heap[i].deleted
    BY <2>1, Releasing
  <2>4. \A i \in 1..Len(heap), f \in Files : i = trees[f] => heap'[i].deleted = 1
    <3>1. \A i \in 1..Len(heap) : i # 0
      OBVIOUS
    <3>2. \A i \in 1..Len(heap), f \in Files : i = trees[f] => heap[i].deleted = 0
      BY <2>2, <3>1
    <3>3. QED
      BY <2>3, <3>2
  <2>5. \A i \in 1..Len(heap') : heap'[i].deleted <= 1
    BY <2>2, <2>3, <2>4
  <2>6. released' = 1
    BY <2>1 DEF Release
  <2>7. QED
    BY <2>2, <2>3, <2>5, <2>6 DEF TreesAreOwned
<1>4. CASE Exit
  <2>1. released = 1 /\ Release
    BY <1>4, Order DEF Exit
  <2>2. released' = 2 /\ trees' = trees
    BY <2>1 DEF Release
  <2>3. QED
    BY <2>2 DEF TreesAreOwned
<1>5. CASE Editor
  BY <1>1, <1>5 DEF Editor, OpenDocument, ChangeDocument, CloseDocument, Notify, Ask, Stop,
     Leave, serverVars
<1>6. CASE Initialize \/ \E kind \in Kinds : Reply(kind)
  BY <1>1, <1>6 DEF Initialize, Reply, serverVars
<1>7. CASE UNCHANGED vars
  BY <1>1, <1>7 DEF vars, serverVars
<1>8. QED
  BY <1>2, <1>3, <1>4, <1>5, <1>6, <1>7, Handlers DEF Next

LEMMA ForestStep ==
    TypeOK /\ LifeCycle /\ ForestFollows /\ [Next]_vars => ForestFollows'
<1> SUFFICES ASSUME TypeOK, LifeCycle, ForestFollows, [Next]_vars, subscribed'
             PROVE  \A f \in Files :
                      /\ documents'[f] = 0 => trees'[f] = 0 /\ analyses'[f] \subseteq {0}
                      /\ documents'[f] # 0 =>
                            /\ trees'[f] # 0 /\ heap'[trees'[f]].of = documents'[f]
                            /\ analyses'[f] = {documents'[f]}
  BY DEF ForestFollows
<1> DEFINE Holds(f) ==
      /\ documents[f] = 0 => trees[f] = 0 /\ analyses[f] \subseteq {0}
      /\ documents[f] # 0 => /\ trees[f] # 0 /\ heap[trees[f]].of = documents[f]
                             /\ analyses[f] = {documents[f]}
<1> DEFINE HoldsAfter(f) ==
      /\ documents'[f] = 0 => trees'[f] = 0 /\ analyses'[f] \subseteq {0}
      /\ documents'[f] # 0 => /\ trees'[f] # 0 /\ heap'[trees'[f]].of = documents'[f]
                              /\ analyses'[f] = {documents'[f]}
<1>0. subscribed => \A f \in Files : Holds(f)
  BY DEF ForestFollows
<1>1. ASSUME UNCHANGED serverVars
      PROVE  \A f \in Files : HoldsAfter(f)
  BY <1>0, <1>1 DEF serverVars
<1>2. CASE DidOpen \/ DidChange \/ DidClose
  <2> DEFINE m == Head(toServer)
  <2>1. /\ m.file \in Files /\ m.version \in Versions
        /\ documents' = [documents EXCEPT ![m.file] = m.version]
    BY <1>2, DocumentMessage
  <2>2. documents'[m.file] = m.version /\ \A g \in Files : g # m.file => documents'[g] = documents[g]
    BY <2>1 DEF TypeOK
  <2>3. subscribed
    BY <1>2, DocumentMessage DEF Ignore
  <2>4. \A f \in Files : Holds(f) /\ (trees[f] # 0 => trees[f] \in 1..Len(heap))
    BY <1>0, <2>3, Entries
  <2>5. ASSUME NEW n \in {1, 2}, NEW throws \in BOOLEAN, m.version # 0,
               Grow(m.file, m.version, n, throws)
        PROVE  \A f \in Files : HoldsAfter(f)
    <3>1. ~throws
      BY <2>5 DEF Grow
    <3>2. analyses'[m.file] = {m.version} /\ \A g \in Files : g # m.file => analyses'[g] = analyses[g]
      BY <2>1, <2>5, <3>1 DEF Grow, TypeOK
    <3>3. /\ Len(heap') \in Nat /\ Len(heap) \in Nat /\ Len(heap') > Len(heap)
          /\ trees'[m.file] = Len(heap')
          /\ heap'[Len(heap')] = [of |-> m.version, deleted |-> 0]
          /\ \A g \in Files : g # m.file => trees'[g] = trees[g]
          /\ \A i \in 1..Len(heap) : heap'[i] = heap[i]
      BY <2>1, <2>5, Growing
    <3>4. trees'[m.file] # 0 /\ heap'[trees'[m.file]].of = m.version
      <4>1. Len(heap') # 0
        BY <3>3
      <4>2. QED
        BY <3>3, <4>1
    <3>5. HoldsAfter(m.file)
      BY <2>2, <2>5, <3>2, <3>4
    <3>6. \A g \in Files : g # m.file => HoldsAfter(g)
      BY <2>2, <2>4, <3>2, <3>3
    <3>7. QED
      BY <3>5, <3>6
  <2>6. ASSUME Fell(m.file), m.version = 0
        PROVE  \A f \in Files : HoldsAfter(f)
    <3>1. analyses'[m.file] = {0} /\ \A g \in Files : g # m.file => analyses'[g] = analyses[g]
      BY <2>1, <2>6 DEF Fell, TypeOK
    <3>2. /\ trees'[m.file] = 0 /\ \A g \in Files : g # m.file => trees'[g] = trees[g]
          /\ \A i \in 1..Len(heap) : heap'[i].of = heap[i].of
      BY <2>1, <2>6, Felling
    <3>3. HoldsAfter(m.file)
      BY <2>2, <2>6, <3>1, <3>2
    <3>4. \A g \in Files : g # m.file => HoldsAfter(g)
      BY <2>2, <2>4, <3>1, <3>2
    <3>5. QED
      BY <3>3, <3>4
  <2>7. QED
    BY <1>2, <2>3, <2>5, <2>6, DocumentMessage
<1>3. CASE Initialize
  <2>1. /\ ~started
        /\ UNCHANGED <<documents, trees, analyses>>
    BY <1>3, Order DEF Initialize
  <2>2. QED
    BY <2>1 DEF LifeCycle
<1>4. CASE Shutdown \/ Exit
  <2>1. PICK t : Take(t) /\ Release
    BY <1>4 DEF Shutdown, Exit
  <2>2. UNCHANGED <<documents, trees, analyses, subscribed>>
    BY <2>1 DEF Release
  <2>3. \A i \in 1..Len(heap) : heap'[i].of = heap[i].of
    BY <2>1, Releasing
  <2>4. \A f \in Files : Holds(f) /\ (trees[f] # 0 => trees[f] \in 1..Len(heap))
    BY <1>0, <2>2, Entries
  <2>5. QED
    BY <2>2, <2>3, <2>4
<1>5. CASE Editor
  BY <1>1, <1>5 DEF Editor, OpenDocument, ChangeDocument, CloseDocument, Notify, Ask, Stop, Leave
<1>6. CASE (\E kind \in Kinds : Reply(kind)) \/ UNCHANGED vars
  BY <1>1, <1>6 DEF Reply, vars
<1>7. QED
  BY <1>2, <1>3, <1>4, <1>5, <1>6, Handlers DEF Next

(***************************************************************************)
(* Editor and server agree on the texts, and so do answers and questions.  *)
(***************************************************************************)

\* A message at the end of the channel changes nothing for those before it.
LEMMA ReachesBefore ==
    ASSUME NEW docs, NEW c, NEW d, NEW f, NEW v, NEW n \in Nat, NEW i \in 1..(n + 1),
           \A j \in 1..n : d[j] = c[j],
           Reaches(docs, c, i, f, v)
    PROVE  Reaches(docs, d, i, f, v)
<1>1. \A j \in 1..(i - 1) : d[j] = c[j]
  <2>1. \A j \in 1..(i - 1) : j \in 1..n
    OBVIOUS
  <2>2. QED
    BY <2>1
<1>2. ASSUME NEW j \in 1..(i - 1), IsEvent(c[j], f), c[j].version = v,
             \A k \in (j + 1)..(i - 1) : ~IsEvent(c[k], f)
      PROVE  Reaches(docs, d, i, f, v)
  <2>1. \A k \in (j + 1)..(i - 1) : k \in 1..(i - 1)
    OBVIOUS
  <2>2. d[j] = c[j] /\ \A k \in (j + 1)..(i - 1) : d[k] = c[k]
    BY <1>1, <2>1
  <2>3. QED
    BY <1>2, <2>2 DEF Reaches
<1>3. CASE docs[f] = v /\ \A k \in 1..(i - 1) : ~IsEvent(c[k], f)
  BY <1>1, <1>3 DEF Reaches
<1>4. QED
  BY <1>2, <1>3 DEF Reaches

\* A message at the end of the channel: an event of the document is what the document
\* comes to, any other leaves that alone.
LEMMA ReachesBehind ==
    ASSUME NEW docs, NEW c, NEW f, NEW v, NEW n \in Nat,
           \/ IsEvent(c[n + 1], f) /\ c[n + 1].version = v
           \/ ~IsEvent(c[n + 1], f) /\ Reaches(docs, c, n + 1, f, v)
    PROVE  Reaches(docs, c, n + 2, f, v)
<1>1. /\ (n + 2) - 1 = n + 1 /\ (n + 1) - 1 = n
      /\ n + 1 \in 1..(n + 1) /\ \A k \in ((n + 1) + 1)..(n + 1) : FALSE
      /\ \A k \in 1..(n + 1) : k \in 1..n \/ k = n + 1
      /\ \A j \in 1..n : j \in 1..(n + 1)
      /\ \A j \in 1..n : \A k \in (j + 1)..(n + 1) : k \in (j + 1)..n \/ k = n + 1
  OBVIOUS
<1>2. CASE IsEvent(c[n + 1], f) /\ c[n + 1].version = v
  <2>1. \E j \in 1..(n + 1) : /\ IsEvent(c[j], f) /\ c[j].version = v
                              /\ \A k \in (j + 1)..(n + 1) : ~IsEvent(c[k], f)
    BY <1>1, <1>2
  <2>2. QED
    BY <1>1, <2>1 DEF Reaches
<1>3. CASE ~IsEvent(c[n + 1], f) /\ Reaches(docs, c, n + 1, f, v)
  <2>1. CASE docs[f] = v /\ \A k \in 1..n : ~IsEvent(c[k], f)
    <3>1. \A k \in 1..(n + 1) : ~IsEvent(c[k], f)
      BY <1>1, <1>3, <2>1
    <3>2. QED
      BY <1>1, <2>1, <3>1 DEF Reaches
  <2>2. ASSUME NEW j \in 1..n, IsEvent(c[j], f), c[j].version = v,
               \A k \in (j + 1)..n : ~IsEvent(c[k], f)
        PROVE  Reaches(docs, c, n + 2, f, v)
    <3>1. j \in 1..(n + 1) /\ \A k \in (j + 1)..(n + 1) : ~IsEvent(c[k], f)
      BY <1>1, <1>3, <2>2
    <3>2. QED
      BY <1>1, <2>2, <3>1 DEF Reaches
  <2>3. QED
    BY <1>1, <1>3, <2>1, <2>2 DEF Reaches
<1>4. QED
  BY <1>2, <1>3

\* The version of f that the server has after the message m.
After(docs, m, f) == IF IsEvent(m, f) THEN m.version ELSE docs[f]

\* The first message is taken.
LEMMA ReachesTaken ==
    ASSUME NEW f, NEW v, NEW n \in Nat, NEW i \in 1..(n + 1),
           \A j \in 1..n : toServer'[j] = toServer[j + 1],
           documents'[f] = After(documents, toServer[1], f),
           Reaches(documents, toServer, i + 1, f, v)
    PROVE  Reaches(documents', toServer', i, f, v)
<1>1. /\ (i + 1) - 1 = i /\ 1 \in 1..i
      /\ \A j \in 1..(i - 1) : j \in 1..n /\ j + 1 \in 1..i
      /\ \A k \in 1..(i - 1) : k + 1 \in 2..i
  OBVIOUS
<1>2. \A j \in 1..(i - 1) : toServer'[j] = toServer[j + 1]
  BY <1>1
<1>3. ASSUME documents[f] = v, \A k \in 1..i : ~IsEvent(toServer[k], f)
      PROVE  Reaches(documents', toServer', i, f, v)
  <2>1. documents'[f] = v /\ \A k \in 1..(i - 1) : ~IsEvent(toServer'[k], f)
    BY <1>1, <1>2, <1>3 DEF After
  <2>2. QED
    BY <2>1 DEF Reaches
<1>4. ASSUME NEW j \in 1..i, IsEvent(toServer[j], f), toServer[j].version = v,
             \A k \in (j + 1)..i : ~IsEvent(toServer[k], f)
      PROVE  Reaches(documents', toServer', i, f, v)
  <2>1. CASE j = 1
    <3>1. documents'[f] = v
      BY <1>4, <2>1 DEF After
    <3>2. \A k \in 2..i : ~IsEvent(toServer[k], f)
      BY <1>4, <2>1
    <3>3. \A k \in 1..(i - 1) : ~IsEvent(toServer'[k], f)
      BY <1>1, <1>2, <3>2
    <3>4. QED
      BY <3>1, <3>3 DEF Reaches
  <2>2. CASE j # 1
    <3>1. /\ j - 1 \in 1..(i - 1) /\ (j - 1) + 1 = j
          /\ \A k \in ((j - 1) + 1)..(i - 1) : k \in 1..(i - 1) /\ k + 1 \in (j + 1)..i
      BY <2>2
    <3>2. toServer'[j - 1] = toServer[j]
      BY <1>2, <3>1
    <3>3. \A k \in ((j - 1) + 1)..(i - 1) : ~IsEvent(toServer'[k], f)
      BY <1>2, <1>4, <3>1
    <3>4. QED
      BY <1>4, <3>1, <3>2, <3>3 DEF Reaches
  <2>3. QED
    BY <2>1, <2>2
<1>5. QED
  BY <1>1, <1>3, <1>4 DEF Reaches

\* The editor says what is in step with its texts.
LEMMA InStepSaid ==
    ASSUME TypeOK, InStep, NEW m \in Messages, Say(m), UNCHANGED documents,
           \A f \in Files : IsEvent(m, f) => text'[f] = m.version,
           \A f \in Files : ~IsEvent(m, f) => text'[f] = text[f],
           m.type \in Kinds => m.file \in Files /\ m.asked = text[m.file]
    PROVE  InStep'
<1> DEFINE n == Len(toServer)
<1>1. /\ n \in Nat /\ Len(toServer') = n + 1 /\ toServer'[n + 1] = m
      /\ \A i \in 1..n : toServer'[i] = toServer[i]
      /\ \A i \in 1..Len(toServer') : i \in 1..n \/ i = n + 1
  BY Said
<1>2. /\ \A f \in Files : Reaches(documents, toServer, n + 1, f, text[f])
      /\ \A i \in 1..n : toServer[i].type \in Kinds =>
            Reaches(documents, toServer, i, toServer[i].file, toServer[i].asked)
  BY DEF InStep
<1>3. documents' = documents
  OBVIOUS
<1> HIDE DEF n
<1>4. ASSUME NEW f, NEW v, NEW i \in 1..(n + 1), Reaches(documents, toServer, i, f, v)
      PROVE  Reaches(documents', toServer', i, f, v)
  <2>1. Reaches(documents, toServer', i, f, v)
    BY <1>1, <1>4, ReachesBefore
  <2>2. QED
    BY <1>3, <2>1
<1>5. n + 1 \in 1..(n + 1) /\ \A i \in 1..n : i \in 1..(n + 1)
  BY <1>1
<1>6. ASSUME NEW f \in Files
      PROVE  Reaches(documents', toServer', Len(toServer') + 1, f, text'[f])
  <2>1. \/ IsEvent(m, f) /\ m.version = text'[f]
        \/ ~IsEvent(m, f) /\ Reaches(documents', toServer', n + 1, f, text'[f])
    BY <1>2, <1>4, <1>5
  <2>2. \/ IsEvent(toServer'[n + 1], f) /\ toServer'[n + 1].version = text'[f]
        \/ ~IsEvent(toServer'[n + 1], f) /\ Reaches(documents', toServer', n + 1, f, text'[f])
    BY <1>1, <2>1
  <2>3. Reaches(documents', toServer', n + 2, f, text'[f])
    BY <1>1, <2>2, ReachesBehind
  <2>4. Len(toServer') + 1 = n + 2
    BY <1>1
  <2>5. QED
    BY <2>3, <2>4
<1>7. ASSUME NEW i \in 1..Len(toServer'), toServer'[i].type \in Kinds
      PROVE  Reaches(documents', toServer', i, toServer'[i].file, toServer'[i].asked)
  <2>1. CASE i \in 1..n
    BY <1>1, <1>2, <1>4, <1>5, <1>7, <2>1
  <2>2. CASE i = n + 1
    <3>1. m.type \in Kinds /\ toServer'[i] = m
      BY <1>1, <1>7, <2>2
    <3>2. Reaches(documents, toServer, n + 1, m.file, m.asked)
      BY <1>2, <3>1
    <3>3. QED
      BY <1>4, <1>5, <2>2, <3>1, <3>2
  <2>3. QED
    BY <1>1, <2>1, <2>2
<1>8. QED
  BY <1>6, <1>7 DEF InStep

\* The server takes a message, and its documents follow.
LEMMA InStepTaken ==
    ASSUME TypeOK, InStep, NEW t, Take(t), UNCHANGED text,
           \A f \in Files : documents'[f] = After(documents, toServer[1], f)
    PROVE  InStep'
<1> DEFINE n == Len(toServer')
<1>1. /\ n \in Nat /\ Len(toServer) = n + 1
      /\ \A i \in 1..n : i + 1 \in 1..(n + 1) /\ toServer'[i] = toServer[i + 1]
  <2>1. /\ toServer' \in Seq(Messages) /\ Len(toServer) \in Nat
        /\ Len(toServer') = Len(toServer) - 1
        /\ \A i \in 1..Len(toServer') :
              i + 1 \in 1..Len(toServer) /\ toServer'[i] = toServer[i + 1]
    BY Taken
  <2>2. Len(toServer') \in Nat
    BY <2>1, LenProperties
  <2>3. QED
    BY <2>1, <2>2
<1>2. /\ \A f \in Files : Reaches(documents, toServer, Len(toServer) + 1, f, text[f])
      /\ \A i \in 1..Len(toServer) : toServer[i].type \in Kinds =>
            Reaches(documents, toServer, i, toServer[i].file, toServer[i].asked)
  BY DEF InStep
<1> HIDE DEF n
<1>3. ASSUME NEW f \in Files, NEW v, NEW i \in 1..(n + 1),
             Reaches(documents, toServer, i + 1, f, v)
      PROVE  Reaches(documents', toServer', i, f, v)
  <2>1. \A j \in 1..n : toServer'[j] = toServer[j + 1]
    BY <1>1
  <2>2. n \in Nat
    BY <1>1
  <2>3. QED
    BY <1>3, <2>1, <2>2, ReachesTaken, Zenon
<1>4. ASSUME NEW f \in Files
      PROVE  Reaches(documents', toServer', n + 1, f, text'[f])
  <2>1. n + 1 \in 1..(n + 1) /\ Len(toServer) + 1 = (n + 1) + 1
    BY <1>1
  <2>2. Reaches(documents, toServer, (n + 1) + 1, f, text'[f])
    BY <1>2, <2>1
  <2>3. QED
    BY <1>3, <2>1, <2>2
<1>5. ASSUME NEW i \in 1..n, toServer'[i].type \in Kinds
      PROVE  Reaches(documents', toServer', i, toServer'[i].file, toServer'[i].asked)
  <2>1. /\ i + 1 \in 1..Len(toServer) /\ i \in 1..(n + 1) /\ toServer'[i] = toServer[i + 1]
    BY <1>1
  <2>2. Reaches(documents, toServer, i + 1, toServer'[i].file, toServer'[i].asked)
    BY <1>2, <1>5, <2>1
  <2>3. toServer'[i].file \in Files
    <3>1. toServer[i + 1] \in Messages
      BY <2>1, ElementOfSeq DEF TypeOK
    <3>2. QED
      BY <1>5, <2>1, <3>1, MessageFields
  <2>4. QED
    BY <1>3, <2>1, <2>2, <2>3
<1>6. QED
  BY <1>4, <1>5 DEF InStep, n

LEMMA InStepStep == TypeOK /\ LifeCycle /\ InStep /\ [Next]_vars => InStep'
<1> SUFFICES ASSUME TypeOK, LifeCycle, InStep, [Next]_vars PROVE InStep'
  OBVIOUS
<1>1. ASSUME NEW f \in Files, NEW t \in {"didOpen", "didChange", "didClose"}, NEW v,
             NEW throws, [type |-> t, file |-> f, version |-> v, throws |-> throws] \in Messages,
             Notify(t, f, v, throws)
      PROVE  InStep'
  <2> DEFINE m == [type |-> t, file |-> f, version |-> v, throws |-> throws]
  <2>1. /\ m \in Messages /\ m.version = v /\ m.type \notin Kinds
        /\ \A g \in Files : IsEvent(m, g) <=> g = f
    BY <1>1 DEF IsEvent, Kinds
  <2>2. Say(m) /\ documents' = documents /\ text' = [text EXCEPT ![f] = v]
    BY <1>1 DEF Notify, serverVars
  <2>3. text'[f] = v /\ \A g \in Files : g # f => text'[g] = text[g]
    BY <2>2 DEF TypeOK
  <2> HIDE DEF m
  <2>4. QED
    BY <2>1, <2>2, <2>3, InStepSaid
<1>2. ASSUME NEW f \in Files, NEW throws \in BOOLEAN,
             OpenDocument(f, throws) \/ ChangeDocument(f, throws)
      PROVE  InStep'
  <2>1. PICK t \in {"didOpen", "didChange"} : Notify(t, f, edits + 1, throws)
    BY <1>2 DEF OpenDocument, ChangeDocument
  <2>2. edits + 1 \in 1..MaxEdits
    BY <2>1, BoundAssumption DEF Notify, TypeOK
  <2>3. [type |-> t, file |-> f, version |-> edits + 1, throws |-> throws] \in Messages
    BY <2>2 DEF Messages, DocumentMessages
  <2>4. QED
    BY <1>1, <2>1, <2>3
<1>3. ASSUME NEW f \in Files, CloseDocument(f)
      PROVE  InStep'
  <2>1. [type |-> "didClose", file |-> f, version |-> 0, throws |-> FALSE] \in Messages
    BY DEF Messages, DocumentMessages
  <2>2. QED
    BY <1>1, <1>3, <2>1 DEF CloseDocument
<1>4. ASSUME NEW kind \in Kinds, NEW f \in Files, Ask(kind, f)
      PROVE  InStep'
  <2> DEFINE m == [type |-> kind, file |-> f, asked |-> text[f]]
  <2>1. m \in Messages
    BY <1>4 DEF Ask, TypeOK, Versions, Messages, Requests
  <2>2. m.file = f /\ m.asked = text[f] /\ \A g \in Files : ~IsEvent(m, g)
    BY DEF IsEvent, Kinds
  <2>3. Say(m) /\ UNCHANGED documents /\ UNCHANGED text
    BY <1>4 DEF Ask, serverVars
  <2> HIDE DEF m
  <2>4. QED
    BY <2>1, <2>2, <2>3, InStepSaid
<1>5. ASSUME NEW t \in {"shutdown", "exit"}, Say([type |-> t]), UNCHANGED <<text, documents>>
      PROVE  InStep'
  <2> DEFINE m == [type |-> t]
  <2>1. m \in Messages /\ m.type \notin Kinds /\ \A g \in Files : ~IsEvent(m, g)
    BY DEF Messages, Calls, IsEvent, Kinds
  <2>2. Say(m)
    BY <1>5
  <2> HIDE DEF m
  <2>3. QED
    BY <1>5, <2>1, <2>2, InStepSaid
<1>6. CASE Stop \/ Leave
  BY <1>5, <1>6 DEF Stop, Leave, editorVars, serverVars
<1>7. CASE DidOpen \/ DidChange \/ DidClose
  <2>1. PICK t \in {"didOpen", "didChange", "didClose"} : Take(t)
    BY <1>7 DEF DidOpen, DidChange, DidClose
  <2> DEFINE m == toServer[1]
  <2>2. Head(toServer) = m /\ m.type = t
    BY <2>1, Taken
  <2>3. /\ m.file \in Files
        /\ documents' = [documents EXCEPT ![m.file] = m.version]
    BY <1>7, <2>2, DocumentMessage
  <2>4. documents'[m.file] = m.version /\ \A g \in Files : g # m.file => documents'[g] = documents[g]
    BY <2>3 DEF TypeOK
  <2>5. \A g \in Files : IsEvent(m, g) <=> g = m.file
    BY <2>2 DEF IsEvent
  <2>6. UNCHANGED text
    BY <1>7 DEF DidOpen, DidChange, DidClose, editorVars
  <2>7. \A g \in Files : documents'[g] = After(documents, m, g)
    BY <2>4, <2>5 DEF After
  <2>8. QED
    BY <2>1, <2>6, <2>7, InStepTaken
<1>8. ASSUME NEW t, t \notin {"didOpen", "didChange", "didClose"}, Take(t),
             UNCHANGED <<text, documents>>
      PROVE  InStep'
  <2>1. \A g \in Files : documents'[g] = After(documents, toServer[1], g)
    BY <1>8, Taken DEF After, IsEvent
  <2>2. QED
    BY <1>8, <2>1, InStepTaken
<1>9. CASE Initialize
  BY <1>8, <1>9 DEF Initialize, editorVars
<1>10. ASSUME NEW kind \in Kinds, Reply(kind)
       PROVE  InStep'
  BY <1>8, <1>10 DEF Reply, Kinds, editorVars, serverVars
<1>11. CASE Shutdown \/ Exit
  BY <1>8, <1>11 DEF Shutdown, Exit, Release, editorVars
<1>12. CASE UNCHANGED vars
  BY <1>12 DEF InStep, vars, editorVars, serverVars
<1>13. QED
  BY <1>2, <1>3, <1>4, <1>6, <1>7, <1>9, <1>10, <1>11, <1>12, Handlers DEF Next, Editor

LEMMA AnswersStep ==
    TypeOK /\ InStep /\ ForestFollows /\ AnswersAreOfTheTextAsked /\ [Next]_vars
        => AnswersAreOfTheTextAsked'
<1> SUFFICES ASSUME TypeOK, InStep, ForestFollows, AnswersAreOfTheTextAsked, [Next]_vars
             PROVE  AnswersAreOfTheTextAsked'
  OBVIOUS
<1>1. ASSUME NEW kind \in Kinds, Reply(kind), subscribed
      PROVE  answer'.got = {answer'.asked}
  <2> DEFINE m == toServer[1]
  <2>1. /\ Head(toServer) = m /\ m.type = kind /\ m \in Messages
        /\ 1 \in 1..Len(toServer)
    BY <1>1, Taken DEF Reply
  <2>2. m.file \in Files /\ m.asked \in 1..MaxEdits
    BY <2>1, MessageFields
  <2>3. documents[m.file] = m.asked
    <3>1. Reaches(documents, toServer, 1, m.file, m.asked)
      BY <2>1 DEF InStep
    <3>2. \A j \in 1..(1 - 1) : FALSE
      OBVIOUS
    <3>3. QED
      BY <3>1, <3>2 DEF Reaches
  <2>4. m.asked # 0
    BY <2>2
  <2>5. /\ trees[m.file] # 0 /\ heap[trees[m.file]].of = m.asked
        /\ analyses[m.file] = {m.asked}
    BY <1>1, <2>2, <2>3, <2>4 DEF ForestFollows
  <2>6. Answered(kind, m.file) = {m.asked}
    BY <2>5 DEF Answered, Highlighted
  <2>7. QED
    BY <1>1, <2>1, <2>6 DEF Reply
<1>2. ASSUME NEW kind \in Kinds, Reply(kind)
      PROVE  AnswersAreOfTheTextAsked'
  <2>1. answer'.sound = subscribed
    BY <1>2 DEF Reply
  <2>2. QED
    BY <1>1, <1>2, <2>1 DEF AnswersAreOfTheTextAsked
<1>3. ASSUME UNCHANGED answer
      PROVE  AnswersAreOfTheTextAsked'
  BY <1>3 DEF AnswersAreOfTheTextAsked
<1>4. CASE Editor
  BY <1>3, <1>4 DEF Editor, OpenDocument, ChangeDocument, CloseDocument, Notify, Ask, Stop, Leave
<1>5. CASE Initialize \/ DidOpen \/ DidChange \/ DidClose \/ Shutdown \/ Exit
  BY <1>3, <1>5 DEF Initialize, DidOpen, DidChange, DidClose, Shutdown, Exit, Release
<1>6. CASE UNCHANGED vars
  BY <1>3, <1>6 DEF vars
<1>7. QED
  BY <1>2, <1>4, <1>5, <1>6, Handlers DEF Next

(***************************************************************************)
(* The invariant.                                                          *)
(***************************************************************************)

LEMMA InvariantInit == Init => IInv
<1> SUFFICES ASSUME Init PROVE IInv
  OBVIOUS
<1>0. /\ \A f \in Files : text[f] = 0 /\ documents[f] = 0 /\ trees[f] = 0
      /\ heap = <<>> /\ ~subscribed /\ answer = NoAnswer
  BY Zenon DEF Init
<1> DEFINE c == <<[type |-> "initialize"]>>
<1>1. /\ toServer = c /\ Len(c) = 1 /\ c[1].type = "initialize"
      /\ \A i \in 1..Len(c) : i = 1
  BY DEF Init
<1>2. LifeCycle
  BY <1>1 DEF Init, LifeCycle, Ending
<1>3. InStep
  <2>1. \A f \in Files : documents[f] = 0 /\ text[f] = 0
    BY <1>0, Zenon
  <2>2. \A f \in Files, i \in 1..Len(c) : ~IsEvent(c[i], f)
    BY <1>1 DEF IsEvent
  <2>3. \A k \in 1..((Len(c) + 1) - 1) : k \in 1..Len(c)
    BY <1>1
  <2>4. ASSUME NEW f \in Files
        PROVE  Reaches(documents, toServer, Len(toServer) + 1, f, text[f])
    <3>1. documents[f] = text[f]
      BY <2>1
    <3>2. \A k \in 1..((Len(toServer) + 1) - 1) : ~IsEvent(toServer[k], f)
      BY <1>1, <2>2, <2>3
    <3>3. QED
      BY <3>1, <3>2, Zenon DEF Reaches
  <2>5. \A i \in 1..Len(toServer) : toServer[i].type \notin Kinds
    BY <1>1 DEF Kinds
  <2>6. QED
    BY <2>4, <2>5 DEF InStep
<1>4. TreesAreOwned
  <2>1. \A f \in Files : trees[f] = 0
    BY <1>0, Zenon
  <2>2. \A n \in 1..Len(heap) : FALSE
    <3>1. Len(heap) = 0
      <4>1. heap = <<>>
        BY <1>0, Zenon
      <4>2. QED
        BY <4>1, EmptySeq
    <3>2. QED
      BY <3>1
  <2>3. QED
    BY <2>1, <2>2 DEF TreesAreOwned
<1>5. ForestFollows
  BY <1>0, Zenon DEF ForestFollows
<1>6. AnswersAreOfTheTextAsked
  BY <1>0, Zenon DEF AnswersAreOfTheTextAsked, NoAnswer
<1>7. QED
  BY <1>2, <1>3, <1>4, <1>5, <1>6 DEF IInv

LEMMA InvariantStep == TypeOK /\ IInv /\ [Next]_vars => IInv'
BY LifeCycleStep, InStepStep, TreesStep, ForestStep, AnswersStep DEF IInv

\* DocumentForest - the inductive invariant.
THEOREM ForestInvariant == Spec => []IInv
<1>1. Init => TypeOK /\ IInv
  BY TypeInit, InvariantInit
<1>2. TypeOK /\ IInv /\ [Next]_vars => TypeOK' /\ IInv'
  BY TypeStep, InvariantStep
<1>3. QED
  BY <1>1, <1>2, PTL DEF Spec

\* Forest.ts:66-77 - a tree belongs to one document, lives as long as the server is not
\* told to shut down, and is not deleted twice before 'exit'.
THEOREM TreesAlwaysOwned == Spec => []TreesAreOwned
<1>1. IInv => TreesAreOwned
  BY DEF IInv
<1>2. QED
  BY <1>1, ForestInvariant, PTL

\* Forest.ts:81, Analyzer.ts:84 - until an analysis throws, forest and analyses are those
\* of the open documents and their present text.
THEOREM ForestAlwaysFollows == Spec => []ForestFollows
<1>1. IInv => ForestFollows
  BY DEF IInv
<1>2. QED
  BY <1>1, ForestInvariant, PTL

\* DocumentSymbolProvider.ts:21, DocumentHighlightAnalyzer.ts:19 - until an analysis throws,
\* every answer is about the text the editor had when it asked.
THEOREM AnswersAlwaysOfTheTextAsked == Spec => []AnswersAreOfTheTextAsked
<1>1. IInv => AnswersAreOfTheTextAsked
  BY DEF IInv
<1>2. QED
  BY <1>1, ForestInvariant, PTL
=============================================================================
