-------------------------- MODULE LintPipeline_proofs --------------------------
(***************************************************************************)
(* Proofs about LintPipeline for all documents, linters, configurations    *)
(* and bounds.                                                             *)
(***************************************************************************)
EXTENDS LintPipeline, Integers, SequenceTheorems, TLAPS

(***************************************************************************)
(* FIFO channels.                                                          *)
(***************************************************************************)

\* A channel after a message has been put into it.
LEMMA Appended ==
    ASSUME NEW S, NEW s \in Seq(S), NEW m \in S
    PROVE  /\ Append(s, m) \in Seq(S)
           /\ Len(s) \in Nat /\ Len(Append(s, m)) = Len(s) + 1
           /\ Append(s, m)[Len(s) + 1] = m
           /\ \A i \in 1..Len(s) : Append(s, m)[i] = s[i]
           /\ \A i \in 1..Len(Append(s, m)) : i \in 1..Len(s) \/ i = Len(s) + 1
BY AppendProperties, LenProperties

\* A channel after a message has been taken out of it.
LEMMA Dropped ==
    ASSUME NEW S, NEW s \in Seq(S), s # <<>>
    PROVE  /\ Tail(s) \in Seq(S)
           /\ Head(s) \in S /\ Head(s) = s[1] /\ 1 \in 1..Len(s)
           /\ Len(s) \in Nat /\ Len(Tail(s)) = Len(s) - 1
           /\ \A i \in 1..Len(Tail(s)) : i + 1 \in 1..Len(s) /\ Tail(s)[i] = s[i + 1]
BY HeadTailProperties, LenProperties, EmptySeq

(***************************************************************************)
(* A failure.                                                              *)
(***************************************************************************)

\* It ends the stream, if a lint waits for what has failed, and sends nothing.
LEMMA FailureEnds ==
    ASSUME ResponseFails
    PROVE  /\ Take("response") /\ UNCHANGED <<editorVars, documents, focus, fetched, toClient, sent>>
           /\ \/ UNCHANGED <<job, alive, muted>>
              \/ job' = NoJob /\ alive' = FALSE /\ UNCHANGED muted
           /\ \/ UNCHANGED cache
              \/ cache' = [cache EXCEPT ![Head(toServer).file] = {Head(toServer).value}]
BY DEF ResponseFails, Ignore

(***************************************************************************)
(* The messages in the channels.                                           *)
(***************************************************************************)

\* What the requests of the fetcher add to the channel.
LEMMA Asked ==
    ASSUME TypeOK, NEW f \in Files, NEW gets \in Nat
    PROVE  /\ toClient \o Requests(f, gets) \in Seq(ClientMessages)
           /\ \A i \in 1..Len(toClient \o Requests(f, gets)) :
                 \/ \E k \in 1..Len(toClient) : (toClient \o Requests(f, gets))[i] = toClient[k]
                 \/ /\ (toClient \o Requests(f, gets))[i].file = f
                    /\ (toClient \o Requests(f, gets))[i].id > fetched
                    /\ (toClient \o Requests(f, gets))[i].id <= fetched + gets
<1> DEFINE R == Requests(f, gets)
<1>1. /\ R \in [1..gets -> ClientMessages]
      /\ \A n \in 1..gets : R[n] = [type |-> "request", file |-> f, id |-> fetched + n]
  BY DEF Requests, ClientMessages, TypeOK
<1>2. R \in Seq(ClientMessages) /\ Len(R) = gets
  BY <1>1, SeqDef, LenProperties
<1>3. toClient \in Seq(ClientMessages) /\ Len(toClient) \in Nat
  BY LenProperties DEF TypeOK
<1>4. QED
  <2> HIDE DEF R
  <2>1. /\ toClient \o R \in Seq(ClientMessages)
        /\ Len(toClient \o R) = Len(toClient) + gets
        /\ \A i \in 1..(Len(toClient) + gets) :
              (toClient \o R)[i] = IF i <= Len(toClient) THEN toClient[i]
                                   ELSE R[i - Len(toClient)]
    BY <1>2, <1>3, ConcatProperties
  <2>2. ASSUME NEW i \in 1..(Len(toClient) + gets), ~(i <= Len(toClient))
        PROVE  i - Len(toClient) \in 1..gets
    BY <1>3, <2>2
  <2>3. ASSUME NEW i \in 1..Len(toClient \o R)
        PROVE  \/ \E k \in 1..Len(toClient) : (toClient \o R)[i] = toClient[k]
               \/ \E n \in 1..gets : (toClient \o R)[i] = R[n]
    <3>1. CASE i <= Len(toClient)
      BY <1>3, <2>1, <3>1
    <3>2. CASE ~(i <= Len(toClient))
      BY <2>1, <2>2, <3>2
    <3>3. QED
      BY <3>1, <3>2
  <2>4. \A n \in 1..gets : R[n].file = f /\ R[n].id > fetched /\ R[n].id <= fetched + gets
    <3>1. \A n \in 1..gets : R[n].file = f /\ R[n].id = fetched + n
      BY <1>1
    <3>2. fetched \in Nat
      BY DEF TypeOK
    <3>3. QED
      BY <3>1, <3>2
  <2>5. \A i \in 1..Len(toClient \o R) :
          \/ \E k \in 1..Len(toClient) : (toClient \o R)[i] = toClient[k]
          \/ /\ (toClient \o R)[i].file = f
             /\ (toClient \o R)[i].id > fetched /\ (toClient \o R)[i].id <= fetched + gets
    BY <2>3, <2>4
  <2>6. QED
    BY <2>1, <2>5 DEF R

\* A message that the server takes.
LEMMA Taken ==
    ASSUME TypeOK, NEW t, Take(t)
    PROVE  /\ toServer' \in Seq(ServerMessages)
           /\ Head(toServer) \in ServerMessages /\ Head(toServer).type = t
           /\ Head(toServer) = toServer[1] /\ 1 \in 1..Len(toServer)
           /\ Len(toServer) \in Nat /\ Len(toServer') = Len(toServer) - 1
           /\ \A i \in 1..Len(toServer') :
                 i + 1 \in 1..Len(toServer) /\ toServer'[i] = toServer[i + 1]
BY Dropped DEF TypeOK, Take

\* The fields of the messages.
LEMMA MessageFields ==
    /\ \A m \in ServerMessages :
          /\ m.type \in {"didOpen", "didChange", "didClose", "response", "didChangeConfiguration"}
          /\ m.type \in {"didOpen", "didChange"} => m.file \in Files /\ m.version \in 1..MaxEdits
          /\ m.type = "didClose" => m.file \in Files
          /\ m.type = "response" => m.file \in Files /\ m.id \in Nat /\ m.value \in Settings
          /\ m.type = "didChangeConfiguration" <=> m = ConfigMessage
    /\ \A m \in ClientMessages :
          /\ m.type = "request" => m.file \in Files /\ m.id \in Nat
          /\ m.type = "diagnostics" => m.file \in Files /\ m.list \in Diagnostics
<1>1. ASSUME NEW m \in ServerMessages
      PROVE  \/ /\ m.type \in {"didOpen", "didChange"}
                /\ m.file \in Files /\ m.version \in 1..MaxEdits
             \/ m.type = "didClose" /\ m.file \in Files
             \/ /\ m.type = "response"
                /\ m.file \in Files /\ m.id \in Nat /\ m.value \in Settings
             \/ m = ConfigMessage
  BY DEF ServerMessages, DocumentMessages, Responses
<1>2. ConfigMessage.type = "didChangeConfiguration"
  BY DEF ConfigMessage
<1>3. ASSUME NEW m \in ClientMessages
      PROVE  /\ m.type = "request" => m.file \in Files /\ m.id \in Nat
             /\ m.type = "diagnostics" => m.file \in Files /\ m.list \in Diagnostics
  BY DEF ClientMessages
<1>4. QED
  BY <1>1, <1>2, <1>3

\* The fields of a job.
LEMMA JobFields ==
    ASSUME TypeOK
    PROVE  /\ job = NoJob \/ job.stage \in {"settings", "linting"}
           /\ NoJob \in Jobs /\ NoJob.stage = "none"
           /\ job.stage = "settings" => job.file \in Files /\ job.id \in Nat
           /\ job.stage = "linting" =>
                 /\ job.file \in Files /\ job.of \in Versions
                 /\ job.running \in SUBSET Linters /\ job.running # {}
                 /\ job.found \in SUBSET Linters
BY DEF TypeOK, Jobs, NoJob

(***************************************************************************)
(* Type correctness.                                                       *)
(***************************************************************************)

\* Diagnostics are sent.
LEMMA SendTypes ==
    ASSUME TypeOK, NEW f \in Files, NEW d \in Diagnostics, Send(f, d)
    PROVE  sent' \in [Files -> Diagnostics] /\ toClient' \in Seq(ClientMessages)
<1>1. [type |-> "diagnostics", file |-> f, list |-> d] \in ClientMessages
  BY DEF ClientMessages
<1>2. QED
  BY <1>1, Appended DEF Send, TypeOK

\* A lint begins.
LEMMA BeginTypes ==
    ASSUME TypeOK, NEW f \in Files, NEW v \in Versions, NEW s \in Settings, Begin(f, v, s)
    PROVE  /\ alive' \in BOOLEAN /\ muted' \in BOOLEAN
           /\ job' \in Jobs
           /\ sent' \in [Files -> Diagnostics] /\ toClient' \in Seq(ClientMessages)
<1>1. s \in AllSettings /\ Started(s) \subseteq Linters
  BY SettingsAssumption, LinterAssumption DEF AllSettings, Started
<1>2. alive' \in BOOLEAN /\ muted' \in BOOLEAN
  BY DEF Begin, TypeOK
<1>3. job' \in Jobs
  BY <1>1 DEF Begin, Jobs, NoJob
<1>4. CASE UNCHANGED <<sent, toClient>>
  BY <1>2, <1>3, <1>4 DEF TypeOK
<1>5. CASE Send(f, [of |-> v, found |-> {}])
  <2>1. [of |-> v, found |-> {}] \in Diagnostics
    BY DEF Diagnostics
  <2>2. QED
    BY <1>2, <1>3, <1>5, <2>1, SendTypes
<1>6. QED
  BY <1>4, <1>5 DEF Begin

\* An event of an open document is linted, or ignored.
LEMMA LintTypes ==
    ASSUME TypeOK, NEW f \in Files, NEW v \in Versions, NEW gets \in Nat,
           Lint(f, v, gets) \/ Ignore
    PROVE  /\ alive' \in BOOLEAN /\ muted' \in BOOLEAN /\ fetched' \in Nat
           /\ job' \in Jobs
           /\ sent' \in [Files -> Diagnostics] /\ toClient' \in Seq(ClientMessages)
<1>1. CASE Ignore
  BY <1>1 DEF Ignore, TypeOK
<1>2. CASE \E s \in cache[f] : Begin(f, v, s) /\ UNCHANGED fetched
  <2>1. PICK s \in cache[f] : Begin(f, v, s) /\ UNCHANGED fetched
    BY <1>2
  <2>2. s \in Settings
    BY DEF TypeOK
  <2>3. QED
    BY <2>1, <2>2, BeginTypes DEF TypeOK
<1>3. CASE /\ fetched' = fetched + gets
           /\ toClient' = toClient \o Requests(f, gets)
           /\ job' = [stage |-> "settings", file |-> f, id |-> fetched + gets]
           /\ muted' = FALSE
           /\ UNCHANGED <<alive, sent>>
  <2>1. toClient' \in Seq(ClientMessages)
    BY <1>3, Asked
  <2>2. fetched' \in Nat
    BY <1>3 DEF TypeOK
  <2>3. alive' \in BOOLEAN /\ muted' \in BOOLEAN
    BY <1>3, Zenon DEF TypeOK
  <2>4. sent' \in [Files -> Diagnostics]
    BY <1>3 DEF TypeOK
  <2>5. job' \in Jobs
    BY <1>3, <2>2 DEF Jobs
  <2>6. QED
    BY <2>1, <2>2, <2>3, <2>4, <2>5
<1>4. QED
  BY <1>1, <1>2, <1>3 DEF Lint

\* Type correctness of the pipeline.
THEOREM TypeCorrect == Spec => []TypeOK
<1>1. Init => TypeOK
  <2> SUFFICES ASSUME Init PROVE TypeOK
    OBVIOUS
  <2>2. <<>> \in Seq(ServerMessages) /\ <<>> \in Seq(ClientMessages)
    BY EmptySeq
  <2>3. NoJob \in Jobs /\ Cleared \in Diagnostics /\ 0 \in Versions
    BY BoundAssumption DEF Jobs, Cleared, Diagnostics, Versions
  <2>4. /\ [f \in Files |-> 0] \in [Files -> Versions]
        /\ [f \in Files |-> Cleared] \in [Files -> Diagnostics]
        /\ [f \in Files |-> {}] \in [Files -> SUBSET Settings]
    BY <2>3
  <2>5. /\ text \in [Files -> Versions] /\ documents \in [Files -> Versions]
        /\ setting \in Settings
        /\ shown \in [Files -> Diagnostics] /\ sent \in [Files -> Diagnostics]
        /\ cache \in [Files -> SUBSET Settings]
    BY <2>4, Zenon DEF Init
  <2>6. edits \in 0..MaxEdits /\ changes \in 0..MaxChanges /\ fetched \in Nat
    BY BoundAssumption DEF Init
  <2>7. alive \in BOOLEAN /\ muted \in BOOLEAN /\ focus \in SUBSET Files
    BY Zenon DEF Init
  <2>8. QED
    BY <2>2, <2>3, <2>5, <2>6, <2>7 DEF Init, TypeOK
<1>2. TypeOK /\ [Next]_vars => TypeOK'
  <2> SUFFICES ASSUME TypeOK, [Next]_vars PROVE TypeOK'
    OBVIOUS
  <2>2. ASSUME NEW f \in Files, OpenDocument(f) \/ ChangeDocument(f) \/ CloseDocument(f)
        PROVE  TypeOK'
    <3>1. PICK t, v : /\ Notify(t, f, v)
                      /\ \/ t \in {"didOpen", "didChange"} /\ v = edits + 1
                         \/ t = "didClose" /\ v = 0
      BY <2>2 DEF OpenDocument, ChangeDocument, CloseDocument
    <3>2. /\ v \in Versions /\ edits' \in 0..MaxEdits
          /\ [type |-> t, file |-> f, version |-> v] \in ServerMessages
      BY <3>1, BoundAssumption DEF Notify, TypeOK, Versions, ServerMessages, DocumentMessages
    <3>3. toServer' \in Seq(ServerMessages)
      BY <3>1, <3>2, Appended DEF Notify, TypeOK
    <3>4. QED
      BY <3>1, <3>2, <3>3 DEF Notify, TypeOK, historyVars
  <2>3. ASSUME NEW s \in Settings, ChangeSettings(s)
        PROVE  TypeOK'
    <3>1. toServer' \in Seq(ServerMessages)
      BY <2>3, Appended DEF ChangeSettings, TypeOK, ServerMessages
    <3>2. QED
      BY <2>3, <3>1, BoundAssumption DEF ChangeSettings, TypeOK, historyVars
  <2>4. CASE AnswerRequest
    <3> DEFINE m == Head(toClient)
               a == [type |-> "response", file |-> m.file, id |-> m.id, value |-> setting]
    <3>1. toClient' \in Seq(ClientMessages) /\ m \in ClientMessages /\ m.type = "request"
      BY <2>4, Dropped DEF AnswerRequest, TypeOK
    <3>2. a \in ServerMessages
      BY <3>1, MessageFields DEF TypeOK, ServerMessages, Responses
    <3>3. toServer' \in Seq(ServerMessages)
      BY <2>4, <3>2, Appended DEF AnswerRequest, TypeOK
    <3>4. QED
      BY <2>4, <3>1, <3>3 DEF AnswerRequest, TypeOK, editorVars, historyVars
  <2>5. CASE ShowDiagnostics
    <3>1. /\ toClient' \in Seq(ClientMessages)
          /\ Head(toClient) \in ClientMessages /\ Head(toClient).type = "diagnostics"
      BY <2>5, Dropped DEF ShowDiagnostics, TypeOK
    <3>2. shown' \in [Files -> Diagnostics]
      BY <2>5, <3>1, MessageFields DEF ShowDiagnostics, TypeOK
    <3>3. QED
      BY <2>5, <3>1, <3>2 DEF ShowDiagnostics, TypeOK, historyVars
  <2>6. ASSUME DidOpen \/ DidChange
        PROVE  TypeOK'
    <3> DEFINE m == Head(toServer)
    <3>1. PICK t \in {"didOpen", "didChange"}, gets \in Nat :
            /\ Take(t)
            /\ documents' = [documents EXCEPT ![m.file] = m.version]
            /\ focus' = {m.file}
            /\ Lint(m.file, m.version, gets) \/ Ignore
            /\ UNCHANGED <<editorVars, cache>>
      BY <2>6 DEF DidOpen, DidChange
    <3>2. toServer' \in Seq(ServerMessages) /\ m.file \in Files /\ m.version \in Versions
      BY <3>1, Taken, MessageFields, BoundAssumption DEF Versions
    <3>3. documents' \in [Files -> Versions] /\ focus' \in SUBSET Files
      BY <3>1, <3>2 DEF TypeOK
    <3>4. QED
      BY <3>1, <3>2, <3>3, LintTypes DEF TypeOK, editorVars
  <2>7. CASE DidClose
    <3> DEFINE m == Head(toServer)
    <3>1. toServer' \in Seq(ServerMessages) /\ m.file \in Files
      BY <2>7, Taken, MessageFields DEF DidClose
    <3>2. /\ documents' \in [Files -> Versions] /\ focus' \in SUBSET Files
          /\ UNCHANGED <<editorVars, cache>>
      BY <2>7, <3>1, BoundAssumption DEF DidClose, TypeOK, Versions
    <3>3. CASE Ignore
      BY <3>1, <3>2, <3>3 DEF Ignore, TypeOK, editorVars
    <3>4. CASE Clear(m.file) /\ job' = NoJob /\ UNCHANGED alive
      <4> DEFINE gets == IF cache[m.file] = {} THEN 1 ELSE 0
                 d == [type |-> "diagnostics", file |-> m.file, list |-> Cleared]
      <4>1. Cleared \in Diagnostics
        BY BoundAssumption DEF Cleared, Diagnostics, Versions
      <4>2. gets \in Nat /\ d \in ClientMessages
        BY <3>1, <4>1 DEF ClientMessages
      <4>3. toClient \o Requests(m.file, gets) \in Seq(ClientMessages)
        BY <3>1, <4>2, Asked
      <4>4. <<d>> \in Seq(ClientMessages)
        BY <4>2
      <4>5. toClient' = (toClient \o Requests(m.file, gets)) \o <<d>>
        BY <3>4 DEF Clear
      <4>6. toClient' \in Seq(ClientMessages)
        BY <4>3, <4>4, <4>5, ConcatProperties
      <4>7. /\ fetched' \in Nat /\ muted' \in BOOLEAN
            /\ sent' \in [Files -> Diagnostics] /\ job' \in Jobs
        <5>1. fetched' \in Nat
          BY <3>4, <4>2 DEF Clear, TypeOK
        <5>2. muted' \in BOOLEAN
          BY <3>4, Zenon DEF Clear
        <5>3. sent' \in [Files -> Diagnostics]
          BY <3>4, <4>1 DEF Clear, TypeOK
        <5>4. job' \in Jobs
          BY <3>4 DEF Jobs
        <5>5. QED
          BY <5>1, <5>2, <5>3, <5>4
      <4>8. QED
        BY <3>1, <3>2, <3>4, <4>6, <4>7 DEF TypeOK, editorVars
    <3>5. QED
      BY <2>7, <3>3, <3>4 DEF DidClose
  <2>8. CASE DidChangeConfiguration
    <3>1. toServer' \in Seq(ServerMessages)
      BY <2>8, Taken DEF DidChangeConfiguration
    <3>2. QED
      BY <2>8, <3>1 DEF DidChangeConfiguration, TypeOK, editorVars, historyVars
  <2>9. CASE Response
    <3> DEFINE m == Head(toServer)
    <3>1. toServer' \in Seq(ServerMessages) /\ m.file \in Files /\ m.value \in Settings
      BY <2>9, Taken, MessageFields DEF Response
    <3>2. cache' \in [Files -> SUBSET Settings] /\ UNCHANGED <<editorVars, documents, focus>>
      BY <2>9, <3>1 DEF Response, TypeOK
    <3>3. CASE Ignore
      BY <3>1, <3>2, <3>3 DEF Ignore, TypeOK, editorVars
    <3>4. CASE Begin(m.file, documents[m.file], m.value) /\ UNCHANGED fetched
      <4>1. documents[m.file] \in Versions
        BY <3>1 DEF TypeOK
      <4>2. QED
        BY <3>1, <3>2, <3>4, <4>1, BeginTypes DEF TypeOK, editorVars
    <3>5. QED
      BY <2>9, <3>3, <3>4 DEF Response
  <2>9a. CASE ResponseFails
    <3> DEFINE m == Head(toServer)
    <3>1. toServer' \in Seq(ServerMessages) /\ m.file \in Files /\ m.value \in Settings
      BY <2>9a, FailureEnds, Taken, MessageFields
    <3>2. cache' \in [Files -> SUBSET Settings]
      BY <2>9a, <3>1, FailureEnds DEF TypeOK
    <3>3. job' \in Jobs /\ alive' \in BOOLEAN /\ muted' \in BOOLEAN
      BY <2>9a, FailureEnds DEF TypeOK, Jobs
    <3>4. UNCHANGED <<editorVars, documents, focus, fetched, toClient, sent>>
      BY <2>9a, FailureEnds
    <3>5. QED
      BY <3>1, <3>2, <3>3, <3>4 DEF TypeOK, editorVars
  <2>10. ASSUME NEW l \in Linters, LinterEnds(l)
         PROVE  TypeOK'
    <3>1. /\ job \in [stage : {"linting"}, file : Files, of : Versions,
                      running : (SUBSET Linters) \ {{}}, found : SUBSET Linters]
          /\ l \in job.running
      BY <2>10 DEF LinterEnds, TypeOK, Jobs, NoJob
    <3>2. Ended(l).found \in SUBSET Linters
      BY <3>1 DEF Ended
    <3>3. CASE job.running # {l} /\ job' = Ended(l) /\ UNCHANGED <<toClient, sent>>
      <4>1. job' \in Jobs
        BY <3>1, <3>3 DEF Jobs, Ended
      <4>2. QED
        BY <2>10, <3>3, <4>1 DEF LinterEnds, TypeOK, editorVars
    <3>4. CASE job' = NoJob /\ Send(job.file, [of |-> job.of, found |-> Ended(l).found])
      <4>1. job.file \in Files /\ [of |-> job.of, found |-> Ended(l).found] \in Diagnostics
        BY <3>1, <3>2 DEF Diagnostics
      <4>2. sent' \in [Files -> Diagnostics] /\ toClient' \in Seq(ClientMessages)
        BY <3>4, <4>1, SendTypes
      <4>3. job' \in Jobs
        BY <3>4 DEF Jobs
      <4>4. QED
        BY <2>10, <4>2, <4>3 DEF LinterEnds, TypeOK, editorVars
    <3>5. QED
      BY <2>10, <3>3, <3>4 DEF LinterEnds
  <2>11. CASE UNCHANGED vars
    BY <2>11 DEF vars, editorVars, historyVars, TypeOK
  <2>12. QED
    BY <2>2, <2>3, <2>4, <2>5, <2>6, <2>7, <2>8, <2>9, <2>9a, <2>10, <2>11
    DEF Next, Editor, Server
<1>3. QED
  BY <1>1, <1>2, PTL DEF Spec

(***************************************************************************)
(* The inductive invariant.                                                *)
(***************************************************************************)

\* Fetches stay matched when every message in the channels after the step was
\* there before, or is a new request, or answers a request that was there.
LEMMA FetchesKept ==
    ASSUME TypeOK, TypeOK', FetchesMatch, fetched' >= fetched,
           job'.stage = "settings" =>
               job'.id <= fetched' /\ (job' = job \/ job'.id > fetched),
           \A i \in 1..Len(toClient') : toClient'[i].type = "request" =>
               \/ \E k \in 1..Len(toClient) : toClient'[i] = toClient[k]
               \/ /\ toClient'[i].id <= fetched' /\ toClient'[i].id > fetched
                  /\ job'.stage = "settings" => toClient'[i].file = job'.file,
           \A i \in 1..Len(toServer') : toServer'[i].type = "response" =>
               \/ \E k \in 1..Len(toServer) : toServer'[i] = toServer[k]
               \/ \E k \in 1..Len(toClient) :
                     /\ toClient[k].type = "request"
                     /\ toClient[k].id = toServer'[i].id
                     /\ toClient[k].file = toServer'[i].file
    PROVE  FetchesMatch'
<1>1. /\ \A i \in 1..Len(toClient) : toClient[i] \in ClientMessages
      /\ \A i \in 1..Len(toServer) : toServer[i] \in ServerMessages
      /\ \A i \in 1..Len(toClient') : toClient'[i] \in ClientMessages
      /\ \A i \in 1..Len(toServer') : toServer'[i] \in ServerMessages
      /\ fetched \in Nat /\ fetched' \in Nat
  BY ElementOfSeq DEF TypeOK
<1>2. /\ \A k \in 1..Len(toClient) : toClient[k].type = "request" =>
            toClient[k].id \in Nat /\ toClient[k].id <= fetched
      /\ \A k \in 1..Len(toServer) : toServer[k].type = "response" =>
            toServer[k].id \in Nat /\ toServer[k].id <= fetched
  BY <1>1, MessageFields DEF FetchesMatch
<1>3. job'.stage = "settings" => job'.id \in Nat
  BY JobFields DEF TypeOK, Jobs, NoJob
<1>4. ASSUME NEW k \in 1..Len(toClient), toClient[k].type = "request"
      PROVE  /\ toClient[k].id <= fetched'
             /\ job'.stage = "settings" /\ job'.id = toClient[k].id =>
                    toClient[k].file = job'.file
  BY <1>1, <1>2, <1>3, <1>4 DEF FetchesMatch
<1>5. ASSUME NEW k \in 1..Len(toServer), toServer[k].type = "response"
      PROVE  /\ toServer[k].id <= fetched'
             /\ job'.stage = "settings" /\ job'.id = toServer[k].id =>
                    toServer[k].file = job'.file
  BY <1>1, <1>2, <1>3, <1>5 DEF FetchesMatch
<1>6. ASSUME NEW i \in 1..Len(toClient'), toClient'[i].type = "request"
      PROVE  /\ toClient'[i].id <= fetched'
             /\ job'.stage = "settings" /\ job'.id = toClient'[i].id =>
                    toClient'[i].file = job'.file
  BY <1>4, <1>6
<1>7. ASSUME NEW i \in 1..Len(toServer'), toServer'[i].type = "response"
      PROVE  /\ toServer'[i].id <= fetched'
             /\ job'.stage = "settings" /\ job'.id = toServer'[i].id =>
                    toServer'[i].file = job'.file
  BY <1>4, <1>5, <1>7
<1>8. QED
  BY <1>6, <1>7 DEF FetchesMatch

\* Where the messages of a channel that lost its head, or got one more, come from.
LEMMA Origins ==
    ASSUME NEW S, NEW s \in Seq(S)
    PROVE  /\ s # <<>> => \A i \in 1..Len(Tail(s)) :
                              \E k \in 1..Len(s) : Tail(s)[i] = s[k]
           /\ \A m \in S : \A i \in 1..Len(Append(s, m)) :
                 \/ \E k \in 1..Len(s) : Append(s, m)[i] = s[k]
                 \/ Append(s, m)[i] = m
<1>1. s # <<>> => \A i \in 1..Len(Tail(s)) : \E k \in 1..Len(s) : Tail(s)[i] = s[k]
  BY Dropped
<1>2. ASSUME NEW m \in S
      PROVE  \A i \in 1..Len(Append(s, m)) :
                \/ \E k \in 1..Len(s) : Append(s, m)[i] = s[k]
                \/ Append(s, m)[i] = m
  BY Appended
<1>3. QED
  BY <1>1, <1>2

\* The channel to the server after one of its messages has been taken.
LEMMA TakenOrigins ==
    ASSUME TypeOK, NEW t, Take(t)
    PROVE  \A i \in 1..Len(toServer') : \E k \in 1..Len(toServer) : toServer'[i] = toServer[k]
BY Origins DEF Take, TypeOK

\* The channel to the editor after the beginning of a lint, or no change at all.
LEMMA BeginFetches ==
    ASSUME TypeOK, NEW f \in Files, NEW v \in Versions, NEW s \in Settings, Begin(f, v, s)
    PROVE  /\ job'.stage # "settings"
           /\ \A i \in 1..Len(toClient') : toClient'[i].type = "request" =>
                 \E k \in 1..Len(toClient) : toClient'[i] = toClient[k]
<1>1. job'.stage # "settings"
  BY DEF Begin, NoJob
<1>2. CASE UNCHANGED toClient
  BY <1>1, <1>2
<1>3. CASE Send(f, [of |-> v, found |-> {}])
  <2> DEFINE d == [type |-> "diagnostics", file |-> f, list |-> [of |-> v, found |-> {}]]
  <2>1. d \in ClientMessages
    BY DEF ClientMessages, Diagnostics
  <2>2. toClient' = Append(toClient, d) /\ toClient \in Seq(ClientMessages)
    BY <1>3 DEF Send, TypeOK
  <2>3. QED
    BY <1>1, <2>1, <2>2, Origins
<1>4. QED
  BY <1>2, <1>3 DEF Begin

LEMMA FetchesStep ==
    ASSUME TypeOK, TypeOK', FetchesMatch, [Next]_vars
    PROVE  FetchesMatch'
<1>1. /\ toClient \in Seq(ClientMessages) /\ toServer \in Seq(ServerMessages)
      /\ fetched \in Nat
      /\ job.stage = "settings" => job.id <= fetched
  BY DEF TypeOK, FetchesMatch
<1>2. ASSUME NEW f \in Files, OpenDocument(f) \/ ChangeDocument(f) \/ CloseDocument(f)
      PROVE  FetchesMatch'
  <2>1. PICK t, v : t \in {"didOpen", "didChange", "didClose"} /\ Notify(t, f, v)
    BY <1>2 DEF OpenDocument, ChangeDocument, CloseDocument
  <2> DEFINE m == [type |-> t, file |-> f, version |-> v]
  <2>2. toServer' = Append(toServer, m) /\ UNCHANGED <<toClient, fetched, job>>
    BY <2>1 DEF Notify
  <2>3. toServer' \in Seq(ServerMessages)
    BY DEF TypeOK
  <2>4. \A i \in 1..Len(toServer') : toServer'[i].type = "response" =>
          \E k \in 1..Len(toServer) : toServer'[i] = toServer[k]
    <3>1. Len(toServer') = Len(toServer) + 1 /\ Len(toServer) \in Nat
      BY <1>1, <2>2, LenProperties
    <3>2. toServer'[Len(toServer) + 1] = m /\ m.type # "response"
      <4>1. m.type = t /\ t # "response"
        BY <2>1
      <4>2. QED
        BY <1>1, <2>2, <3>1, <4>1
    <3>3. \A i \in 1..Len(toServer) : toServer'[i] = toServer[i]
      BY <1>1, <2>2, <3>1
    <3>4. QED
      BY <3>1, <3>2, <3>3
  <2>5. QED
    BY <1>1, <2>2, <2>4, FetchesKept
<1>3. ASSUME NEW s \in Settings, ChangeSettings(s)
      PROVE  FetchesMatch'
  <2>1. /\ toServer' = Append(toServer, ConfigMessage)
        /\ UNCHANGED <<toClient, fetched, job>>
    BY <1>3 DEF ChangeSettings
  <2>2. ConfigMessage \in ServerMessages /\ ConfigMessage.type # "response"
    BY DEF ServerMessages, ConfigMessage
  <2>3. \A i \in 1..Len(toServer') : toServer'[i].type = "response" =>
          \E k \in 1..Len(toServer) : toServer'[i] = toServer[k]
    BY <1>1, <2>1, <2>2, Origins
  <2>4. QED
    BY SMTT(30), <1>1, <2>1, <2>3, FetchesKept
<1>4. CASE AnswerRequest
  <2> DEFINE m == Head(toClient)
             a == [type |-> "response", file |-> m.file, id |-> m.id, value |-> setting]
  <2>1. /\ toClient # <<>> /\ toClient' = Tail(toClient)
        /\ m.type = "request" /\ toServer' = Append(toServer, a)
        /\ UNCHANGED <<fetched, job>>
    BY <1>4 DEF AnswerRequest
  <2>2. m \in ClientMessages /\ m = toClient[1] /\ 1 \in 1..Len(toClient)
    BY <1>1, <2>1, Dropped
  <2>3. a \in ServerMessages
    BY <2>1, <2>2, MessageFields DEF TypeOK, ServerMessages, Responses
  <2>4. \A i \in 1..Len(toServer') :
          \/ \E k \in 1..Len(toServer) : toServer'[i] = toServer[k]
          \/ toServer'[i] = a
    BY <1>1, <2>1, <2>3, Origins
  <2>5. \A i \in 1..Len(toClient') : \E k \in 1..Len(toClient) : toClient'[i] = toClient[k]
    BY <1>1, <2>1, Origins
  <2>6. a.id = toClient[1].id /\ a.file = toClient[1].file /\ toClient[1].type = "request"
    BY <2>1, <2>2
  <2>7. QED
    <3> HIDE DEF a, m
    <3> QED
      BY SMTT(30), <1>1, <2>1, <2>2, <2>4, <2>5, <2>6, FetchesKept
<1>5. CASE ShowDiagnostics
  <2>1. /\ toClient # <<>> /\ toClient' = Tail(toClient)
        /\ UNCHANGED <<toServer, fetched, job>>
    BY <1>5 DEF ShowDiagnostics
  <2>2. \A i \in 1..Len(toClient') : \E k \in 1..Len(toClient) : toClient'[i] = toClient[k]
    BY <1>1, <2>1, Origins
  <2>3. QED
    BY <1>1, <2>1, <2>2, FetchesKept
<1>6. ASSUME DidOpen \/ DidChange
      PROVE  FetchesMatch'
  <2> DEFINE m == Head(toServer)
  <2>1. PICK t \in {"didOpen", "didChange"}, gets \in 1..2 :
          Take(t) /\ (Lint(m.file, m.version, gets) \/ Ignore)
    BY <1>6 DEF DidOpen, DidChange
  <2>2. m.file \in Files /\ m.version \in Versions
    BY <2>1, Taken, MessageFields, BoundAssumption DEF Versions
  <2>3. \A i \in 1..Len(toServer') : \E k \in 1..Len(toServer) : toServer'[i] = toServer[k]
    BY <2>1, TakenOrigins
  <2>4. CASE Ignore
    BY <1>1, <2>3, <2>4, FetchesKept DEF Ignore
  <2>5. CASE \E s \in cache[m.file] : Begin(m.file, m.version, s) /\ UNCHANGED fetched
    <3>1. PICK s \in cache[m.file] : Begin(m.file, m.version, s) /\ UNCHANGED fetched
      BY <2>5
    <3>2. s \in Settings
      BY <2>2 DEF TypeOK
    <3>3. QED
      BY <1>1, <2>2, <2>3, <3>1, <3>2, BeginFetches, FetchesKept
  <2>6. CASE /\ fetched' = fetched + gets
             /\ toClient' = toClient \o Requests(m.file, gets)
             /\ job' = [stage |-> "settings", file |-> m.file, id |-> fetched + gets]
    <3> HIDE DEF m
    <3>1. gets \in Nat /\ job'.file = m.file
      BY <2>6
    <3>2. \A i \in 1..Len(toClient') :
            \/ \E k \in 1..Len(toClient) : toClient'[i] = toClient[k]
            \/ /\ toClient'[i].id <= fetched' /\ toClient'[i].id > fetched
               /\ toClient'[i].file = job'.file
      BY <2>2, <2>6, <3>1, Asked
    <3>3. fetched' >= fetched /\ job'.id <= fetched' /\ job'.id > fetched
      BY <1>1, <2>6
    <3>4. QED
      BY <2>3, <3>2, <3>3, FetchesKept
  <2>7. QED
    BY <2>1, <2>4, <2>5, <2>6 DEF Lint
<1>7. CASE DidClose
  <2> DEFINE m == Head(toServer)
             gets == IF cache[m.file] = {} THEN 1 ELSE 0
             d == [type |-> "diagnostics", file |-> m.file, list |-> Cleared]
             asked == toClient \o Requests(m.file, gets)
  <2>1. m.file \in Files /\ Take("didClose")
    BY <1>7, Taken, MessageFields DEF DidClose
  <2>2. \A i \in 1..Len(toServer') : \E k \in 1..Len(toServer) : toServer'[i] = toServer[k]
    BY <2>1, TakenOrigins
  <2>3. CASE Ignore
    BY <1>1, <2>2, <2>3, FetchesKept DEF Ignore
  <2>4. CASE Clear(m.file) /\ job' = NoJob /\ UNCHANGED alive
    <3>1. gets \in {0, 1} /\ fetched' = fetched + gets /\ toClient' = asked \o <<d>>
      BY <2>4 DEF Clear
    <3>2. /\ asked \in Seq(ClientMessages)
          /\ \A i \in 1..Len(asked) :
                \/ \E k \in 1..Len(toClient) : asked[i] = toClient[k]
                \/ asked[i].id > fetched /\ asked[i].id <= fetched'
      <4> HIDE DEF gets, m
      <4>1. gets \in Nat
        BY <3>1
      <4>2. QED
        BY <2>1, <3>1, <4>1, Asked
    <3>3. d \in ClientMessages /\ d.type # "request"
      BY <2>1, BoundAssumption DEF ClientMessages, Cleared, Diagnostics, Versions
    <3>4. \A i \in 1..Len(toClient') : toClient'[i].type = "request" =>
            \E k \in 1..Len(asked) : toClient'[i] = asked[k]
      <4> HIDE DEF asked, d
      <4>1. asked \o <<d>> = Append(asked, d)
        BY <3>2, <3>3
      <4>2. QED
        BY <3>1, <3>2, <3>3, <4>1, Origins
    <3>5. \A i \in 1..Len(toClient') : toClient'[i].type = "request" =>
            \/ \E k \in 1..Len(toClient) : toClient'[i] = toClient[k]
            \/ toClient'[i].id <= fetched' /\ toClient'[i].id > fetched
      <4> HIDE DEF asked
      <4> QED
        BY <3>2, <3>4
    <3>6. job'.stage # "settings" /\ fetched' >= fetched
      BY <1>1, <2>4, <3>1 DEF NoJob
    <3>7. QED
      BY <2>2, <3>5, <3>6, FetchesKept
  <2>5. QED
    BY <1>7, <2>3, <2>4 DEF DidClose
<1>8. CASE DidChangeConfiguration
  <2>1. \A i \in 1..Len(toServer') : \E k \in 1..Len(toServer) : toServer'[i] = toServer[k]
    BY <1>8, TakenOrigins DEF DidChangeConfiguration
  <2>2. QED
    BY <1>1, <1>8, <2>1, FetchesKept DEF DidChangeConfiguration
<1>9. CASE Response
  <2> DEFINE m == Head(toServer)
  <2>1. m.file \in Files /\ m.value \in Settings /\ Take("response")
    BY <1>9, Taken, MessageFields DEF Response
  <2>2. \A i \in 1..Len(toServer') : \E k \in 1..Len(toServer) : toServer'[i] = toServer[k]
    BY <2>1, TakenOrigins
  <2>3. CASE Ignore
    BY <1>1, <2>2, <2>3, FetchesKept DEF Ignore
  <2>4. CASE Begin(m.file, documents[m.file], m.value) /\ UNCHANGED fetched
    <3>1. documents[m.file] \in Versions
      BY <2>1 DEF TypeOK
    <3>2. QED
      BY <1>1, <2>1, <2>2, <2>4, <3>1, BeginFetches, FetchesKept
  <2>5. QED
    BY <1>9, <2>3, <2>4 DEF Response
<1>9a. CASE ResponseFails
  <2>1. \A i \in 1..Len(toServer') : \E k \in 1..Len(toServer) : toServer'[i] = toServer[k]
    BY <1>9a, FailureEnds, TakenOrigins
  <2>2. UNCHANGED <<toClient, fetched>> /\ (job' = job \/ job' = NoJob)
    <3>1. job' = job \/ job' = NoJob
      BY <1>9a, FailureEnds, Zenon
    <3>2. QED
      BY <1>9a, <3>1, FailureEnds
  <2>3. job' = NoJob => job'.stage # "settings"
    BY DEF NoJob
  <2>4. QED
    BY <1>1, <2>1, <2>2, <2>3, FetchesKept
<1>10. ASSUME NEW l \in Linters, LinterEnds(l)
       PROVE  FetchesMatch'
  <2>1. job'.stage # "settings" /\ UNCHANGED <<toServer, fetched>>
    BY <1>10 DEF LinterEnds, Ended, NoJob
  <2>2. CASE UNCHANGED toClient
    BY <1>1, <2>1, <2>2, FetchesKept
  <2>3. CASE \E list : Send(job.file, list)
    <3>1. PICK list : Send(job.file, list)
      BY <2>3
    <3> DEFINE d == [type |-> "diagnostics", file |-> job.file, list |-> list]
    <3>2. toClient' = Append(toClient, d) /\ toClient' \in Seq(ClientMessages)
      BY <3>1 DEF Send, TypeOK
    <3>3. /\ Len(toClient') = Len(toClient) + 1 /\ Len(toClient) \in Nat
          /\ toClient'[Len(toClient) + 1] = d /\ d.type # "request"
          /\ \A i \in 1..Len(toClient) : toClient'[i] = toClient[i]
      <4> HIDE DEF d
      <4>1. Len(toClient) \in Nat
        BY <1>1, LenProperties
      <4>2. QED
        BY <1>1, <3>2, <4>1 DEF d
    <3>4. \A i \in 1..Len(toClient') : toClient'[i].type = "request" =>
            \E k \in 1..Len(toClient) : toClient'[i] = toClient[k]
      BY <3>3
    <3>5. QED
      BY <1>1, <2>1, <3>4, FetchesKept
  <2>4. QED
    BY <1>10, <2>2, <2>3 DEF LinterEnds
<1>11. CASE UNCHANGED vars
  BY <1>11 DEF vars, FetchesMatch
<1>12. QED
  BY <1>2, <1>3, <1>4, <1>5, <1>6, <1>7, <1>8, <1>9, <1>9a, <1>10, <1>11
  DEF Next, Editor, Server

\* A lint that has begun is over at once, or waits for its linters.
LEMMA BeginJob ==
    ASSUME NEW f, NEW v, NEW s, Begin(f, v, s)
    PROVE  \/ job' = NoJob
           \/ /\ job'.stage = "linting" /\ job'.file = f /\ job'.of = v
              /\ UNCHANGED alive
BY DEF Begin

LEMMA JobStep ==
    ASSUME TypeOK, FetchesMatch, JobIsCurrent, [Next]_vars
    PROVE  JobIsCurrent'
<1>1. CASE UNCHANGED <<documents, job, alive, focus>>
  BY <1>1 DEF JobIsCurrent
<1>2. CASE job' = NoJob
  BY <1>2 DEF JobIsCurrent
<1>3. CASE Editor
  <2>1. UNCHANGED <<documents, job, alive, focus>>
    BY <1>3 DEF Editor, OpenDocument, ChangeDocument, CloseDocument, Notify, ChangeSettings,
       AnswerRequest, ShowDiagnostics, historyVars
  <2>2. QED
    BY <1>1, <2>1
<1>4. ASSUME DidOpen \/ DidChange
      PROVE  JobIsCurrent'
  <2> DEFINE m == Head(toServer)
  <2>1. PICK t \in {"didOpen", "didChange"}, gets \in 1..2 :
          /\ Take(t)
          /\ documents' = [documents EXCEPT ![m.file] = m.version]
          /\ focus' = {m.file}
          /\ \/ alive /\ Lint(m.file, m.version, gets)
             \/ ~alive /\ Ignore
    BY <1>4 DEF DidOpen, DidChange
  <2>2. m.file \in Files /\ m.version \in 1..MaxEdits
    BY <2>1, Taken, MessageFields
  <2>3. documents'[m.file] = m.version /\ m.version # 0
    BY <2>1, <2>2, BoundAssumption DEF TypeOK
  <2>4. CASE ~alive /\ Ignore
    BY <1>2, <2>4 DEF JobIsCurrent, Ignore
  <2>5. CASE alive /\ Lint(m.file, m.version, gets)
    <3> HIDE DEF m
    <3>1. \/ job' = NoJob
          \/ /\ alive' /\ job'.file = m.file
             /\ job'.stage = "linting" => job'.of = m.version
      <4>1. CASE job' = [stage |-> "settings", file |-> m.file, id |-> fetched + gets]
                 /\ UNCHANGED alive
        BY <2>5, <4>1
      <4>2. CASE \E s \in cache[m.file] : Begin(m.file, m.version, s)
        <5>1. PICK s : Begin(m.file, m.version, s)
          BY <4>2
        <5>2. QED
          BY <2>5, <5>1, BeginJob
      <4>3. QED
        BY <2>5, <4>1, <4>2 DEF Lint
    <3>2. QED
      BY <1>2, <2>1, <2>3, <3>1 DEF JobIsCurrent
  <2>6. QED
    BY <2>1, <2>4, <2>5
<1>5. CASE DidClose
  BY <1>2, <1>5 DEF DidClose, JobIsCurrent, Ignore
<1>6. CASE DidChangeConfiguration
  BY <1>1, <1>6 DEF DidChangeConfiguration, historyVars
<1>7. CASE Response
  <2> DEFINE m == Head(toServer)
  <2>1. CASE Ignore
    BY <1>1, <1>7, <2>1 DEF Response, Ignore
  <2>2. CASE /\ job.stage = "settings" /\ job.id = m.id
             /\ Begin(m.file, documents[m.file], m.value)
    <3>1. Take("response") /\ UNCHANGED <<documents, focus>>
      BY <1>7 DEF Response
    <3>2. m = toServer[1] /\ m.type = "response" /\ 1 \in 1..Len(toServer)
      BY <3>1, Taken
    <3>3. m.file = job.file
      BY <2>2, <3>2 DEF FetchesMatch
    <3>4. alive /\ focus = {m.file} /\ documents[m.file] # 0
      BY <2>2, <3>3 DEF JobIsCurrent, NoJob
    <3>5. QED
      <4> HIDE DEF m
      <4> QED
        BY <1>2, <2>2, <3>1, <3>4, BeginJob DEF JobIsCurrent
  <2>3. QED
    BY <1>7, <2>1, <2>2 DEF Response
<1>7a. CASE ResponseFails
  BY <1>7a, FailureEnds DEF JobIsCurrent
<1>8. ASSUME NEW l \in Linters, LinterEnds(l)
      PROVE  JobIsCurrent'
  <2>1. CASE job' = Ended(l)
    <3>1. /\ job'.stage = "linting" /\ job'.file = job.file /\ job'.of = job.of
          /\ job.stage = "linting" /\ UNCHANGED <<documents, alive, focus>>
      BY <1>8, <2>1 DEF LinterEnds, Ended
    <3>2. job # NoJob
      BY <3>1 DEF NoJob
    <3>3. QED
      BY <3>1, <3>2 DEF JobIsCurrent
  <2>2. QED
    BY <1>2, <1>8, <2>1 DEF LinterEnds
<1>9. QED
  BY <1>1, <1>3, <1>4, <1>5, <1>6, <1>7, <1>7a, <1>8 DEF Next, Server, vars, historyVars

\* The editor says something: news of a change, or what holds for its present
\* configuration.
LEMMA FreshSaid ==
    ASSUME TypeOK, AnswersOrdered, SettingsFresh, UNCHANGED cache,
           NEW m \in ServerMessages, toServer' = Append(toServer, m),
           \/ m = ConfigMessage
           \/ /\ m # ConfigMessage /\ UNCHANGED setting
              /\ m.type = "response" => m.value = setting
    PROVE  AnswersOrdered' /\ SettingsFresh'
<1> DEFINE n == Len(toServer)
<1>1. /\ n \in Nat /\ Len(toServer') = n + 1 /\ toServer'[n + 1] = m
      /\ \A i \in 1..n : toServer'[i] = toServer[i]
      /\ \A i \in 1..Len(toServer') : i \in 1..n \/ i = n + 1
  BY Appended DEF TypeOK
<1> HIDE DEF n
<1>2. CASE m = ConfigMessage
  <2>1. m.type # "response"
    BY <1>2 DEF ConfigMessage
  <2>2. AnswersOrdered'
    <3> SUFFICES ASSUME NEW i \in 1..Len(toServer'), toServer'[i].type = "response"
                 PROVE  \E j \in (i + 1)..Len(toServer') : toServer'[j] = ConfigMessage
      BY DEF AnswersOrdered
    <3>1. i \in 1..n
      BY <1>1, <2>1
    <3>2. n + 1 \in (i + 1)..Len(toServer')
      BY <1>1, <3>1
    <3>3. QED
      BY <1>1, <1>2, <3>2
  <2>3. SettingsFresh'
    <3>1. n + 1 \in 1..Len(toServer')
      BY <1>1
    <3>2. QED
      BY <1>1, <1>2, <3>1 DEF SettingsFresh
  <2>4. QED
    BY <2>2, <2>3
<1>3. CASE /\ m # ConfigMessage /\ UNCHANGED setting
           /\ m.type = "response" => m.value = setting
  <2>1. AnswersOrdered'
    <3> SUFFICES ASSUME NEW i \in 1..Len(toServer'),
                        toServer'[i].type = "response", toServer'[i].value # setting'
                 PROVE  \E j \in (i + 1)..Len(toServer') : toServer'[j] = ConfigMessage
      BY DEF AnswersOrdered
    <3>1. i \in 1..n /\ toServer'[i] = toServer[i]
      BY <1>1, <1>3
    <3>2. PICK j \in (i + 1)..n : toServer[j] = ConfigMessage
      BY <1>3, <3>1 DEF AnswersOrdered, n
    <3>3. j \in (i + 1)..Len(toServer') /\ j \in 1..n
      BY <1>1, <3>1, <3>2
    <3>4. QED
      BY <1>1, <3>2, <3>3
  <2>2. SettingsFresh'
    <3> SUFFICES ASSUME \A i \in 1..Len(toServer') : toServer'[i] # ConfigMessage
                 PROVE  \A f \in Files : cache'[f] \subseteq {setting'}
      BY DEF SettingsFresh
    <3>1. \A i \in 1..n : i \in 1..Len(toServer') /\ toServer[i] # ConfigMessage
      BY <1>1
    <3>2. QED
      BY <1>3, <3>1 DEF SettingsFresh, n
  <2>3. QED
    BY <2>1, <2>2
<1>4. QED
  BY <1>2, <1>3

\* The server takes a message.
LEMMA FreshTaken ==
    ASSUME TypeOK, AnswersOrdered, SettingsFresh, UNCHANGED setting, NEW t, Take(t),
           \/ t # "didChangeConfiguration" /\ UNCHANGED cache
           \/ t = "didChangeConfiguration" /\ cache' = [f \in Files |-> {}]
           \/ /\ t = "response"
              /\ cache' = [cache EXCEPT ![Head(toServer).file] = {Head(toServer).value}]
    PROVE  AnswersOrdered' /\ SettingsFresh'
<1> DEFINE m == Head(toServer)
           n == Len(toServer)
<1>1. /\ m \in ServerMessages /\ m.type = t /\ m = toServer[1] /\ 1 \in 1..n
      /\ n \in Nat /\ Len(toServer') = n - 1
      /\ \A i \in 1..Len(toServer') : i + 1 \in 1..n /\ toServer'[i] = toServer[i + 1]
  BY Taken
<1>2. AnswersOrdered'
  <2> SUFFICES ASSUME NEW i \in 1..Len(toServer'),
                      toServer'[i].type = "response", toServer'[i].value # setting
               PROVE  \E j \in (i + 1)..Len(toServer') : toServer'[j] = ConfigMessage
    BY DEF AnswersOrdered
  <2>1. i + 1 \in 1..n /\ toServer'[i] = toServer[i + 1]
    BY <1>1
  <2>2. PICK j \in (i + 1 + 1)..n : toServer[j] = ConfigMessage
    BY <2>1 DEF AnswersOrdered
  <2> HIDE DEF n
  <2>3. j - 1 \in (i + 1)..Len(toServer') /\ j - 1 \in 1..Len(toServer') /\ (j - 1) + 1 = j
    BY <1>1, <2>1, <2>2
  <2>4. QED
    BY <1>1, <2>2, <2>3
<1>3. SettingsFresh'
  <2> SUFFICES ASSUME \A i \in 1..Len(toServer') : toServer'[i] # ConfigMessage
               PROVE  \A f \in Files : cache'[f] \subseteq {setting}
    BY DEF SettingsFresh
  <2>1. CASE t = "didChangeConfiguration"
    BY <2>1
  <2>2. CASE t # "didChangeConfiguration"
    <3> HIDE DEF m, n
    <3>1. m # ConfigMessage
      BY <1>1, <2>2, MessageFields
    <3>2. ASSUME NEW k \in 1..n
          PROVE  toServer[k] # ConfigMessage
      <4>1. CASE k = 1
        BY <1>1, <3>1, <4>1
      <4>2. CASE k # 1
        <5>1. k - 1 \in 1..Len(toServer') /\ (k - 1) + 1 = k
          BY <1>1, <4>2
        <5>2. QED
          BY <1>1, <5>1
      <4>3. QED
        BY <4>1, <4>2
    <3>3. \A f \in Files : cache[f] \subseteq {setting}
      BY <3>2 DEF SettingsFresh, n
    <3>4. t = "response" => m.value = setting
      <4> SUFFICES ASSUME t = "response", m.value # setting
                   PROVE  FALSE
        OBVIOUS
      <4>1. PICK j \in (1 + 1)..n : toServer[j] = ConfigMessage
        BY <1>1 DEF AnswersOrdered, n
      <4>2. j \in 1..n
        BY <1>1, <4>1
      <4>3. QED
        BY <3>2, <4>1, <4>2
    <3>5. QED
      BY <2>2, <3>3, <3>4 DEF TypeOK, m
  <2>3. QED
    BY <2>1, <2>2
<1>4. QED
  BY <1>2, <1>3

LEMMA FreshStep ==
    ASSUME TypeOK, AnswersOrdered, SettingsFresh, [Next]_vars
    PROVE  AnswersOrdered' /\ SettingsFresh'
<1>1. CASE UNCHANGED <<toServer, setting, cache>>
  BY <1>1 DEF AnswersOrdered, SettingsFresh
<1>2. ASSUME NEW f \in Files, OpenDocument(f) \/ ChangeDocument(f) \/ CloseDocument(f)
      PROVE  AnswersOrdered' /\ SettingsFresh'
  <2>1. PICK t, v : /\ Notify(t, f, v)
                    /\ \/ t \in {"didOpen", "didChange"} /\ v = edits + 1
                       \/ t = "didClose" /\ v = 0
    BY <1>2 DEF OpenDocument, ChangeDocument, CloseDocument
  <2> DEFINE m == [type |-> t, file |-> f, version |-> v]
  <2>2. m \in ServerMessages
    BY <2>1, BoundAssumption DEF Notify, TypeOK, ServerMessages, DocumentMessages
  <2>3. m.type \notin {"response", "didChangeConfiguration"}
    BY <2>1
  <2>4. toServer' = Append(toServer, m) /\ UNCHANGED <<setting, cache>>
    BY <2>1 DEF Notify
  <2>5. QED
    <3> HIDE DEF m
    <3> QED
      BY <2>2, <2>3, <2>4, MessageFields, FreshSaid
<1>3. ASSUME NEW s \in Settings, ChangeSettings(s)
      PROVE  AnswersOrdered' /\ SettingsFresh'
  BY <1>3, FreshSaid DEF ChangeSettings, ServerMessages
<1>4. CASE AnswerRequest
  <2> DEFINE q == Head(toClient)
             a == [type |-> "response", file |-> q.file, id |-> q.id, value |-> setting]
  <2>1. q \in ClientMessages /\ q.type = "request"
    BY <1>4, Dropped DEF AnswerRequest, TypeOK
  <2>2. a \in ServerMessages
    BY <2>1, MessageFields DEF TypeOK, ServerMessages, Responses
  <2>3. a # ConfigMessage /\ a.value = setting
    BY DEF ConfigMessage
  <2>4. toServer' = Append(toServer, a) /\ UNCHANGED <<setting, cache>>
    BY <1>4 DEF AnswerRequest, editorVars
  <2>5. QED
    BY <2>2, <2>3, <2>4, FreshSaid
<1>5. CASE ShowDiagnostics
  BY <1>1, <1>5 DEF ShowDiagnostics
<1>6. ASSUME DidOpen \/ DidChange \/ DidClose
      PROVE  AnswersOrdered' /\ SettingsFresh'
  <2>1. PICK t \in {"didOpen", "didChange", "didClose"} :
          Take(t) /\ UNCHANGED <<setting, cache>>
    BY <1>6 DEF DidOpen, DidChange, DidClose, editorVars
  <2>2. QED
    BY <2>1, FreshTaken
<1>7. CASE DidChangeConfiguration
  BY <1>7, FreshTaken DEF DidChangeConfiguration, editorVars
<1>8. CASE Response
  BY <1>8, FreshTaken DEF Response, editorVars
<1>8a. CASE ResponseFails
  BY <1>8a, FailureEnds, FreshTaken DEF editorVars
<1>9. ASSUME NEW l \in Linters, LinterEnds(l)
      PROVE  AnswersOrdered' /\ SettingsFresh'
  BY <1>1, <1>9 DEF LinterEnds, editorVars
<1>10. QED
  BY <1>1, <1>2, <1>3, <1>4, <1>5, <1>6, <1>7, <1>8, <1>8a, <1>9
  DEF Next, Editor, Server, vars, editorVars

\* The inductive invariant: the answers of the fetcher reach the lint that waits
\* for them, and the cache is no older than the last change it was told of.
THEOREM PipelineInvariant == Spec => []IInv
<1>1. Init => IInv
  BY DEF Init, IInv, FetchesMatch, JobIsCurrent, AnswersOrdered, SettingsFresh, NoJob
<1>2. TypeOK /\ TypeOK' /\ IInv /\ [Next]_vars => IInv'
  BY FetchesStep, JobStep, FreshStep DEF IInv
<1>3. QED
  BY <1>1, <1>2, TypeCorrect, PTL DEF Spec

\* SettingsCache.ts:73: no fetch brings an older configuration back.
THEOREM SettingsStayFresh == Spec => []SettingsFresh
<1>1. IInv => SettingsFresh
  BY DEF IInv
<1>2. QED
  BY <1>1, PipelineInvariant, PTL

(***************************************************************************)
(* The pipeline implements the board.                                      *)
(***************************************************************************)

\* What the beginning of a lint is on the board.
LEMMA BeginOnBoard ==
    ASSUME NEW f, NEW v, NEW s, Begin(f, v, s)
    PROVE  \/ UNCHANGED <<sent, alive>>
           \/ UNCHANGED sent /\ alive' = FALSE
           \/ /\ UNCHANGED alive
              /\ \E d \in Board!Findings(v) : sent' = [sent EXCEPT ![f] = d]
<1>1. CASE UNCHANGED alive /\ Send(f, [of |-> v, found |-> {}])
  <2>1. [of |-> v, found |-> {}] \in Board!Findings(v)
    BY DEF Board!Findings
  <2>2. QED
    BY <1>1, <2>1 DEF Send
<1>2. QED
  BY <1>1 DEF Begin

\* Every step of the pipeline is a step of the board, or leaves it as it is.
LEMMA BoardStep ==
    ASSUME TypeOK, FetchesMatch, JobIsCurrent, [Next]_vars
    PROVE  [Board!Next]_(Board!vars)
<1>1. CASE UNCHANGED <<documents, sent, focus, alive>>
  BY <1>1, Zenon DEF Board!vars
<1>2. CASE Editor
  <2>1. UNCHANGED <<documents, sent, focus, alive>>
    BY <1>2 DEF Editor, OpenDocument, ChangeDocument, CloseDocument, Notify, ChangeSettings,
       AnswerRequest, ShowDiagnostics, historyVars
  <2>2. QED
    BY <1>1, <2>1
<1>3. ASSUME DidOpen \/ DidChange
      PROVE  Board!Next
  <2> DEFINE m == Head(toServer)
  <2>1. PICK t \in {"didOpen", "didChange"}, gets \in 1..2 :
          /\ Take(t)
          /\ documents' = [documents EXCEPT ![m.file] = m.version]
          /\ focus' = {m.file}
          /\ \/ alive /\ Lint(m.file, m.version, gets)
             \/ ~alive /\ Ignore
    BY <1>3 DEF DidOpen, DidChange
  <2>2. m.file \in Files /\ m.version \in 1..MaxEdits
    BY <2>1, Taken, MessageFields
  <2> HIDE DEF m
  <2>3. \/ UNCHANGED <<sent, alive>>
        \/ UNCHANGED sent /\ alive' = FALSE
        \/ /\ alive /\ UNCHANGED alive
           /\ \E d \in Board!Findings(m.version) : sent' = [sent EXCEPT ![m.file] = d]
    <3>1. CASE Ignore
      BY <3>1 DEF Ignore
    <3>2. CASE alive /\ Lint(m.file, m.version, gets)
      BY <3>2, BeginOnBoard DEF Lint
    <3>3. QED
      BY <2>1, <3>1, <3>2
  <2>4. Board!Revise(m.file, m.version)
    <3>1. CASE UNCHANGED <<sent, alive>>
      BY <2>1, <3>1, Zenon DEF Board!Revise
    <3>2. CASE UNCHANGED sent /\ alive' = FALSE
      BY <2>1, <3>2, Zenon DEF Board!Revise
    <3>3. CASE /\ alive /\ UNCHANGED alive
               /\ \E d \in Board!Findings(m.version) : sent' = [sent EXCEPT ![m.file] = d]
      BY <2>1, <3>3, Zenon DEF Board!Revise
    <3>4. QED
      BY <2>3, <3>1, <3>2, <3>3
  <2>5. QED
    BY <2>2, <2>4, Zenon DEF Board!Next
<1>4. CASE DidClose
  <2> DEFINE m == Head(toServer)
  <2>1. /\ documents' = [documents EXCEPT ![m.file] = 0]
        /\ focus' = {m.file}
        /\ UNCHANGED alive
        /\ \/ alive /\ sent' = [sent EXCEPT ![m.file] = Cleared]
           \/ ~alive /\ UNCHANGED sent
    BY <1>4 DEF DidClose, Clear, Ignore
  <2>2. m.file \in Files
    BY <1>4, Taken, MessageFields DEF DidClose
  <2> HIDE DEF m
  <2>3. Board!Close(m.file)
    BY <2>1, Zenon DEF Board!Close, Cleared, Board!Cleared
  <2>4. QED
    BY <2>2, <2>3, Zenon DEF Board!Next
<1>5. CASE DidChangeConfiguration
  BY <1>1, <1>5 DEF DidChangeConfiguration, historyVars
<1>6. CASE Response
  <2> DEFINE m == Head(toServer)
  <2>1. Take("response") /\ UNCHANGED <<documents, focus>>
    BY <1>6 DEF Response
  <2>2. CASE Ignore
    BY <1>1, <2>1, <2>2 DEF Ignore
  <2>3. CASE /\ job.stage = "settings" /\ job.id = m.id
             /\ Begin(m.file, documents[m.file], m.value)
    <3>1. m = toServer[1] /\ m.type = "response" /\ 1 \in 1..Len(toServer) /\ m.file \in Files
      BY <2>1, Taken, MessageFields
    <3>2. m.file = job.file
      BY <2>3, <3>1 DEF FetchesMatch
    <3>3. alive /\ m.file \in focus /\ documents[m.file] # 0
      BY <2>3, <3>2 DEF JobIsCurrent, NoJob
    <3> HIDE DEF m
    <3>4. CASE UNCHANGED <<sent, alive>>
      BY <1>1, <2>1, <3>4
    <3>5. CASE UNCHANGED sent /\ alive' = FALSE
      BY <2>1, <3>5, Zenon DEF Board!Next, Board!Fail
    <3>6. CASE /\ UNCHANGED alive
               /\ \E d \in Board!Findings(documents[m.file]) :
                     sent' = [sent EXCEPT ![m.file] = d]
      <4>1. Board!Publish(m.file)
        BY <2>1, <3>3, <3>6, Zenon DEF Board!Publish
      <4>2. QED
        BY <3>1, <4>1, Zenon DEF Board!Next
    <3>7. QED
      BY <2>3, <3>4, <3>5, <3>6, BeginOnBoard
  <2>4. QED
    BY <1>6, <2>2, <2>3 DEF Response
<1>6a. CASE ResponseFails
  <2>1. UNCHANGED <<documents, sent, focus>> /\ (UNCHANGED alive \/ alive' = FALSE)
    BY <1>6a, FailureEnds
  <2>2. CASE alive' = FALSE
    BY <2>1, <2>2, Zenon DEF Board!Next, Board!Fail
  <2>3. QED
    BY <1>1, <2>1, <2>2
<1>7. ASSUME NEW l \in Linters, LinterEnds(l)
      PROVE  [Board!Next]_(Board!vars)
  <2>1. UNCHANGED <<documents, focus, alive>> /\ job.stage = "linting"
    BY <1>7 DEF LinterEnds
  <2>2. CASE UNCHANGED sent
    BY <1>1, <2>1, <2>2
  <2>3. CASE Send(job.file, [of |-> job.of, found |-> Ended(l).found])
    <3>1. /\ job.file \in Files /\ job.found \subseteq Linters
          /\ alive /\ job.file \in focus
          /\ job.of = documents[job.file] /\ documents[job.file] # 0
      BY <2>1, JobFields DEF JobIsCurrent, NoJob
    <3>2. Ended(l).found \in SUBSET Linters
      BY <3>1 DEF Ended
    <3>3. [of |-> job.of, found |-> Ended(l).found] \in Board!Findings(documents[job.file])
      BY <3>1, <3>2 DEF Board!Findings
    <3>4. Board!Publish(job.file)
      BY <2>1, <2>3, <3>1, <3>3, Zenon DEF Board!Publish, Send
    <3>5. QED
      BY <3>1, <3>4, Zenon DEF Board!Next
  <2>4. QED
    BY <1>7, <2>2, <2>3 DEF LinterEnds
<1>8. QED
  BY <1>1, <1>2, <1>3, <1>4, <1>5, <1>6, <1>6a, <1>7 DEF Next, Server, vars, historyVars

\* Linter.ts:82: diagnostics are only sent for the document of the latest event
\* and for its present text, by the refinement mapping of Board.
THEOREM BoardImplemented == Spec => ImplementsBoard
<1>1. Init => Board!Init
  BY Zenon DEF Init, Board!Init, Cleared, Board!Cleared
<1>2. TypeOK /\ IInv /\ [Next]_vars => [Board!Next]_(Board!vars)
  BY BoardStep DEF IInv
<1>3. QED
  BY <1>1, <1>2, TypeCorrect, PipelineInvariant, PTL
  DEF Spec, ImplementsBoard, Board!Spec

(***************************************************************************)
(* Whose diagnostics are sent.                                             *)
(***************************************************************************)

\* A job accounts for every linter of one configuration: it runs, or has been
\* found not to be there, or its findings are kept.
JobIsWhole ==
    job.stage = "linting" =>
        \E s \in Settings : /\ job.running \subseteq Started(s)
                            /\ job.found = (Started(s) \ job.running) \ Missing

WholeInv == AllTogether /\ JobIsWhole

\* A lint that is over at once has failed, is of no linter, or has sent
\* diagnostics of what it was begun for.
LEMMA BeginServes ==
    ASSUME TypeOK, NEW f \in Files, NEW v, NEW s, Begin(f, v, s)
    PROVE  (alive' /\ job' = NoJob /\ ~muted') => sent'[f].of = v
<1>1. CASE Throws(s) /\ alive' = FALSE
  BY <1>1
<1>2. CASE muted' = (s.on = {}) /\ s.on = {}
  BY <1>2
<1>3. CASE Send(f, [of |-> v, found |-> {}])
  BY <1>3 DEF Send, TypeOK
<1>4. CASE job' = [stage |-> "linting", file |-> f, of |-> v,
                   running |-> Started(s), found |-> {}]
  BY <1>4 DEF NoJob
<1>5. QED
  BY <1>1, <1>2, <1>3, <1>4 DEF Begin

LEMMA BeginWhole ==
    ASSUME TypeOK, WholeInv, NEW f \in Files, NEW v, NEW s \in Settings, Begin(f, v, s)
    PROVE  WholeInv'
<1>1. CASE job' = NoJob /\ UNCHANGED sent
  BY <1>1 DEF WholeInv, AllTogether, JobIsWhole, NoJob
<1>2. CASE job' = NoJob /\ Started(s) = {} /\ Send(f, [of |-> v, found |-> {}])
  <2>1. sent' = [sent EXCEPT ![f] = [of |-> v, found |-> {}]]
    BY <1>2 DEF Send
  <2>2. \A g \in Files : sent'[g] = sent[g] \/ sent'[g].found = Started(s) \ Missing
    BY <1>2, <2>1 DEF TypeOK
  <2>3. AllTogether'
    BY <2>2 DEF WholeInv, AllTogether
  <2>4. QED
    BY <1>2, <2>3 DEF WholeInv, JobIsWhole, NoJob
<1>3. CASE /\ job' = [stage |-> "linting", file |-> f, of |-> v,
                      running |-> Started(s), found |-> {}]
           /\ UNCHANGED sent
  BY <1>3 DEF WholeInv, AllTogether, JobIsWhole
<1>4. QED
  BY <1>1, <1>2, <1>3 DEF Begin

LEMMA WholeStep ==
    ASSUME TypeOK, WholeInv, [Next]_vars
    PROVE  WholeInv'
<1>1. CASE UNCHANGED <<sent, job>>
  BY <1>1 DEF WholeInv, AllTogether, JobIsWhole
<1>2. CASE Editor
  BY <1>1, <1>2 DEF Editor, OpenDocument, ChangeDocument, CloseDocument, Notify,
     ChangeSettings, AnswerRequest, ShowDiagnostics, historyVars
<1>3. ASSUME DidOpen \/ DidChange
      PROVE  WholeInv'
  <2> DEFINE m == Head(toServer)
  <2>1. PICK t \in {"didOpen", "didChange"}, gets \in 1..2 :
          Take(t) /\ (Lint(m.file, m.version, gets) \/ Ignore)
    BY <1>3 DEF DidOpen, DidChange
  <2>2. m.file \in Files
    BY <2>1, Taken, MessageFields
  <2> HIDE DEF m
  <2>3. CASE Ignore
    BY <1>1, <2>3 DEF Ignore
  <2>4. CASE /\ job' = [stage |-> "settings", file |-> m.file, id |-> fetched + gets]
             /\ UNCHANGED sent
    BY <2>4 DEF WholeInv, AllTogether, JobIsWhole
  <2>5. CASE \E s \in cache[m.file] : Begin(m.file, m.version, s)
    <3>1. PICK s \in Settings : Begin(m.file, m.version, s)
      BY <2>2, <2>5 DEF TypeOK
    <3>2. QED
      BY <2>2, <3>1, BeginWhole
  <2>6. QED
    BY <2>1, <2>3, <2>4, <2>5 DEF Lint
<1>4. CASE DidClose
  <2>1. CASE Ignore
    BY <1>1, <2>1 DEF Ignore
  <2>2. CASE job' = NoJob /\ \E f \in Files : sent' = [sent EXCEPT ![f] = Cleared]
    BY <2>2 DEF WholeInv, AllTogether, JobIsWhole, NoJob, Cleared, TypeOK
  <2>3. QED
    <3>1. Head(toServer).file \in Files
      BY <1>4, Taken, MessageFields DEF DidClose
    <3>2. QED
      BY <1>4, <2>1, <2>2, <3>1 DEF DidClose, Clear
<1>5. CASE DidChangeConfiguration
  BY <1>1, <1>5 DEF DidChangeConfiguration, historyVars
<1>6. CASE Response
  <2>1. CASE Ignore
    BY <1>1, <2>1 DEF Ignore
  <2>2. CASE Begin(Head(toServer).file, documents[Head(toServer).file], Head(toServer).value)
    <3>1. Head(toServer).file \in Files /\ Head(toServer).value \in Settings
      BY <1>6, Taken, MessageFields DEF Response
    <3>2. QED
      BY <2>2, <3>1, BeginWhole
  <2>3. QED
    BY <1>6, <2>1, <2>2 DEF Response
<1>6a. CASE ResponseFails
  <2>1. UNCHANGED sent /\ (job' = job \/ job' = NoJob)
    <3>1. job' = job \/ job' = NoJob
      BY <1>6a, FailureEnds, Zenon
    <3>2. QED
      BY <1>6a, <3>1, FailureEnds
  <2>2. CASE job' = NoJob
    BY <2>1, <2>2 DEF WholeInv, AllTogether, JobIsWhole, NoJob
  <2>3. QED
    BY <1>1, <2>1, <2>2
<1>7. ASSUME NEW l \in Linters, LinterEnds(l)
      PROVE  WholeInv'
  <2>1. PICK s \in Settings : /\ job.running \subseteq Started(s)
                              /\ job.found = (Started(s) \ job.running) \ Missing
    BY <1>7 DEF LinterEnds, WholeInv, JobIsWhole
  <2>2. /\ Ended(l).running = job.running \ {l}
        /\ Ended(l).found = (Started(s) \ Ended(l).running) \ Missing
    BY <1>7, <2>1 DEF LinterEnds, Ended
  <2>3. CASE job' = Ended(l) /\ UNCHANGED sent
    <3>1. JobIsWhole'
      BY <2>1, <2>2, <2>3 DEF JobIsWhole
    <3>2. QED
      BY <2>3, <3>1 DEF WholeInv, AllTogether
  <2>4. CASE /\ job.running = {l} /\ job' = NoJob
             /\ Send(job.file, [of |-> job.of, found |-> Ended(l).found])
    <3>1. Ended(l).found = Started(s) \ Missing
      BY <2>2, <2>4
    <3>2. sent' = [sent EXCEPT ![job.file] = [of |-> job.of, found |-> Started(s) \ Missing]]
      BY <2>4, <3>1 DEF Send
    <3>3. \A f \in Files : sent'[f] = sent[f] \/ sent'[f].found = Started(s) \ Missing
      BY <3>2 DEF TypeOK
    <3>4. AllTogether'
      BY <3>3 DEF WholeInv, AllTogether
    <3>5. QED
      BY <2>4, <3>4 DEF WholeInv, JobIsWhole, NoJob
  <2>5. QED
    BY <1>7, <2>3, <2>4 DEF LinterEnds
<1>8. QED
  BY <1>1, <1>2, <1>3, <1>4, <1>5, <1>6, <1>6a, <1>7 DEF Next, Server, vars, historyVars

\* Linter.ts:69: what is sent is of all the linters of one configuration that
\* can be run.
THEOREM SentTogether == Spec => []AllTogether
<1>1. Init => WholeInv
  BY DEF Init, WholeInv, AllTogether, JobIsWhole, NoJob, Cleared
<1>2. TypeOK /\ WholeInv /\ [Next]_vars => WholeInv'
  BY WholeStep
<1>3. WholeInv => AllTogether
  BY DEF WholeInv
<1>4. QED
  BY <1>1, <1>2, <1>3, TypeCorrect, PTL DEF Spec

(***************************************************************************)
(* Whom the pipeline has served when it rests.                             *)
(***************************************************************************)

LEMMA ServedStep ==
    ASSUME TypeOK, FetchesMatch, JobIsCurrent, LatestServed, [Next]_vars
    PROVE  LatestServed'
<1>1. CASE UNCHANGED <<documents, sent, focus, alive, job, muted>>
  BY <1>1 DEF LatestServed
<1>2. CASE Editor
  BY <1>1, <1>2 DEF Editor, OpenDocument, ChangeDocument, CloseDocument, Notify,
     ChangeSettings, AnswerRequest, ShowDiagnostics, historyVars
<1>3. ASSUME DidOpen \/ DidChange
      PROVE  LatestServed'
  <2> DEFINE m == Head(toServer)
  <2>1. PICK t \in {"didOpen", "didChange"}, gets \in 1..2 :
          /\ Take(t)
          /\ documents' = [documents EXCEPT ![m.file] = m.version]
          /\ focus' = {m.file}
          /\ \/ alive /\ Lint(m.file, m.version, gets)
             \/ ~alive /\ Ignore
    BY <1>3 DEF DidOpen, DidChange
  <2>2. m.file \in Files
    BY <2>1, Taken, MessageFields
  <2>3. documents'[m.file] = m.version
    BY <2>1, <2>2 DEF TypeOK
  <2> HIDE DEF m
  <2>4. CASE ~alive /\ Ignore
    BY <2>4 DEF Ignore, LatestServed
  <2>5. CASE job' = [stage |-> "settings", file |-> m.file, id |-> fetched + gets]
    BY <2>5 DEF LatestServed, NoJob
  <2>6. CASE \E s \in cache[m.file] : Begin(m.file, m.version, s)
    <3>1. (alive' /\ job' = NoJob /\ ~muted') => sent'[m.file].of = m.version
      BY <2>2, <2>6, BeginServes
    <3>2. QED
      BY <2>1, <2>3, <3>1 DEF LatestServed
  <2>7. QED
    BY <2>1, <2>4, <2>5, <2>6 DEF Lint
<1>4. CASE DidClose
  <2> DEFINE m == Head(toServer)
  <2>1. /\ documents' = [documents EXCEPT ![m.file] = 0]
        /\ focus' = {m.file}
        /\ \/ sent' = [sent EXCEPT ![m.file] = Cleared]
           \/ ~alive /\ UNCHANGED alive
    BY <1>4 DEF DidClose, Clear, Ignore
  <2>2. m.file \in Files
    BY <1>4, Taken, MessageFields DEF DidClose
  <2> HIDE DEF m
  <2>3. documents'[m.file] = 0
    BY <2>1, <2>2 DEF TypeOK
  <2>4. CASE sent' = [sent EXCEPT ![m.file] = Cleared]
    <3>1. sent'[m.file].of = 0
      BY <2>2, <2>4 DEF Cleared, TypeOK
    <3>2. QED
      BY <2>1, <2>3, <3>1 DEF LatestServed
  <2>5. QED
    BY <2>1, <2>4 DEF LatestServed
<1>5. CASE DidChangeConfiguration
  BY <1>1, <1>5 DEF DidChangeConfiguration, historyVars
<1>6. CASE Response
  <2> DEFINE m == Head(toServer)
  <2>1. Take("response") /\ UNCHANGED <<documents, focus>>
    BY <1>6 DEF Response
  <2>2. CASE Ignore
    BY <1>1, <2>1, <2>2 DEF Ignore
  <2>3. CASE /\ job.stage = "settings" /\ job.id = m.id
             /\ Begin(m.file, documents[m.file], m.value)
    <3>1. m = toServer[1] /\ m.type = "response" /\ 1 \in 1..Len(toServer) /\ m.file \in Files
      BY <2>1, Taken, MessageFields
    <3>2. m.file = job.file
      BY <2>3, <3>1 DEF FetchesMatch
    <3>3. focus = {m.file}
      BY <2>3, <3>2 DEF JobIsCurrent, NoJob
    <3> HIDE DEF m
    <3>4. QED
      BY <2>1, <2>3, <3>1, <3>3, BeginServes DEF LatestServed
  <2>4. QED
    BY <1>6, <2>2, <2>3 DEF Response
<1>6a. CASE ResponseFails
  BY <1>6a, FailureEnds DEF LatestServed
<1>7. ASSUME NEW l \in Linters, LinterEnds(l)
      PROVE  LatestServed'
  <2>1. UNCHANGED <<documents, focus, alive, muted>> /\ job.stage = "linting"
    BY <1>7 DEF LinterEnds
  <2>2. CASE job' = Ended(l)
    BY <2>2 DEF LatestServed, Ended, NoJob
  <2>3. CASE Send(job.file, [of |-> job.of, found |-> Ended(l).found])
    <3>1. /\ job.file \in Files /\ focus = {job.file} /\ job.of = documents[job.file]
      BY <2>1, JobFields DEF JobIsCurrent, NoJob
    <3>2. sent'[job.file].of = job.of
      BY <2>3, <3>1 DEF Send, TypeOK
    <3>3. QED
      BY <2>1, <3>1, <3>2 DEF LatestServed
  <2>4. QED
    BY <1>7, <2>2, <2>3 DEF LinterEnds
<1>8. QED
  BY <1>1, <1>2, <1>3, <1>4, <1>5, <1>6, <1>6a, <1>7 DEF Next, Server, vars, historyVars

\* Linter.ts:82: at rest, the document of the latest event has been served.
THEOREM LatestAlwaysServed == Spec => []LatestServed
<1>1. Init => LatestServed
  BY DEF Init, LatestServed
<1>2. TypeOK /\ IInv /\ LatestServed /\ [Next]_vars => LatestServed'
  BY ServedStep DEF IInv
<1>3. QED
  BY <1>1, <1>2, TypeCorrect, PipelineInvariant, PTL DEF Spec
=============================================================================
