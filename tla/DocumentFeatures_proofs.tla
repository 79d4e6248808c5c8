----------------------- MODULE DocumentFeatures_proofs -----------------------
(***************************************************************************)
(* Proofs about DocumentFeatures: the process behind a request for         *)
(* formatting, for all exit codes and any number of chunks, the edits made *)
(* from its output, for all texts and diffs, and the folds and the         *)
(* outline, for documents and trees of any size.                           *)
(***************************************************************************)
EXTENDS DocumentFeatures, SequenceTheorems, FiniteSetTheorems, WellFoundedInduction, TLAPS

Bounds == CodesAssumption /\ ChunksAssumption

-----------------------------------------------------------------------------
(* The process and its subscription.                                       *)

\* The process exists from the subscription on, and only then are its pipes
\* written to and do they end.
Begun ==
  /\ sub = "none" <=> child = "none"
  /\ sub = "none" => \A p \in Pipes : Drained(p)
  /\ \A p \in Pipes : ended[p] => sub # "none" /\ Drained(p)

\* "close" follows the exit or the failure to start; noClose says no less, and
\* a process that has failed to start has ended its stream by then.
OverWhenClosed ==
  /\ closed => noClose
  /\ noClose => child \in Exited \cup {"failed"}
  /\ child = "failed" /\ noClose => sub # "open"

\* A stream that ends by the exit code does so when both pipes have ended.
EndedByCode ==
  sub \in Codes \cup {"complete"} => \A p \in Pipes : ended[p]

\* A stream that is open, or ended by the exit code, has passed everything on.
PassedOn ==
  sub \in {"none", "open", "complete"} \cup Codes => \A p \in Pipes : got[p] = read[p]

SpawnInv ==
  ProcessTypeOK /\ Begun /\ OverWhenClosed /\ EndedByCode /\ PassedOn /\ NoProcessLeft

\* What the inductive invariant says of a stream that ended by the exit code.
LEMMA InvComplete == SpawnInv => OutputComplete
BY DEF SpawnInv, OutputComplete, EndedByCode, PassedOn, Begun, Drained, ProcessTypeOK

\* The names of the states of processes and streams are not exit codes.
LEMMA Names ==
    /\ {"none", "running", "failed"} \cap Exited = {}
    /\ {"none", "open", "unsubscribed", "ENOENT", "EPIPE"} \cap (Codes \cup {"complete"}) = {}
    /\ {"complete", "0"} \cap Codes = {}
BY CodesAssumption DEF Exited

\* The stream has not begun, and nothing has been written.
LEMMA SpawnStarts == SpawnInit => SpawnInv
<1> SUFFICES ASSUME SpawnInit PROVE SpawnInv
  OBVIOUS
<1>1. ProcessTypeOK
  <2>1. open \in [Pipes -> BOOLEAN] /\ ended \in [Pipes -> BOOLEAN]
    BY Zenon DEF SpawnInit
  <2>2. 0 \in 0 .. MaxChunks
    BY ChunksAssumption
  <2>3. /\ written \in [Pipes -> 0 .. MaxChunks]
        /\ read \in [Pipes -> 0 .. MaxChunks]
        /\ got \in [Pipes -> 0 .. MaxChunks]
    BY <2>2, Zenon DEF SpawnInit
  <2>4. QED
    BY <2>1, <2>3 DEF SpawnInit, ProcessTypeOK
<1>2. Begun /\ OverWhenClosed /\ EndedByCode /\ PassedOn /\ NoProcessLeft
  <2>1. \A p \in Pipes : ~open[p] /\ ~ended[p] /\ written[p] = 0 /\ read[p] = 0 /\ got[p] = 0
    BY DEF SpawnInit
  <2>2. QED
    BY <2>1, Names DEF SpawnInit, Begun, Drained, OverWhenClosed, EndedByCode, PassedOn,
                       NoProcessLeft
<1>3. QED
  BY <1>1, <1>2 DEF SpawnInv

\* The steps of the process and its descendants.
LEMMA ExternalKeeps == SpawnInv /\ External => SpawnInv'
<1> USE DEF SpawnInv
<1>1. ASSUME SpawnInv, NEW p \in Pipes, Write(p) PROVE SpawnInv'
  <2>1. ProcessTypeOK'
    BY <1>1, ChunksAssumption DEF Write, ProcessTypeOK
  <2>2. Begun'
    BY <1>1 DEF Write, ProcessTypeOK, Begun, Drained
  <2>3. OverWhenClosed' /\ EndedByCode' /\ PassedOn' /\ NoProcessLeft'
    BY <1>1 DEF Write, OverWhenClosed, EndedByCode, PassedOn, NoProcessLeft
  <2>4. QED
    BY <2>1, <2>2, <2>3
<1>2. ASSUME SpawnInv, NEW p \in Pipes, CloseEnd(p) PROVE SpawnInv'
  <2>1. ProcessTypeOK'
    BY <1>2 DEF CloseEnd, ProcessTypeOK
  <2>2. Begun'
    BY <1>2 DEF CloseEnd, ProcessTypeOK, Begun, Drained
  <2>3. OverWhenClosed' /\ EndedByCode' /\ PassedOn' /\ NoProcessLeft'
    BY <1>2 DEF CloseEnd, OverWhenClosed, EndedByCode, PassedOn, NoProcessLeft
  <2>4. QED
    BY <2>1, <2>2, <2>3
<1>3. ASSUME SpawnInv, TakeInput PROVE SpawnInv'
  BY <1>3 DEF TakeInput, ProcessTypeOK, Begun, Drained, OverWhenClosed, EndedByCode,
              PassedOn, NoProcessLeft
<1>4. ASSUME SpawnInv, NEW code \in Exited, Exit(code) PROVE SpawnInv'
  <2>1. ProcessTypeOK'
    BY <1>4 DEF Exit, ProcessTypeOK
  <2>2. Begun' /\ OverWhenClosed'
    BY <1>4, Names DEF Exit, Begun, Drained, OverWhenClosed
  <2>3. EndedByCode' /\ PassedOn' /\ NoProcessLeft'
    BY <1>4, Names DEF Exit, EndedByCode, PassedOn, NoProcessLeft
  <2>4. QED
    BY <2>1, <2>2, <2>3
<1>5. QED
  BY <1>1, <1>2, <1>3, <1>4 DEF External

-----------------------------------------------------------------------------
(* The callbacks.  An end of the stream kills the process unless it is     *)
(* known to be over, and only the first one counts.                        *)

LEMMA SubscribeKeeps == SpawnInv /\ Subscribe => SpawnInv'
<1> SUFFICES ASSUME SpawnInv, Subscribe PROVE SpawnInv'
  OBVIOUS
<1> USE DEF SpawnInv
<1>1. child = "none" /\ ~noClose /\ ~closed /\ \A p \in Pipes : ~ended[p]
  BY Names DEF Subscribe, Begun, OverWhenClosed
<1>2. open' \in [Pipes -> BOOLEAN]
  BY Zenon DEF Subscribe, ProcessTypeOK
<1>3. ProcessTypeOK'
  BY <1>2 DEF Subscribe, ProcessTypeOK
<1>4. Begun' /\ OverWhenClosed' /\ EndedByCode' /\ PassedOn' /\ NoProcessLeft'
  BY <1>1, Names DEF Subscribe, Begun, OverWhenClosed, EndedByCode, PassedOn, NoProcessLeft
<1>5. QED
  BY <1>3, <1>4

LEMMA DataKeeps == ASSUME SpawnInv, NEW p \in Pipes, Data(p) PROVE SpawnInv'
<1> USE DEF SpawnInv
<1>1. ProcessTypeOK'
  <2>1. read[p] + 1 \in 0 .. MaxChunks
    BY ChunksAssumption DEF Data, ProcessTypeOK
  <2>2. read' \in [Pipes -> 0 .. MaxChunks]
    BY <2>1 DEF Data, ProcessTypeOK
  <2>3. got' \in [Pipes -> 0 .. MaxChunks]
    <3>1. CASE sub = "open"
      <4>1. got[p] = read[p]
        BY <3>1 DEF PassedOn
      <4>2. got' = [got EXCEPT ![p] = read[p] + 1]
        BY <3>1, <4>1 DEF Data
      <4>3. QED
        BY <2>1, <4>2 DEF ProcessTypeOK
    <3>2. CASE sub # "open"
      BY <3>2 DEF Data, ProcessTypeOK
    <3>3. QED
      BY <3>1, <3>2
  <2>4. QED
    BY <2>2, <2>3 DEF Data, ProcessTypeOK
<1>2. Begun'
  BY DEF Data, ProcessTypeOK, Begun, Drained
<1>3. sub \notin Codes \cup {"complete"} /\ sub # "none"
  BY Names DEF Data, Begun, EndedByCode, Drained, ProcessTypeOK
<1>4. PassedOn'
  BY <1>3 DEF Data, ProcessTypeOK, PassedOn
<1>5. OverWhenClosed' /\ EndedByCode' /\ NoProcessLeft'
  BY DEF Data, OverWhenClosed, EndedByCode, NoProcessLeft
<1>6. QED
  BY <1>1, <1>2, <1>4, <1>5

LEMMA PipeCloseKeeps == ASSUME SpawnInv, NEW p \in Pipes, PipeClose(p) PROVE SpawnInv'
<1> USE DEF SpawnInv
<1>1. ended' \in [Pipes -> BOOLEAN]
  BY DEF PipeClose, ProcessTypeOK
<1>2. \/ UNCHANGED <<sub, killed>>
      \/ /\ sub = "open" /\ closed /\ \A q \in Pipes : ended'[q]
         /\ sub' = (IF child = "0" THEN "complete" ELSE child)
         /\ killed' = (killed \/ ~TRUE)
  BY DEF PipeClose, FinishByCode, Finish, ProcessTypeOK
<1>3. CASE UNCHANGED <<sub, killed>>
  BY <1>1, <1>3 DEF PipeClose, ProcessTypeOK, Begun, Drained, OverWhenClosed, EndedByCode,
                    PassedOn, NoProcessLeft
<1>4. CASE /\ sub = "open" /\ closed /\ \A q \in Pipes : ended'[q]
           /\ sub' = (IF child = "0" THEN "complete" ELSE child)
           /\ killed' = (killed \/ ~TRUE)
  <2>1. child \in Exited
    BY <1>4 DEF OverWhenClosed
  <2>2. sub' \in Codes \cup {"complete"} /\ sub' \notin {"none", "open"}
    BY <1>4, <2>1, Names DEF Exited
  <2>3. killed' \in BOOLEAN
    BY <1>4, Zenon DEF ProcessTypeOK
  <2>4. ProcessTypeOK'
    BY <1>1, <2>2, <2>3 DEF PipeClose, ProcessTypeOK, Errors
  <2>5. Begun' /\ OverWhenClosed'
    BY <1>4, <2>1, <2>2, Names DEF PipeClose, ProcessTypeOK, Begun, Drained, OverWhenClosed
  <2>6. EndedByCode' /\ PassedOn' /\ NoProcessLeft'
    BY <1>4, <2>1, <2>2, Names DEF PipeClose, EndedByCode, PassedOn, NoProcessLeft
  <2>7. QED
    BY <2>4, <2>5, <2>6
<1>5. QED
  BY <1>2, <1>3, <1>4

LEMMA ProcCloseKeeps == SpawnInv /\ ProcClose => SpawnInv'
<1> SUFFICES ASSUME SpawnInv, ProcClose PROVE SpawnInv'
  OBVIOUS
<1> USE DEF SpawnInv
<1>1. \/ UNCHANGED <<sub, killed>>
      \/ /\ sub = "open" /\ \A q \in Pipes : ended[q]
         /\ sub' = (IF child = "0" THEN "complete" ELSE child)
         /\ killed' = (killed \/ ~TRUE)
  BY DEF ProcClose, FinishByCode, Finish
<1>2. child = "failed" => noClose /\ sub # "open"
  BY DEF ProcClose, OverWhenClosed
<1>3. CASE UNCHANGED <<sub, killed>>
  <2>1. ProcessTypeOK'
    BY <1>3 DEF ProcClose, ProcessTypeOK
  <2>2. Begun' /\ OverWhenClosed'
    BY <1>2, <1>3, Names DEF ProcClose, Begun, Drained, OverWhenClosed
  <2>3. EndedByCode' /\ PassedOn' /\ NoProcessLeft'
    BY <1>3 DEF ProcClose, EndedByCode, PassedOn, NoProcessLeft
  <2>4. QED
    BY <2>1, <2>2, <2>3
<1>4. CASE /\ sub = "open" /\ \A q \in Pipes : ended[q]
           /\ sub' = (IF child = "0" THEN "complete" ELSE child)
           /\ killed' = (killed \/ ~TRUE)
  <2>1. child \in Exited
    BY <1>2, <1>4 DEF ProcClose
  <2>2. sub' \in Codes \cup {"complete"} /\ sub' \notin {"none", "open"}
    BY <1>4, <2>1, Names DEF Exited
  <2>3. killed' \in BOOLEAN
    BY <1>4, Zenon DEF ProcessTypeOK
  <2>4. ProcessTypeOK'
    BY <2>2, <2>3 DEF ProcClose, ProcessTypeOK, Errors
  <2>5. Begun' /\ OverWhenClosed'
    BY <1>4, <2>1, <2>2, Names DEF ProcClose, Begun, Drained, OverWhenClosed
  <2>6. EndedByCode' /\ PassedOn' /\ NoProcessLeft'
    BY <1>4, <2>1, <2>2, Names DEF ProcClose, EndedByCode, PassedOn, NoProcessLeft
  <2>7. QED
    BY <2>4, <2>5, <2>6
<1>5. QED
  BY <1>1, <1>3, <1>4

\* An end that is not by the exit code: it kills a process that may be running.
LEMMA CutShort ==
    ASSUME SpawnInv, NEW how \in {"unsubscribed", "ENOENT", "EPIPE"}, NEW over \in BOOLEAN,
           Finish(how, over), child = "running" => ~over, sub # "none",
           child = "failed" /\ noClose' => how = "ENOENT" \/ noClose,
           noClose => noClose', noClose' => child \in Exited \cup {"failed"},
           noClose' \in BOOLEAN, stdin' \in {"writing", "taken", "broken"},
           UNCHANGED <<child, open, written, read, got, ended, closed>>
    PROVE  SpawnInv'
<1> USE DEF SpawnInv
<1>1. /\ sub' # "open" /\ sub' # "none"
      /\ sub' = sub \/ sub' \in {"unsubscribed", "ENOENT", "EPIPE"}
  BY DEF Finish
<1>2. killed' \in BOOLEAN /\ (killed => killed') /\ (sub = "open" /\ ~over => killed')
  BY Zenon DEF Finish, ProcessTypeOK
<1>3. sub' \in Codes \cup {"complete"} => sub' = sub
  BY <1>1, Names
<1>4. ProcessTypeOK'
  BY <1>1, <1>2 DEF ProcessTypeOK, Errors
<1>5. Begun' /\ OverWhenClosed'
  BY <1>1 DEF Begun, Drained, OverWhenClosed
<1>6. EndedByCode' /\ PassedOn'
  BY <1>1, <1>3 DEF EndedByCode, PassedOn
<1>7. NoProcessLeft'
  BY <1>1, <1>2 DEF NoProcessLeft
<1>8. QED
  BY <1>4, <1>5, <1>6, <1>7

LEMMA ProcErrorKeeps == SpawnInv /\ ProcError => SpawnInv'
<1> SUFFICES ASSUME SpawnInv, ProcError PROVE SpawnInv'
  OBVIOUS
<1>1. sub # "none" /\ child # "running" /\ stdin \in {"writing", "taken", "broken"}
  BY DEF ProcError, SpawnInv, Begun, ProcessTypeOK
<1>2. QED
  BY <1>1, CutShort DEF ProcError

LEMMA StdinErrorKeeps == SpawnInv /\ StdinError => SpawnInv'
<1> SUFFICES ASSUME SpawnInv, StdinError PROVE SpawnInv'
  OBVIOUS
<1>1. noClose \in BOOLEAN /\ (noClose => child \in Exited \cup {"failed"} /\ child # "running")
  BY Names DEF SpawnInv, ProcessTypeOK, OverWhenClosed
<1>2. QED
  BY <1>1, CutShort DEF StdinError

LEMMA UnsubscribeKeeps == SpawnInv /\ Unsubscribe => SpawnInv'
<1> SUFFICES ASSUME SpawnInv, Unsubscribe PROVE SpawnInv'
  OBVIOUS
<1>1. /\ noClose \in BOOLEAN /\ (noClose => child \in Exited \cup {"failed"} /\ child # "running")
      /\ stdin \in {"writing", "taken", "broken"}
  BY Names DEF SpawnInv, ProcessTypeOK, OverWhenClosed
<1>2. QED
  BY <1>1, CutShort DEF Unsubscribe

\* Every step of a process keeps the invariant.
LEMMA SpawnKeeps ==
    /\ SpawnInv /\ (Subscribe \/ External \/ Callback \/ Unsubscribe) => SpawnInv'
    /\ SpawnInv /\ UNCHANGED spawnVars => SpawnInv'
<1>1. SpawnInv /\ Callback => SpawnInv'
  BY DataKeeps, PipeCloseKeeps, ProcCloseKeeps, ProcErrorKeeps, StdinErrorKeeps DEF Callback
<1>2. SpawnInv /\ UNCHANGED spawnVars => SpawnInv'
  BY DEF SpawnInv, spawnVars, ProcessTypeOK, Begun, Drained, OverWhenClosed, EndedByCode,
         PassedOn, NoProcessLeft
<1>3. QED
  BY <1>1, <1>2, SubscribeKeeps, ExternalKeeps, UnsubscribeKeeps

-----------------------------------------------------------------------------
(* The request.                                                            *)

\* The request waits for the stream as long as it is open, and is answered when
\* it ends; edits come from a stream that ended by an exit code.
Served ==
  /\ sub = "open" <=> phase = "process"
  /\ sub # "none" => phase \in {"process", "answered"}
  /\ phase # "answered" => answer = None
  /\ answer.kind = "edits" /\ formatter # "linter" => sub \in Codes \cup {"complete"}

RequestTypeOK ==
  /\ phase \in {"config", "env", "process", "answered"}
  /\ formatter \in Formatters
  /\ answer \in Answers

FormatInv == SpawnInv /\ RequestTypeOK /\ Served

\* The kinds of answers.
LEMMA AnswerKinds ==
    None.kind = "none" /\ Rejected.kind = "error" /\ NoEdits.kind = "empty"
BY DEF None, Rejected, NoEdits

LEMMA FormatStarts == FormatInit => FormatInv
BY SpawnStarts, AnswerKinds DEF FormatInit, FormatInv, RequestTypeOK, Served, Formatters, Answers, SpawnInit

\* Only an open stream ends.
LEMMA EndsOnce == External \/ Callback => sub' = sub \/ sub = "open"
BY DEF External, Write, CloseEnd, TakeInput, Exit, Callback, Data, PipeClose, ProcClose, ProcError,
       StdinError, FinishByCode, Finish

\* An answer that is made when the stream ends.
LEMMA Concluded ==
    ASSUME SpawnInv', formatter \in Formatters, formatter' = formatter, sub' # "open",
           answer' \in Results(sub')
    PROVE  /\ answer' \in Answers
           /\ answer'.kind = "edits" /\ formatter # "linter" => sub' \in Codes \cup {"complete"}
<1>1. EditsFrom(got'["stdout"]) \in Answers
  BY DEF SpawnInv, ProcessTypeOK, Answers, Pipes
<1>2. answer' \in {Rejected, EditsFrom(got'["stdout"])}
  BY DEF Results
<1>3. answer'.kind = "edits" => Accepted(sub')
  <2>1. ~Accepted(sub') => Results(sub') = {Rejected}
    BY Zenon DEF Results
  <2>2. QED
    BY <2>1, AnswerKinds
<1>4. Accepted(sub') /\ formatter # "linter" => sub' \in Codes \cup {"complete"}
  BY DEF Accepted, SpawnInv, ProcessTypeOK, Errors
<1>5. QED
  BY <1>1, <1>2, <1>3, <1>4 DEF Answers

LEMMA FormatKeeps == FormatInv /\ [FormatNext]_formatVars => FormatInv'
<1> SUFFICES ASSUME FormatInv, [FormatNext]_formatVars PROVE FormatInv'
  OBVIOUS
<1> USE DEF FormatInv
<1>1. ASSUME NEW f \in Formatters, GotConfig(f) PROVE FormatInv'
  <2>1. SpawnInv'
    BY <1>1, SpawnKeeps DEF GotConfig
  <2>2. RequestTypeOK' /\ Served'
    BY <1>1, AnswerKinds DEF GotConfig, spawnVars, RequestTypeOK, Served
  <2>3. QED
    BY <2>1, <2>2
<1>2. CASE Reject \/ AnswerAtOnce
  <2>1. SpawnInv'
    BY <1>2, SpawnKeeps DEF Reject, AnswerAtOnce
  <2>2. RequestTypeOK' /\ Served'
    BY <1>2, AnswerKinds DEF Reject, AnswerAtOnce, spawnVars, RequestTypeOK, Served, Answers
  <2>3. QED
    BY <2>1, <2>2
<1>3. CASE Start
  <2>1. SpawnInv'
    BY <1>3, SpawnKeeps DEF Start
  <2>2. RequestTypeOK' /\ Served'
    BY <1>3, AnswerKinds DEF Start, Subscribe, RequestTypeOK, Served
  <2>3. QED
    BY <2>1, <2>2
<1>4. CASE ProcessStep
  <2>1. SpawnInv'
    BY <1>4, SpawnKeeps DEF ProcessStep
  <2>2. sub' = sub \/ sub = "open"
    BY <1>4, EndsOnce DEF ProcessStep
  <2>3. CASE sub = "open" /\ sub' # "open"
    <3>1. phase' = "answered" /\ answer' \in Results(sub') /\ formatter' = formatter
      BY <1>4, <2>3 DEF ProcessStep, Conclude
    <3>2. QED
      BY <2>1, <2>3, <3>1, Concluded DEF RequestTypeOK, Served
  <2>4. CASE sub' = sub
    BY <1>4, <2>1, <2>4 DEF ProcessStep, Conclude, RequestTypeOK, Served
  <2>5. QED
    BY <2>2, <2>3, <2>4
<1>5. CASE Superseded
  <2>1. SpawnInv'
    BY <1>5, SpawnKeeps DEF Superseded
  <2>2. RequestTypeOK' /\ Served'
    BY <1>5, AnswerKinds DEF Superseded, Unsubscribe, Finish, RequestTypeOK, Served
  <2>3. QED
    BY <2>1, <2>2
<1>6. CASE UNCHANGED formatVars
  <2>1. SpawnInv'
    BY <1>6, SpawnKeeps DEF formatVars
  <2>2. RequestTypeOK' /\ Served'
    BY <1>6 DEF formatVars, spawnVars, RequestTypeOK, Served
  <2>3. QED
    BY <2>1, <2>2
<1>7. QED
  BY <1>1, <1>2, <1>3, <1>4, <1>5, <1>6 DEF FormatNext

-----------------------------------------------------------------------------
(* Folding ranges.  A fold spans a run of captures, one or a block of      *)
(* comments or requires: it begins where the first of them does and ends   *)
(* where the fold of the last one would.                                   *)

Folds == [start : Rows, end : Int, kind : {"comment", "imports", "region"}]

\* Captures a to b have become fold k.  Unless a block straddles the end of a
\* node's fold, the last of them is where the first one is.
Spans(k, a, b) ==
  /\ a <= b
  /\ folds[k].start = captures[a].start
  /\ folds[k].end = FoldOf(captures[b]).end
  /\ k = Len(folds) => b = Len(captures)
  /\ ~Straddling =>
       \A x \in 1 .. a - 1 :
         Inside(captures[a], captures[x]) =>
           /\ Inside(captures[b], captures[x])
           /\ captures[a].start < captures[x].nested => captures[b].start < captures[x].nested

\* The captures are those of a tree, in order.
Ordered ==
  /\ \A i \in 1 .. Len(captures) : WellFormed(captures[i])
  /\ \A i, j \in 1 .. Len(captures) :
       i < j => /\ captures[i].start <= captures[j].start
                /\ Inside(captures[j], captures[i]) \/ captures[i].end <= captures[j].start

Spanned ==
  /\ \A k \in 1 .. Len(folds) : \E a, b \in 1 .. Len(captures) : Spans(k, a, b)
  /\ \A k, m \in 1 .. Len(folds) :
       k < m => \E a, b, c, d \in 1 .. Len(captures) : b < c /\ Spans(k, a, b) /\ Spans(m, c, d)

FoldInv ==
  /\ captures \in Seq(Captured)
  /\ folds \in Seq(Folds)
  /\ captures # <<>> => folds # <<>>
  /\ Ordered
  /\ Spanned

\* The rows of a capture are numbers.
LEMMA CaptureRows ==
    ASSUME NEW n \in Captured
    PROVE  n.start \in Int /\ n.end \in Int /\ n.nested \in Int
<1>1. n.start \in Rows /\ n.end \in Rows /\ n.nested \in Rows \cup {NoRow}
  BY DEF Captured
<1>2. Rows \subseteq Int /\ NoRow \in Int
  BY DEF Rows, NoRow
<1>3. QED
  BY <1>1, <1>2

\* Where a fold ends: not behind its node and, in a block, where the node does.
LEMMA FoldEnds ==
    ASSUME NEW n \in Captured, WellFormed(n)
    PROVE  /\ FoldOf(n) \in Folds
           /\ FoldOf(n).start = n.start
           /\ FoldOf(n).end <= n.end + EndHeuristic(n.type)
           /\ EndHeuristic(n.type) \in {-1, 0}
           /\ IF n.nested # NoRow THEN FoldOf(n).end = n.nested - 1
                                  ELSE FoldOf(n).end = n.end + EndHeuristic(n.type)
           /\ \A l \in Captured : ImplicitBlock(n, l) => FoldOf(n).end = n.end
<1>1. n.start \in Nat /\ n.end \in Nat /\ n.nested \in Int
  BY RowsAssumption DEF Captured, Rows, NoRow
<1>2. EndHeuristic(n.type) \in {-1, 0}
  BY DEF EndHeuristic
<1>3. n.nested # NoRow => NestedType(n.type) # "none" /\ n.nested <= n.end
  BY DEF WellFormed
<1>4. /\ FoldOf(n).start = n.start
      /\ FoldOf(n).end = IF n.nested # NoRow THEN n.nested - 1 ELSE n.end + EndHeuristic(n.type)
  BY <1>3 DEF FoldOf
<1>5. FoldOf(n) \in Folds
  <2>1. FoldKind(n.type) \in {"comment", "imports", "region"}
    BY DEF FoldKind
  <2>2. FoldOf(n).end \in Int
    BY <1>1, <1>2, <1>4
  <2>3. n.start \in Rows
    BY DEF Captured
  <2>4. QED
    BY <2>1, <2>2, <2>3 DEF FoldOf, Folds
<1>6. ASSUME NEW l \in Captured, ImplicitBlock(n, l) PROVE FoldOf(n).end = n.end
  <2>1. n.type \in {"comment", "call"}
    BY <1>6 DEF ImplicitBlock
  <2>2. EndHeuristic(n.type) = 0 /\ NestedType(n.type) = "none"
    BY <2>1 DEF EndHeuristic, FOLD_NODES, NestedType
  <2>3. QED
    BY <1>1, <1>3, <1>4, <2>2
<1>7. QED
  BY <1>1, <1>2, <1>3, <1>4, <1>5, <1>6

LEMMA FoldStarts == FoldInit => FoldInv
BY DEF FoldInit, FoldInv, Ordered, Spanned

\* What an appended capture leaves: the ones before it, and the circumstances.
LEMMA CaptureAppended ==
    ASSUME FoldInv, NEW node \in Captured, Analyze(node)
    PROVE  /\ captures' \in Seq(Captured)
           /\ Len(captures') = Len(captures) + 1
           /\ captures'[Len(captures) + 1] = node
           /\ \A i \in 1 .. Len(captures) : captures'[i] = captures[i]
           /\ ~Straddling' => ~Straddling
           /\ Ordered'
<1>1. captures \in Seq(Captured) /\ captures' = Append(captures, node)
  BY DEF FoldInv, Analyze
<1>2. /\ captures' \in Seq(Captured) /\ Len(captures) \in Nat
      /\ Len(captures') = Len(captures) + 1
      /\ captures'[Len(captures) + 1] = node
      /\ \A i \in 1 .. Len(captures) : captures'[i] = captures[i]
  BY <1>1
<1>3. Straddling => Straddling'
  <2>1. SUFFICES ASSUME Straddling PROVE Straddling'
    OBVIOUS
  <2>2. PICK i \in 1 .. Len(captures) - 1, j \in 1 .. Len(captures) :
          /\ j <= i - 1
          /\ ImplicitBlock(captures[i + 1], captures[i])
          /\ Inside(captures[i], captures[j])
          /\ \/ ~Inside(captures[i + 1], captures[j])
             \/ captures[i].start < captures[j].nested /\ captures[j].nested <= captures[i + 1].start
    BY <1>2, <2>1 DEF Straddling
  <2>3. /\ i \in 1 .. Len(captures') - 1 /\ j \in 1 .. i - 1
        /\ captures'[i] = captures[i] /\ captures'[i + 1] = captures[i + 1]
        /\ captures'[j] = captures[j]
    BY <1>2, <2>2
  <2>4. QED
    BY <2>2, <2>3 DEF Straddling
<1>4. Ordered'
  <2>1. ASSUME NEW i \in 1 .. Len(captures') PROVE WellFormed(captures'[i])
    BY <1>2 DEF FoldInv, Ordered, Analyze
  <2>2. ASSUME NEW i \in 1 .. Len(captures'), NEW j \in 1 .. Len(captures'), i < j
        PROVE  /\ captures'[i].start <= captures'[j].start
               /\ Inside(captures'[j], captures'[i]) \/ captures'[i].end <= captures'[j].start
    <3>1. CASE j \in 1 .. Len(captures)
      BY <1>2, <2>2, <3>1 DEF FoldInv, Ordered
    <3>2. CASE j = Len(captures) + 1
      BY <1>2, <2>2, <3>2 DEF Analyze, Follows
    <3>3. QED
      BY <1>2, <3>1, <3>2
  <2>3. QED
    BY <2>1, <2>2 DEF Ordered
<1>5. QED
  BY <1>2, <1>3, <1>4

\* A fold that stays as it is still spans what it spanned.
LEMMA SpansKept ==
    ASSUME FoldInv, NEW node \in Captured, Analyze(node),
           NEW k \in 1 .. Len(folds), NEW a \in 1 .. Len(captures), NEW b \in 1 .. Len(captures),
           Spans(k, a, b), folds'[k] = folds[k], k # Len(folds')
    PROVE  Spans(k, a, b)'
<1>1. captures \in Seq(Captured) /\ folds \in Seq(Folds)
  BY DEF FoldInv
<1>2. /\ captures'[a] = captures[a] /\ captures'[b] = captures[b]
      /\ \A x \in 1 .. a - 1 : captures'[x] = captures[x]
      /\ ~Straddling' => ~Straddling
  <2>1. /\ \A i \in 1 .. Len(captures) : captures'[i] = captures[i]
        /\ ~Straddling' => ~Straddling
    BY CaptureAppended
  <2>2. Len(captures) \in Nat
    BY <1>1
  <2>3. \A x \in 1 .. a - 1 : x \in 1 .. Len(captures)
    BY <2>2
  <2>4. QED
    BY <2>1, <2>3
<1>3. /\ a <= b /\ folds'[k].start = captures'[a].start
      /\ folds'[k].end = FoldOf(captures'[b]).end
  BY <1>2 DEF Spans
<1>4. ~Straddling' =>
        \A x \in 1 .. a - 1 :
          Inside(captures'[a], captures'[x]) =>
            /\ Inside(captures'[b], captures'[x])
            /\ captures'[a].start < captures'[x].nested => captures'[b].start < captures'[x].nested
  BY <1>2 DEF Spans
<1>5. QED
  BY <1>3, <1>4 DEF Spans

\* The node that has been captured is in its fold, the f one: a new one, or
\* the block that it goes on with.
LEMMA NodeSpanned ==
    ASSUME FoldInv, NEW node \in Captured, Analyze(node),
           ~(captures # <<>> /\ ImplicitBlock(node, captures[Len(captures)])),
           NEW n, n = Len(captures) + 1, NEW f, f = Len(folds) + 1
    PROVE  /\ folds' \in Seq(Folds) /\ Len(folds') = f
           /\ \A k \in 1 .. Len(folds) : folds'[k] = folds[k]
           /\ Spans(f, n, n)'
<1>1. captures \in Seq(Captured) /\ folds \in Seq(Folds) /\ WellFormed(node)
  BY DEF FoldInv, Analyze
<1>2. folds' = Append(folds, FoldOf(node)) /\ FoldOf(node) \in Folds
  BY <1>1, FoldEnds DEF Analyze
<1>3. /\ folds' \in Seq(Folds) /\ Len(folds') = f /\ Len(folds) \in Nat
      /\ \A k \in 1 .. Len(folds) : folds'[k] = folds[k]
      /\ folds'[f] = FoldOf(node)
  BY <1>1, <1>2
<1>4. captures'[n] = node /\ Len(captures') = n /\ n \in Nat
  BY <1>1, CaptureAppended
<1>5. FoldOf(node).start = node.start
  BY DEF FoldOf
<1>6. Spans(f, n, n)'
  BY <1>3, <1>4, <1>5 DEF Spans
<1>7. QED
  BY <1>3, <1>6

LEMMA BlockExtended ==
    ASSUME FoldInv, NEW node \in Captured, Analyze(node),
           captures # <<>>, ImplicitBlock(node, captures[Len(captures)]),
           NEW n, n = Len(captures), NEW f, f = Len(folds)
    PROVE  /\ folds' \in Seq(Folds) /\ Len(folds') = f /\ f \in Nat \ {0}
           /\ \A k \in 1 .. f - 1 : folds'[k] = folds[k]
           /\ \A a \in 1 .. n : Spans(f, a, n) => Spans(f, a, n + 1)'
<1>1. /\ captures \in Seq(Captured) /\ folds \in Seq(Folds) /\ WellFormed(node)
      /\ f \in Nat \ {0} /\ n \in Nat \ {0}
  BY DEF FoldInv, Analyze
<1>2. /\ FoldOf(node).end = node.end /\ node.end \in Int
      /\ captures[n] \in Captured
  BY <1>1, FoldEnds, CaptureRows
<1>3. folds' = [folds EXCEPT ![f].end = node.end]
  BY DEF Analyze
<1>4. /\ folds' \in Seq(Folds) /\ Len(folds') = f
      /\ \A k \in 1 .. f - 1 : folds'[k] = folds[k]
      /\ folds'[f].start = folds[f].start
      /\ folds'[f].end = node.end
  <2>1. folds[f] \in Folds
    BY <1>1
  <2>2. [folds[f] EXCEPT !.end = node.end] \in Folds
    BY <1>2, <2>1 DEF Folds
  <2>3. folds' = [folds EXCEPT ![f] = [folds[f] EXCEPT !.end = node.end]]
    BY <1>3
  <2>4. QED
    BY <1>1, <2>1, <2>2, <2>3 DEF Folds
<1>5. ASSUME NEW a \in 1 .. n, Spans(f, a, n)
      PROVE  Spans(f, a, n + 1)'
  <2>1. /\ captures'[n + 1] = node /\ Len(captures') = n + 1
        /\ \A i \in 1 .. n : captures'[i] = captures[i]
        /\ ~Straddling' => ~Straddling
    BY <1>1, CaptureAppended
  <2>2. ASSUME ~Straddling', NEW x \in 1 .. a - 1, Inside(captures[a], captures[x])
        PROVE  /\ Inside(node, captures[x])
               /\ captures[a].start < captures[x].nested => node.start < captures[x].nested
    <3>1. /\ Inside(captures[n], captures[x])
          /\ captures[a].start < captures[x].nested =>
               captures[n].start < captures[x].nested
      BY <2>1, <2>2, <1>5 DEF Spans
    <3>2. /\ n \in 1 .. Len(captures') - 1 /\ x \in 1 .. n - 1
          /\ x \in 1 .. n
      BY <1>1, <2>1
    <3>3. /\ captures'[n] = captures[n] /\ captures'[x] = captures[x]
      BY <1>1, <2>1, <3>2
    <3>4. /\ Inside(node, captures[x])
          /\ ~(captures[n].start < captures[x].nested /\ captures[x].nested <= node.start)
      BY <2>1, <2>2, <3>1, <3>2, <3>3 DEF Straddling
    <3>5. captures[x].nested \in Int /\ node.start \in Int
      BY <1>1, <3>2, CaptureRows
    <3>6. QED
      BY <3>1, <3>4, <3>5
  <2>3. \A x \in 1 .. a - 1 : captures'[x] = captures[x]
    BY <1>1, <2>1
  <2>4. captures'[a] = captures[a] /\ a <= n + 1
    BY <1>1, <2>1
  <2>5. folds'[f].start = captures'[a].start /\ folds'[f].end = FoldOf(captures'[n + 1]).end
    BY <1>2, <1>4, <1>5, <2>1, <2>4 DEF Spans
  <2>6. ASSUME ~Straddling', NEW x \in 1 .. a - 1, Inside(captures'[a], captures'[x])
        PROVE  /\ Inside(captures'[n + 1], captures'[x])
               /\ captures'[a].start < captures'[x].nested =>
                    captures'[n + 1].start < captures'[x].nested
    BY <2>1, <2>2, <2>3, <2>4, <2>6
  <2>7. QED
    BY <2>1, <2>4, <2>5, <2>6 DEF Spans
<1>6. QED
  BY <1>1, <1>4, <1>5

LEMMA FoldKeeps == FoldInv /\ [FoldNext]_foldVars => FoldInv'
<1> SUFFICES ASSUME FoldInv, [FoldNext]_foldVars PROVE FoldInv'
  OBVIOUS
<1>1. ASSUME NEW node \in Captured, Analyze(node),
             NEW n, n = Len(captures), NEW f, f = Len(folds)
      PROVE  FoldInv'
  <2>1. captures \in Seq(Captured) /\ folds \in Seq(Folds) /\ n \in Nat /\ f \in Nat
    BY <1>1 DEF FoldInv
  <2>2. captures' \in Seq(Captured) /\ Len(captures') = n + 1 /\ Ordered'
    BY <1>1, CaptureAppended
  <2>3. CASE ~(captures # <<>> /\ ImplicitBlock(node, captures[Len(captures)]))
    <3>1. /\ folds' \in Seq(Folds) /\ Len(folds') = f + 1
          /\ \A k \in 1 .. f : folds'[k] = folds[k]
          /\ Spans(f + 1, n + 1, n + 1)'
      BY <1>1, <2>3, NodeSpanned, n + 1 = Len(captures) + 1, f + 1 = Len(folds) + 1
    <3>2. ASSUME NEW k \in 1 .. f, NEW a \in 1 .. n, NEW b \in 1 .. n,
                 Spans(k, a, b)
          PROVE  Spans(k, a, b)'
      BY <1>1, <2>1, <3>1, <3>2, SpansKept
    <3>3. ASSUME NEW k \in 1 .. Len(folds')
          PROVE  \E a, b \in 1 .. Len(captures') : Spans(k, a, b)'
      <4>1. CASE k \in 1 .. f
        <5>1. PICK a \in 1 .. n, b \in 1 .. n : Spans(k, a, b)
          BY <1>1, <4>1 DEF FoldInv, Spanned
        <5>2. a \in 1 .. Len(captures') /\ b \in 1 .. Len(captures')
          BY <2>1, <2>2
        <5>3. QED
          BY <3>2, <4>1, <5>1, <5>2
      <4>2. CASE k = f + 1
        BY <2>1, <2>2, <3>1, <4>2
      <4>3. QED
        BY <2>1, <3>1, <4>1, <4>2
    <3>4. ASSUME NEW k \in 1 .. Len(folds'), NEW m \in 1 .. Len(folds'), k < m
          PROVE  \E a, b, c, d \in 1 .. Len(captures') :
                   b < c /\ Spans(k, a, b)' /\ Spans(m, c, d)'
      <4>0. k \in 1 .. f
        BY <2>1, <3>1, <3>4
      <4>1. CASE m \in 1 .. f
        <5>1. PICK a \in 1 .. n, b \in 1 .. n,
                   c \in 1 .. n, d \in 1 .. n :
                b < c /\ Spans(k, a, b) /\ Spans(m, c, d)
          BY <1>1, <3>4, <4>0, <4>1 DEF FoldInv, Spanned
        <5>2. Spans(k, a, b)' /\ Spans(m, c, d)'
          BY <3>2, <4>0, <4>1, <5>1
        <5>3. 1 .. n \subseteq 1 .. Len(captures')
          BY <2>1, <2>2
        <5>4. QED
          BY <5>1, <5>2, <5>3
      <4>2. CASE m = f + 1
        <5>1. PICK a \in 1 .. n, b \in 1 .. n : Spans(k, a, b)
          BY <1>1, <4>0 DEF FoldInv, Spanned
        <5>2. Spans(k, a, b)' /\ Spans(m, n + 1, n + 1)'
          BY <3>1, <3>2, <4>0, <4>2, <5>1
        <5>3. /\ a \in 1 .. Len(captures') /\ b \in 1 .. Len(captures')
              /\ n + 1 \in 1 .. Len(captures') /\ b < n + 1
          BY <2>1, <2>2
        <5>4. QED
          BY <5>2, <5>3
      <4>3. QED
        BY <2>1, <3>1, <4>1, <4>2
    <3>5. Spanned'
      BY <3>3, <3>4 DEF Spanned
    <3>6. folds' # <<>>
      BY <2>1, <3>1
    <3>7. QED
      BY <2>2, <3>1, <3>5, <3>6 DEF FoldInv
  <2>4. CASE captures # <<>> /\ ImplicitBlock(node, captures[Len(captures)])
    <3>1. /\ folds' \in Seq(Folds) /\ Len(folds') = f /\ f \in Nat \ {0}
          /\ \A k \in 1 .. f - 1 : folds'[k] = folds[k]
          /\ \A a \in 1 .. n :
               Spans(f, a, n) => Spans(f, a, n + 1)'
      BY <1>1, <2>4, BlockExtended
    <3>2. ASSUME NEW k \in 1 .. f - 1, NEW a \in 1 .. n, NEW b \in 1 .. n,
                 Spans(k, a, b)
          PROVE  Spans(k, a, b)'
      <4>1. k \in 1 .. f /\ k # Len(folds')
        BY <2>1, <3>1
      <4>2. QED
        BY <1>1, <3>1, <3>2, <4>1, SpansKept
    <3>3. ASSUME NEW a \in 1 .. n, NEW b \in 1 .. n, Spans(f, a, b)
          PROVE  b = n /\ Spans(f, a, n + 1)'
      <4>1. b = n
        BY <1>1, <3>3 DEF Spans
      <4>2. QED
        BY <3>1, <3>3, <4>1
    <3>4. 1 .. n \subseteq 1 .. Len(captures') /\ n + 1 \in 1 .. Len(captures')
      BY <2>1, <2>2
    <3>5. ASSUME NEW k \in 1 .. Len(folds')
          PROVE  \E a, b \in 1 .. Len(captures') : Spans(k, a, b)'
      <4>1. PICK a \in 1 .. n, b \in 1 .. n : Spans(k, a, b)
        BY <1>1, <3>1 DEF FoldInv, Spanned
      <4>2. CASE k \in 1 .. f - 1
        BY <3>2, <3>4, <4>1, <4>2
      <4>3. CASE k = f
        BY <3>3, <3>4, <4>1, <4>3
      <4>4. QED
        BY <2>1, <3>1, <4>2, <4>3
    <3>6. ASSUME NEW k \in 1 .. Len(folds'), NEW m \in 1 .. Len(folds'), k < m
          PROVE  \E a, b, c, d \in 1 .. Len(captures') :
                   b < c /\ Spans(k, a, b)' /\ Spans(m, c, d)'
      <4>1. PICK a \in 1 .. n, b \in 1 .. n,
                 c \in 1 .. n, d \in 1 .. n :
              b < c /\ Spans(k, a, b) /\ Spans(m, c, d)
        BY <1>1, <3>1, <3>6 DEF FoldInv, Spanned
      <4>2. Spans(k, a, b)'
        <5>1. k \in 1 .. f - 1
          BY <3>1, <3>6
        <5>2. QED
          BY <3>2, <4>1, <5>1
      <4>3. CASE m \in 1 .. f - 1
        BY <3>2, <3>4, <4>1, <4>2, <4>3
      <4>4. CASE m = f
        <5>1. d = n /\ Spans(m, c, n + 1)'
          BY <3>3, <4>1, <4>4
        <5>2. b < c /\ a \in 1 .. Len(captures') /\ b \in 1 .. Len(captures') /\ c \in 1 .. Len(captures')
          BY <3>4, <4>1
        <5>3. QED
          BY <3>4, <4>2, <5>1, <5>2
      <4>5. QED
        BY <2>1, <3>1, <4>3, <4>4
    <3>7. Spanned'
      BY <3>5, <3>6 DEF Spanned
    <3>8. folds' # <<>>
      BY <2>1, <3>1
    <3>9. QED
      BY <2>2, <3>1, <3>7, <3>8 DEF FoldInv
  <2>5. QED
    BY <2>3, <2>4
<1>2. CASE UNCHANGED foldVars
  BY <1>2 DEF foldVars, FoldInv, Ordered, Spanned, Spans, Straddling
<1>3. QED
  BY <1>1, <1>2 DEF FoldNext

\* Folds that span captures in order are nested or apart: the node that the
\* first one ends with is over, or the second one is in it, and then in the
\* part of it that is folded or behind that part.
LEMMA SpansNest ==
    ASSUME FoldInv, ~Straddling, ~Borrowed, ~SharedRow,
           NEW k \in 1 .. Len(folds), NEW m \in 1 .. Len(folds),
           NEW a \in 1 .. Len(captures), NEW b \in 1 .. Len(captures),
           NEW c \in 1 .. Len(captures), NEW d \in 1 .. Len(captures),
           b < c, Spans(k, a, b), Spans(m, c, d)
    PROVE  folds[k].end < folds[m].start \/ folds[m].end <= folds[k].end
<1> DEFINE B == captures[b]  C == captures[c]  D == captures[d]
           hB == EndHeuristic(B.type)  hD == EndHeuristic(D.type)
           eB == FoldOf(B).end  eD == FoldOf(D).end
           nB == B.nested  nD == D.nested  lB == B.end  lD == D.end
<1>1. captures \in Seq(Captured) /\ Len(captures) \in Nat
  BY DEF FoldInv
<1>2. B \in Captured /\ C \in Captured /\ D \in Captured
  BY <1>1
<1>3. WellFormed(B) /\ WellFormed(C) /\ WellFormed(D)
  BY DEF FoldInv, Ordered
<1>4. /\ B.start \in Int /\ lB \in Int /\ nB \in Int
      /\ C.start \in Int /\ C.end \in Int
      /\ D.start \in Int /\ lD \in Int /\ nD \in Int
  BY <1>2, CaptureRows
<1>5. folds[k].end = eB /\ folds[m].start = C.start /\ folds[m].end = eD
  BY DEF Spans
<1>6. /\ eB \in Int /\ hB \in Int /\ -1 <= hB /\ hB <= 0 /\ eB <= lB + hB
      /\ nB # NoRow => eB = nB - 1
      /\ nB = NoRow => eB = lB + hB
  <2>1. B \in Captured /\ WellFormed(B)
    BY <1>2, <1>3
  <2> HIDE DEF B
  <2>2. FoldOf(B) \in Folds => eB \in Int
    BY DEF Folds
  <2>3. QED
    BY <2>1, <2>2, FoldEnds
<1>7. /\ eD \in Int /\ hD \in Int /\ -1 <= hD /\ hD <= 0 /\ eD <= lD + hD
      /\ nD # NoRow => eD = nD - 1
      /\ nD = NoRow => eD = lD + hD
  <2>1. D \in Captured /\ WellFormed(D)
    BY <1>2, <1>3
  <2> HIDE DEF D
  <2>2. FoldOf(D) \in Folds => eD \in Int
    BY DEF Folds
  <2>3. QED
    BY <2>1, <2>2, FoldEnds
<1>8. c <= d /\ b < d /\ b \in 1 .. c - 1
  BY <1>1 DEF Spans
<1>9. nD # NoRow => nD <= lD
  BY <1>3 DEF WellFormed
<1> HIDE DEF B, C, D, hB, hD, eB, eD, nB, nD, lB, lD
<1>10. CASE ~Inside(C, B)
  <2>1. lB <= C.start
    BY <1>10 DEF FoldInv, Ordered, B, C, lB
  <2>2. lB # C.start \/ hB # 0
    BY <1>10 DEF SharedRow, B, C, hB, lB
  <2>3. eB < C.start
    BY <1>4, <1>6, <2>1, <2>2
  <2>4. QED
    BY <1>5, <2>3
<1>11. CASE Inside(C, B)
  <2>1. Inside(D, B) /\ (C.start < nB => D.start < nB)
    BY <1>8, <1>11 DEF Spans, B, C, D, nB
  <2>2. lD <= lB
    BY <2>1 DEF Inside, lB, lD
  <2>3. lD # lB \/ ~(hB < hD)
    BY <1>8, <2>1 DEF SharedRow, B, D, hB, hD, lB, lD
  <2>4. ~(D.start < nB /\ nB <= lD)
    BY <1>8, <2>1 DEF Borrowed, B, D, nB, lD
  <2>5. CASE nB = NoRow
    <3>1. eB = lB + hB
      BY <1>6, <2>5
    <3>2. eD <= eB
      <4>1. CASE nD # NoRow
        BY <1>4, <1>6, <1>7, <1>9, <2>2, <3>1, <4>1
      <4>2. CASE nD = NoRow
        BY <1>4, <1>6, <1>7, <2>2, <2>3, <3>1, <4>2
      <4>3. QED
        BY <4>1, <4>2
    <3>3. QED
      BY <1>5, <3>2
  <2>6. CASE nB # NoRow
    <3>1. eB = nB - 1
      BY <1>6, <2>6
    <3>2. eD <= lD
      BY <1>4, <1>7
    <3>3. C.start >= nB \/ lD < nB
      BY <1>4, <2>1, <2>4
    <3>4. eB < C.start \/ eD <= eB
      BY <1>4, <1>6, <1>7, <3>1, <3>2, <3>3
    <3>5. QED
      BY <1>5, <3>4
  <2>7. QED
    BY <2>5, <2>6
<1>12. QED
  BY <1>10, <1>11

LEMMA InvNests == FoldInv => FoldsNest
<1>1. SUFFICES ASSUME FoldInv, ~Straddling, ~Borrowed, ~SharedRow,
                      NEW k \in 1 .. Len(folds), NEW m \in 1 .. Len(folds), k < m
               PROVE  folds[k].end < folds[m].start \/ folds[m].end <= folds[k].end
  BY DEF FoldsNest
<1>2. PICK a \in 1 .. Len(captures), b \in 1 .. Len(captures),
           c \in 1 .. Len(captures), d \in 1 .. Len(captures) :
        b < c /\ Spans(k, a, b) /\ Spans(m, c, d)
  BY <1>1 DEF FoldInv, Spanned
<1>3. QED
  BY <1>1, <1>2, SpansNest

-----------------------------------------------------------------------------
(* The outline.  Unless constants are chained, the stack holds wrappers    *)
(* that the walk has not left yet, each ending before the ones below it,   *)
(* and all the definitions among them: a definition ends with a token of   *)
(* its own, so nothing else takes it off the stack.                        *)

Visited ==
  /\ nodes \in Seq(Nodes)
  /\ parentOf \in Seq(Int) /\ Len(parentOf) = Len(nodes)
  /\ stack \in Seq(Nat)
  /\ \A p \in 1 .. Len(stack) :
       stack[p] \in 1 .. Len(nodes) /\ nodes[stack[p]].kind \in Wrapping
  /\ \A j \in 1 .. Len(nodes) :
       nodes[j].first <= nodes[j].last /\ nodes[j].first <= NextToken

StackOpen ==
  /\ \A p \in 1 .. Len(stack) : NextToken <= nodes[stack[p]].last
  /\ \A p, q \in 1 .. Len(stack) :
       p < q => stack[p] < stack[q] /\ nodes[stack[q]].last < nodes[stack[p]].last
  /\ \A j \in 1 .. Len(nodes) :
       nodes[j].kind = "definition" /\ NextToken <= nodes[j].last =>
         \E p \in 1 .. Len(stack) : stack[p] = j

\* What the outline says of one node.
Nested(i) ==
  HasSymbol(nodes[i]) =>
    /\ parentOf[i] \in Enclosing(i) \cup {Root}
    /\ \A j \in Enclosing(i) : nodes[j].kind = "definition" => j <= parentOf[i]

WalkInv ==
  /\ Visited
  /\ ~Chained => StackOpen /\ \A i \in 1 .. Len(nodes) : Nested(i)

LEMMA WalkStarts == WalkInit => WalkInv
BY DEF WalkInit, WalkInv, Visited, StackOpen

\* The positions of a node are numbers.
LEMMA NodePositions ==
    ASSUME NEW n \in Nodes PROVE n.first \in Int /\ n.last \in Int
<1>1. n.first \in 1 .. MaxToken /\ n.last \in 1 .. MaxToken
  BY DEF Nodes
<1>2. QED
  BY <1>1, TokensAssumption

\* A visit adds a node and moves on; what was enclosed and chained remains so.
LEMMA NodeVisited ==
    ASSUME WalkInv, NEW n \in Nodes, Visit(n), NEW k, k = Len(nodes) + 1
    PROVE  /\ nodes' \in Seq(Nodes) /\ k \in Nat /\ Len(nodes') = k
           /\ nodes'[k] = n
           /\ \A i \in 1 .. k - 1 : nodes'[i] = nodes[i] /\ nodes[i] \in Nodes
           /\ parentOf' \in Seq(Int) /\ Len(parentOf') = k
           /\ parentOf'[k] = (IF ~HasSymbol(n) THEN NoSymbol
                              ELSE IF stack = <<>> THEN Root ELSE TopOf(stack))
           /\ \A i \in 1 .. k - 1 : parentOf'[i] = parentOf[i]
           /\ n.first = NextToken /\ n.first <= n.last
           /\ NextToken' = IF n.kind = "leaf" THEN n.last + 1 ELSE n.first
           /\ \A i \in 1 .. k - 1 : \A j : j \in Enclosing(i)' <=> j \in Enclosing(i)
           /\ ~Chained' => ~Chained
<1>1. /\ nodes \in Seq(Nodes) /\ parentOf \in Seq(Int) /\ Len(parentOf) = Len(nodes)
      /\ stack \in Seq(Nat)
  BY DEF WalkInv, Visited
<1>2. /\ nodes' = Append(nodes, n)
      /\ nodes' \in Seq(Nodes) /\ k \in Nat /\ Len(nodes') = k
      /\ nodes'[k] = n
      /\ \A i \in 1 .. k - 1 : nodes'[i] = nodes[i] /\ nodes[i] \in Nodes
  BY <1>1 DEF Visit
<1>3. /\ parentOf' \in Seq(Int) /\ Len(parentOf') = k
      /\ parentOf'[k] = (IF ~HasSymbol(n) THEN NoSymbol
                         ELSE IF stack = <<>> THEN Root ELSE TopOf(stack))
      /\ \A i \in 1 .. k - 1 : parentOf'[i] = parentOf[i]
  <2> DEFINE to == IF ~HasSymbol(n) THEN NoSymbol
                   ELSE IF stack = <<>> THEN Root ELSE TopOf(stack)
  <2>1. stack # <<>> => TopOf(stack) \in Int
    BY <1>1 DEF TopOf
  <2>2. to \in Int
    BY <2>1 DEF NoSymbol, Root
  <2>3. parentOf' = Append(parentOf, to)
    BY DEF Visit
  <2> HIDE DEF to
  <2>4. /\ parentOf' \in Seq(Int) /\ Len(parentOf') = k /\ parentOf'[k] = to
        /\ \A i \in 1 .. k - 1 : parentOf'[i] = parentOf[i]
    BY <1>1, <2>2, <2>3
  <2>5. QED
    BY <2>4 DEF to
<1>4. n.first = NextToken /\ n.first <= n.last
  BY DEF Visit, Comes
<1>5. NextToken' = IF n.kind = "leaf" THEN n.last + 1 ELSE n.first
  <2>1. nodes' # <<>> /\ nodes'[Len(nodes')] = n
    BY <1>1, <1>2
  <2>2. QED
    BY <2>1 DEF NextToken
<1>6. ASSUME NEW i \in 1 .. k - 1, NEW j
      PROVE  j \in Enclosing(i)' <=> j \in Enclosing(i)
  <2>1. \A m \in 1 .. i - 1 : nodes'[m] = nodes[m]
    BY <1>2
  <2>2. nodes'[i] = nodes[i]
    BY <1>2
  <2>3. QED
    BY <2>1, <2>2 DEF Enclosing
<1>7. Chained => Chained'
  <2>1. SUFFICES ASSUME Chained PROVE Chained'
    OBVIOUS
  <2>2. PICK i \in 1 .. Len(nodes) : \E j \in Enclosing(i) :
          nodes[i].kind \in Wrapping /\ nodes[i].last = nodes[j].last
    BY <2>1 DEF Chained
  <2>3. PICK j \in Enclosing(i) : nodes[i].kind \in Wrapping /\ nodes[i].last = nodes[j].last
    BY <2>2
  <2>4. /\ i \in 1 .. Len(nodes') /\ i \in 1 .. k - 1 /\ j \in 1 .. i - 1 /\ j \in 1 .. k - 1
    BY <1>1, <1>2, <2>3 DEF Enclosing
  <2>5. j \in Enclosing(i)' /\ nodes'[i] = nodes[i] /\ nodes'[j] = nodes[j]
    BY <1>2, <1>6, <2>3, <2>4
  <2>6. QED
    BY <2>3, <2>4, <2>5 DEF Chained
<1>8. QED
  BY <1>2, <1>3, <1>4, <1>5, <1>6, <1>7

\* The top of the stack, and what is left when it is taken off.
LEMMA StackTop ==
    ASSUME NEW s \in Seq(Nat), s # <<>>
    PROVE  /\ Len(s) \in 1 .. Len(s) /\ TopOf(s) = s[Len(s)]
           /\ Popped(s) \in Seq(Nat) /\ Len(Popped(s)) = Len(s) - 1
           /\ \A p \in 1 .. Len(s) - 1 : Popped(s)[p] = s[p]
<1>1. Len(s) \in Nat /\ Len(s) # 0
  BY EmptySeq
<1>2. /\ Popped(s) \in Seq(Nat) /\ Len(Popped(s)) = Len(s) - 1
      /\ \A p \in 1 .. Len(s) - 1 : Popped(s)[p] = s[p]
  <2>1. \A p \in 1 .. Len(s) - 1 : s[p] \in Nat
    BY <1>1
  <2>2. /\ SubSeq(s, 1, Len(s) - 1) \in Seq(Nat)
        /\ Len(SubSeq(s, 1, Len(s) - 1)) = IF 1 <= Len(s) - 1 THEN Len(s) - 1 - 1 + 1 ELSE 0
        /\ \A p \in 1 .. Len(s) - 1 - 1 + 1 : SubSeq(s, 1, Len(s) - 1)[p] = s[1 + p - 1]
    BY <1>1, <2>1, SubSeqProperties
  <2>3. Len(SubSeq(s, 1, Len(s) - 1)) = Len(s) - 1
    <3>1. CASE 1 <= Len(s) - 1
      <4>1. Len(SubSeq(s, 1, Len(s) - 1)) = Len(s) - 1 - 1 + 1
        BY <2>2, <3>1, Zenon
      <4>2. QED
        BY <1>1, <4>1
    <3>2. CASE ~(1 <= Len(s) - 1)
      <4>1. Len(SubSeq(s, 1, Len(s) - 1)) = 0
        BY <2>2, <3>2, Zenon
      <4> DEFINE length == Len(s)
      <4>2. length \in Nat /\ length # 0 /\ ~(1 <= length - 1)
        BY <1>1, <3>2
      <4> HIDE DEF length
      <4>3. length - 1 = 0
        BY <4>2
      <4>4. QED
        BY <4>1, <4>3, Zenon DEF length
    <3>3. QED
      BY <3>1, <3>2
  <2>4. ASSUME NEW p \in 1 .. Len(s) - 1 PROVE SubSeq(s, 1, Len(s) - 1)[p] = s[p]
    <3>1. p \in 1 .. Len(s) - 1 - 1 + 1 /\ 1 + p - 1 = p
      BY <1>1
    <3>2. QED
      BY <2>2, <3>1
  <2>5. QED
    BY <2>2, <2>3, <2>4 DEF Popped
<1>3. QED
  BY <1>1, <1>2 DEF TopOf

\* What is on the stack after a visit was there before, or is the node.
LEMMA VisitedKept ==
    ASSUME WalkInv, NEW n \in Nodes, Visit(n), NEW k, k = Len(nodes) + 1
    PROVE  Visited'
<1>1. /\ nodes' \in Seq(Nodes) /\ k \in Nat /\ Len(nodes') = k
      /\ nodes'[k] = n
      /\ \A i \in 1 .. k - 1 : nodes'[i] = nodes[i] /\ nodes[i] \in Nodes
      /\ parentOf' \in Seq(Int) /\ Len(parentOf') = k
      /\ n.first = NextToken /\ n.first <= n.last
      /\ NextToken' = IF n.kind = "leaf" THEN n.last + 1 ELSE n.first
  BY NodeVisited
<1>2. /\ stack \in Seq(Nat)
      /\ \A p \in 1 .. Len(stack) : stack[p] \in 1 .. k - 1 /\ nodes[stack[p]].kind \in Wrapping
  BY DEF WalkInv, Visited
<1>3. n.first \in Int /\ n.last \in Int /\ NextToken <= NextToken' /\ n.first <= NextToken'
  BY <1>1, NodePositions
<1>4. ASSUME NEW j \in 1 .. Len(nodes')
      PROVE  nodes'[j].first <= nodes'[j].last /\ nodes'[j].first <= NextToken'
  <2>1. CASE j \in 1 .. k - 1
    <3>1. nodes'[j] = nodes[j] /\ nodes[j].first \in Int
      BY <1>1, <2>1, NodePositions
    <3>2. nodes[j].first <= nodes[j].last /\ nodes[j].first <= NextToken
      BY <2>1 DEF WalkInv, Visited
    <3>3. QED
      BY <1>1, <1>3, <3>1, <3>2
  <2>2. CASE j = k
    BY <1>1, <1>3, <2>2
  <2>3. QED
    BY <1>1, <2>1, <2>2
<1>5. \A p \in 1 .. Len(stack) : stack[p] \in 1 .. k /\ nodes'[stack[p]].kind \in Wrapping
  <2>1. SUFFICES ASSUME NEW p \in 1 .. Len(stack)
                 PROVE  stack[p] \in 1 .. k /\ nodes'[stack[p]].kind \in Wrapping
    OBVIOUS
  <2>2. stack[p] \in 1 .. k - 1 /\ nodes[stack[p]].kind \in Wrapping
    BY <1>2
  <2>3. QED
    BY <1>1, <2>2
<1>6. /\ stack' \in Seq(Nat)
      /\ \A p \in 1 .. Len(stack') : stack'[p] \in 1 .. k /\ nodes'[stack'[p]].kind \in Wrapping
  <2>1. stack' = StackAfter(n, k)
    BY DEF Visit
  <2>2. CASE n.kind \in Wrapping
    <3>1. stack' = Append(stack, k)
      BY <2>1, <2>2 DEF StackAfter
    <3>2. /\ stack' \in Seq(Nat) /\ Len(stack') = Len(stack) + 1 /\ Len(stack) \in Nat
          /\ \A p \in 1 .. Len(stack) : stack'[p] = stack[p]
          /\ stack'[Len(stack) + 1] = k
      BY <1>1, <1>2, <3>1
    <3>3. ASSUME NEW p \in 1 .. Len(stack')
          PROVE  stack'[p] \in 1 .. k /\ nodes'[stack'[p]].kind \in Wrapping
      <4>1. CASE p \in 1 .. Len(stack)
        BY <1>5, <3>2, <4>1
      <4>2. CASE p = Len(stack) + 1
        BY <1>1, <2>2, <3>2, <4>2
      <4>3. QED
        BY <3>2, <4>1, <4>2
    <3>4. QED
      BY <3>2, <3>3
  <2>3. CASE n.kind \notin Wrapping /\ stack # <<>> /\ stack' = Popped(stack)
    <3>1. /\ stack' \in Seq(Nat) /\ Len(stack') = Len(stack) - 1 /\ Len(stack) \in Nat
          /\ \A p \in 1 .. Len(stack) - 1 : stack'[p] = stack[p]
      <4>1. /\ Len(stack) \in 1 .. Len(stack) /\ Popped(stack) \in Seq(Nat)
            /\ Len(Popped(stack)) = Len(stack) - 1
            /\ \A p \in 1 .. Len(stack) - 1 : Popped(stack)[p] = stack[p]
        <5>1. stack \in Seq(Nat) /\ stack # <<>>
          BY <1>2, <2>3
        <5>2. QED
          BY <5>1, StackTop
      <4>2. QED
        BY <2>3, <4>1
    <3>2. ASSUME NEW p \in 1 .. Len(stack')
          PROVE  stack'[p] \in 1 .. k /\ nodes'[stack'[p]].kind \in Wrapping
      <4>1. p \in 1 .. Len(stack) - 1 /\ p \in 1 .. Len(stack)
        BY <3>1
      <4>2. stack'[p] = stack[p]
        BY <3>1, <4>1
      <4>3. QED
        BY <1>5, <4>1, <4>2
    <3>3. QED
      BY <3>1, <3>2
  <2>4. CASE stack' = stack
    <3>1. ASSUME NEW p \in 1 .. Len(stack')
          PROVE  stack'[p] \in 1 .. k /\ nodes'[stack'[p]].kind \in Wrapping
      BY <1>5, <2>4
    <3>2. QED
      BY <1>2, <2>4, <3>1
  <2>5. QED
    BY <2>1, <2>2, <2>3, <2>4 DEF StackAfter
<1>7. QED
  BY <1>1, <1>4, <1>6 DEF Visited

\* The stack stays open.
LEMMA StackOpenKept ==
    ASSUME WalkInv, StackOpen, NEW n \in Nodes, Visit(n), ~Chained',
           NEW k, k = Len(nodes) + 1
    PROVE  StackOpen'
<1>1. /\ nodes' \in Seq(Nodes) /\ k \in Nat /\ Len(nodes') = k
      /\ nodes'[k] = n
      /\ \A i \in 1 .. k - 1 : nodes'[i] = nodes[i] /\ nodes[i] \in Nodes
      /\ n.first = NextToken /\ n.first <= n.last
      /\ NextToken' = IF n.kind = "leaf" THEN n.last + 1 ELSE n.first
  BY NodeVisited
<1>2. /\ stack \in Seq(Nat) /\ Len(stack) \in Nat
      /\ \A p \in 1 .. Len(stack) : stack[p] \in 1 .. k - 1 /\ nodes[stack[p]].kind \in Wrapping
      /\ \A j \in 1 .. k - 1 : nodes[j].first <= NextToken
  BY DEF WalkInv, Visited
<1>3. /\ n.first \in Int /\ n.last \in Int /\ NextToken \in Int /\ NextToken' \in Int
      /\ NextToken <= NextToken'
      /\ \A i \in 1 .. k - 1 : nodes[i].first \in Int /\ nodes[i].last \in Int
  BY <1>1, NodePositions
<1>4. \A i \in 1 .. k - 1 :
        n.first <= nodes[i].last =>
          /\ n.last <= nodes[i].last
          /\ nodes[i].kind = "definition" /\ n.last = nodes[i].last => n.kind = "leaf"
  BY <1>3 DEF Visit, Comes
<1>5. n.kind = "leaf" => n.first = n.last
  BY DEF Visit, Comes
<1>6. \A p \in 1 .. Len(stack) :
        /\ NextToken <= nodes[stack[p]].last /\ nodes'[stack[p]] = nodes[stack[p]]
        /\ n.last <= nodes[stack[p]].last
        /\ nodes[stack[p]].last \in Int /\ stack[p] \in Nat
  BY <1>1, <1>2, <1>3, <1>4 DEF StackOpen
<1>7. \A p, q \in 1 .. Len(stack) :
        p < q => stack[p] < stack[q] /\ nodes[stack[q]].last < nodes[stack[p]].last
  BY DEF StackOpen
<1>8. \A j \in 1 .. k - 1 :
        nodes[j].kind = "definition" /\ NextToken <= nodes[j].last =>
          \E p \in 1 .. Len(stack) : stack[p] = j
  BY <1>1 DEF StackOpen
<1>9. stack' = StackAfter(n, k)
  BY DEF Visit
<1>10. CASE n.kind \in Wrapping
  <2>1. stack' = Append(stack, k)
    BY <1>9, <1>10 DEF StackAfter
  <2>2. NextToken' = n.first
    BY <1>1, <1>10 DEF Wrapping
  <2>3. ASSUME NEW p \in 1 .. Len(stack) PROVE n.last < nodes[stack[p]].last
    <3>1. stack[p] \in Enclosing(k)'
      <4>1. stack[p] \in 1 .. k - 1 /\ nodes'[stack[p]].kind \in Wrapping
        BY <1>2, <1>6
      <4>2. Within(nodes'[k], nodes'[stack[p]])
        BY <1>1, <1>2, <1>6 DEF Within
      <4>3. QED
        BY <4>1, <4>2, <1>1 DEF Enclosing
    <3>2. nodes'[k].last # nodes'[stack[p]].last
      <4>1. k \in 1 .. Len(nodes')
        BY <1>1
      <4>2. QED
        BY <1>1, <1>10, <3>1, <4>1 DEF Chained
    <3>3. QED
      BY <1>1, <1>3, <1>6, <3>2
  <2>4. /\ stack' \in Seq(Nat) /\ Len(stack') = Len(stack) + 1
        /\ \A p \in 1 .. Len(stack) : stack'[p] = stack[p]
        /\ stack'[Len(stack) + 1] = k
    BY <1>1, <1>2, <2>1
  <2>5. ASSUME NEW p \in 1 .. Len(stack') PROVE NextToken' <= nodes'[stack'[p]].last
    <3>1. CASE p \in 1 .. Len(stack)
      BY <1>1, <1>6, <2>2, <2>4, <3>1
    <3>2. CASE p = Len(stack) + 1
      BY <1>1, <2>2, <2>4, <3>2
    <3>3. QED
      BY <1>2, <2>4, <3>1, <3>2
  <2>6. ASSUME NEW p \in 1 .. Len(stack'), NEW q \in 1 .. Len(stack'), p < q
        PROVE  stack'[p] < stack'[q] /\ nodes'[stack'[q]].last < nodes'[stack'[p]].last
    <3>1. p \in 1 .. Len(stack)
      BY <1>2, <2>4, <2>6
    <3>2. CASE q \in 1 .. Len(stack)
      BY <1>6, <1>7, <2>4, <2>6, <3>1, <3>2
    <3>3. CASE q = Len(stack) + 1
      <4>1. stack'[p] = stack[p] /\ stack'[q] = k
        BY <2>4, <3>1, <3>3
      <4>2. stack[p] \in 1 .. k - 1 /\ nodes'[stack[p]] = nodes[stack[p]]
        BY <1>2, <1>6, <3>1
      <4>3. n.last < nodes[stack[p]].last
        BY <2>3, <3>1
      <4>4. QED
        BY <1>1, <4>1, <4>2, <4>3
    <3>4. QED
      BY <1>2, <2>4, <3>2, <3>3
  <2>7. ASSUME NEW j \in 1 .. Len(nodes'), nodes'[j].kind = "definition", NextToken' <= nodes'[j].last
        PROVE  \E p \in 1 .. Len(stack') : stack'[p] = j
    <3>1. CASE j = k
      <4>1. Len(stack) + 1 \in 1 .. Len(stack')
        BY <1>2, <2>4
      <4>2. QED
        BY <2>4, <3>1, <4>1
    <3>2. CASE j \in 1 .. k - 1
      <4>1. PICK p \in 1 .. Len(stack) : stack[p] = j
        BY <1>1, <1>8, <2>2, <2>7, <3>2
      <4>2. p \in 1 .. Len(stack')
        BY <1>2, <2>4
      <4>3. QED
        BY <2>4, <4>1, <4>2
    <3>3. QED
      BY <1>1, <3>1, <3>2
  <2>8. QED
    BY <2>5, <2>6, <2>7 DEF StackOpen
<1>11. CASE n.kind \notin Wrapping /\ stack # <<>> /\ nodes[TopOf(stack)].last = n.last
  <2>1. stack' = Popped(stack)
    BY <1>9, <1>11 DEF StackAfter
  <2>2. /\ Len(stack) \in 1 .. Len(stack) /\ TopOf(stack) = stack[Len(stack)]
        /\ Len(stack') = Len(stack) - 1
        /\ \A p \in 1 .. Len(stack) - 1 : stack'[p] = stack[p]
    BY <1>2, <1>11, <2>1, StackTop
  <2>3. NextToken' <= n.last + 1
    BY <1>1, <1>3
  <2>4. \A p \in 1 .. Len(stack') : NextToken' <= nodes'[stack'[p]].last
    <3>1. SUFFICES ASSUME NEW p \in 1 .. Len(stack') PROVE NextToken' <= nodes'[stack'[p]].last
      OBVIOUS
    <3>2. p \in 1 .. Len(stack) /\ p < Len(stack) /\ stack'[p] = stack[p]
      BY <1>2, <2>2
    <3>3. n.last < nodes[stack[p]].last
      BY <1>7, <1>11, <2>2, <3>2
    <3>4. nodes'[stack'[p]].last = nodes[stack[p]].last /\ nodes[stack[p]].last \in Int
      BY <1>6, <3>2
    <3>5. QED
      BY <1>3, <2>3, <3>3, <3>4
  <2>5. \A p, q \in 1 .. Len(stack') :
          p < q => stack'[p] < stack'[q] /\ nodes'[stack'[q]].last < nodes'[stack'[p]].last
    <3>1. \A p \in 1 .. Len(stack') : p \in 1 .. Len(stack) /\ stack'[p] = stack[p]
      BY <1>2, <2>2
    <3>2. QED
      BY <1>6, <1>7, <3>1
  <2>6. ASSUME NEW j \in 1 .. Len(nodes'), nodes'[j].kind = "definition", NextToken' <= nodes'[j].last
        PROVE  \E p \in 1 .. Len(stack') : stack'[p] = j
    <3>1. j # k
      BY <1>1, <1>11, <2>6 DEF Wrapping
    <3>2. j \in 1 .. k - 1 /\ nodes'[j] = nodes[j]
      BY <1>1, <3>1
    <3>3. NextToken <= nodes[j].last
      BY <1>3, <2>6, <3>2
    <3>4. PICK p \in 1 .. Len(stack) : stack[p] = j
      BY <1>8, <2>6, <3>2, <3>3
    <3>5. p # Len(stack)
      <4>1. SUFFICES ASSUME p = Len(stack) PROVE FALSE
        OBVIOUS
      <4>2. n.last = nodes[j].last
        BY <1>11, <2>2, <3>4, <4>1
      <4>3. n.kind = "leaf"
        BY <1>1, <1>4, <2>6, <3>2, <3>3, <4>2
      <4>4. NextToken' = n.last + 1
        BY <1>1, <4>3
      <4>5. QED
        BY <1>3, <2>6, <3>2, <4>2, <4>4
    <3>6. p \in 1 .. Len(stack')
      BY <1>2, <2>2, <3>5
    <3>7. QED
      BY <2>2, <3>4, <3>6
  <2>7. QED
    BY <2>4, <2>5, <2>6 DEF StackOpen
<1>12. CASE n.kind \notin Wrapping /\ ~(stack # <<>> /\ nodes[TopOf(stack)].last = n.last)
  <2>1. stack' = stack
    BY <1>9, <1>12 DEF StackAfter
  <2>2. ASSUME NEW p \in 1 .. Len(stack) PROVE NextToken' <= nodes[stack[p]].last
    <3>1. CASE n.kind # "leaf"
      BY <1>1, <1>6, <3>1
    <3>2. CASE n.kind = "leaf"
      <4>1. stack # <<>> /\ Len(stack) \in 1 .. Len(stack)
        BY <1>2
      <4>2. nodes[stack[Len(stack)]].last # n.last
        BY <1>12, <4>1 DEF TopOf
      <4>3. n.last < nodes[stack[Len(stack)]].last
        BY <1>3, <1>6, <4>1, <4>2
      <4>4. n.last < nodes[stack[p]].last
        <5>1. CASE p = Len(stack)
          BY <4>3, <5>1
        <5>2. CASE p # Len(stack)
          <6>1. p < Len(stack)
            BY <1>2, <5>2
          <6>2. nodes[stack[Len(stack)]].last < nodes[stack[p]].last
            BY <1>7, <4>1, <6>1
          <6>3. nodes[stack[Len(stack)]].last \in Int /\ nodes[stack[p]].last \in Int
            BY <1>6, <4>1
          <6>4. QED
            BY <1>3, <4>3, <6>2, <6>3
        <5>3. QED
          BY <5>1, <5>2
      <4>5. QED
        BY <1>1, <1>3, <1>6, <3>2, <4>4
    <3>3. QED
      BY <3>1, <3>2
  <2>3. \A p \in 1 .. Len(stack') : NextToken' <= nodes'[stack'[p]].last
    BY <1>6, <2>1, <2>2
  <2>4. \A p, q \in 1 .. Len(stack') :
          p < q => stack'[p] < stack'[q] /\ nodes'[stack'[q]].last < nodes'[stack'[p]].last
    BY <1>6, <1>7, <2>1
  <2>5. ASSUME NEW j \in 1 .. Len(nodes'), nodes'[j].kind = "definition", NextToken' <= nodes'[j].last
        PROVE  \E p \in 1 .. Len(stack') : stack'[p] = j
    <3>1. j # k
      BY <1>1, <1>12, <2>5 DEF Wrapping
    <3>2. j \in 1 .. k - 1 /\ nodes'[j] = nodes[j]
      BY <1>1, <3>1
    <3>3. NextToken <= nodes[j].last
      BY <1>3, <2>5, <3>2
    <3>4. QED
      BY <1>8, <2>1, <2>5, <3>2, <3>3
  <2>6. QED
    BY <2>3, <2>4, <2>5 DEF StackOpen
<1>13. QED
  BY <1>10, <1>11, <1>12

\* The symbol of a node that is visited goes where it belongs.
LEMMA VisitNests ==
    ASSUME WalkInv, StackOpen, NEW n \in Nodes, Visit(n), NEW k, k = Len(nodes) + 1
    PROVE  Nested(k)'
<1>1. /\ nodes' \in Seq(Nodes) /\ k \in Nat /\ Len(nodes') = k
      /\ nodes'[k] = n
      /\ \A i \in 1 .. k - 1 : nodes'[i] = nodes[i] /\ nodes[i] \in Nodes
      /\ parentOf'[k] = (IF ~HasSymbol(n) THEN NoSymbol
                         ELSE IF stack = <<>> THEN Root ELSE TopOf(stack))
      /\ n.first = NextToken /\ n.first <= n.last
  BY NodeVisited
<1>2. /\ stack \in Seq(Nat) /\ Len(stack) \in Nat
      /\ \A p \in 1 .. Len(stack) : stack[p] \in 1 .. k - 1 /\ nodes[stack[p]].kind \in Wrapping
      /\ \A j \in 1 .. k - 1 : nodes[j].first <= NextToken
  BY DEF WalkInv, Visited
<1>3. /\ n.first \in Int /\ n.last \in Int
      /\ \A i \in 1 .. k - 1 : nodes[i].first \in Int /\ nodes[i].last \in Int
  BY <1>1, NodePositions
<1>4. \A i \in 1 .. k - 1 : n.first <= nodes[i].last => n.last <= nodes[i].last
  BY <1>3 DEF Visit, Comes
<1>5. \A p \in 1 .. Len(stack) : stack[p] \in Enclosing(k)'
  <2>1. SUFFICES ASSUME NEW p \in 1 .. Len(stack) PROVE stack[p] \in Enclosing(k)'
    OBVIOUS
  <2>2. NextToken <= nodes[stack[p]].last /\ stack[p] \in 1 .. k - 1
    BY <1>2 DEF StackOpen
  <2>3. Within(nodes'[k], nodes'[stack[p]]) /\ nodes'[stack[p]].kind \in Wrapping
    BY <1>1, <1>2, <1>4, <2>2 DEF Within
  <2>4. QED
    BY <2>2, <2>3 DEF Enclosing
<1>6. ASSUME NEW j \in Enclosing(k)', nodes'[j].kind = "definition"
      PROVE  stack # <<>> /\ j <= TopOf(stack)
  <2>1. j \in 1 .. k - 1 /\ Within(nodes'[k], nodes'[j])
    BY DEF Enclosing
  <2>2. NextToken <= nodes[j].last /\ nodes[j].kind = "definition" /\ j \in 1 .. Len(nodes)
    BY <1>1, <1>3, <1>6, <2>1 DEF Within
  <2>3. PICK p \in 1 .. Len(stack) : stack[p] = j
    BY <2>2 DEF StackOpen
  <2>4. stack # <<>> /\ Len(stack) \in 1 .. Len(stack)
    BY <1>2
  <2>5. p = Len(stack) \/ stack[p] < stack[Len(stack)]
    BY <1>2, <2>4 DEF StackOpen
  <2>6. QED
    BY <1>2, <2>3, <2>4, <2>5 DEF TopOf
<1>7. CASE HasSymbol(n) /\ stack = <<>>
  BY <1>1, <1>6, <1>7 DEF Nested
<1>8. CASE HasSymbol(n) /\ stack # <<>>
  <2>1. Len(stack) \in 1 .. Len(stack)
    BY <1>2, <1>8
  <2>2. parentOf'[k] = stack[Len(stack)] /\ parentOf'[k] \in Enclosing(k)'
    BY <1>1, <1>5, <1>8, <2>1 DEF TopOf
  <2>3. \A j \in Enclosing(k)' : nodes'[j].kind = "definition" => j <= parentOf'[k]
    BY <1>6, <2>2 DEF TopOf
  <2>4. QED
    BY <2>2, <2>3 DEF Nested
<1>9. CASE ~HasSymbol(n)
  BY <1>1, <1>9 DEF Nested
<1>10. QED
  BY <1>7, <1>8, <1>9

LEMMA WalkKeeps == WalkInv /\ [WalkNext]_walkVars => WalkInv'
<1> SUFFICES ASSUME WalkInv, [WalkNext]_walkVars PROVE WalkInv'
  OBVIOUS
<1>1. ASSUME NEW n \in Nodes, Visit(n), NEW k, k = Len(nodes) + 1 PROVE WalkInv'
  <2>1. Visited'
    BY <1>1, VisitedKept
  <2>2. ASSUME ~Chained' PROVE StackOpen' /\ \A i \in 1 .. Len(nodes') : Nested(i)'
    <3>1. /\ Len(nodes') = k /\ ~Chained /\ k \in Nat
          /\ \A i \in 1 .. k - 1 :
               /\ nodes'[i] = nodes[i] /\ parentOf'[i] = parentOf[i]
               /\ \A j : j \in Enclosing(i)' <=> j \in Enclosing(i)
      BY <1>1, <2>2, NodeVisited
    <3>2. StackOpen /\ \A i \in 1 .. k - 1 : Nested(i)
      BY <1>1, <3>1 DEF WalkInv
    <3>3. StackOpen'
      BY <1>1, <2>2, <3>2, StackOpenKept
    <3>4. ASSUME NEW i \in 1 .. k - 1 PROVE Nested(i)'
      <4>1. \A j \in Enclosing(i) : j \in 1 .. k - 1
        BY <3>1 DEF Enclosing
      <4>2. Nested(i)
        BY <3>2
      <4>3. QED
        BY <3>1, <4>1, <4>2 DEF Nested
    <3>5. Nested(k)'
      BY <1>1, <3>2, VisitNests
    <3>6. QED
      BY <3>1, <3>3, <3>4, <3>5
  <2>3. QED
    BY <2>1, <2>2 DEF WalkInv
<1>2. CASE UNCHANGED walkVars
  BY <1>2 DEF walkVars, WalkInv, Visited, StackOpen, Nested, NextToken, Enclosing, Chained
<1>3. QED
  BY <1>1, <1>2 DEF WalkNext

-----------------------------------------------------------------------------
(* The edits of a formatter.  Positions and offsets of a text correspond   *)
(* and have the same order; an edit made for a part of the text puts       *)
(* something else in its place, and what comes later follows.              *)

\* A set of natural numbers has a least element, and if it is bounded a greatest.
LEMMA HasMin == ASSUME NEW S \in SUBSET Nat, S # {} PROVE \E m \in S : \A k \in S : m <= k
<1> DEFINE Below == {ss \in Nat \X Nat : ss[1] < ss[2]}
<1>1. IsWellFoundedOn(Below, Nat)
  BY NatLessThanWellFounded DEF OpToRel
<1>2. PICK m \in S : \A k \in S : ~(<<k, m>> \in Below)
  <2> HIDE DEF Below
  <2> QED BY <1>1, WFMin
<1>3. ASSUME NEW k \in S PROVE m <= k
  <2>1. ~(<<k, m>> \in Below)
    BY <1>2
  <2>2. ~(k < m)
    BY <2>1
  <2> QED BY <2>2
<1> QED BY <1>3

LEMMA MinOfNats == ASSUME NEW S \in SUBSET Nat, S # {}
                   PROVE Min(S) \in S /\ \A k \in S : Min(S) <= k
BY HasMin, Zenon DEF Min

LEMMA MaxOfNats == ASSUME NEW S \in SUBSET Nat, S # {}, NEW n \in Nat, \A k \in S : k <= n
                   PROVE Max(S) \in S /\ \A k \in S : k <= Max(S)
<1> DEFINE Mirror == {n - k : k \in S}
<1>1. PICK m \in Mirror : \A k \in Mirror : m <= k
  <2>1. \A k \in S : n - k \in Nat
    OBVIOUS
  <2>2. Mirror \in SUBSET Nat /\ Mirror # {}
    BY <2>1
  <2> HIDE DEF Mirror
  <2> QED BY <2>2, HasMin
<1>2. PICK x \in S : m = n - x
  OBVIOUS
<1>3. \A y \in S : x >= y
  <2> TAKE y \in S
  <2>1. n - y \in Mirror
    OBVIOUS
  <2>2. m <= n - y
    BY <1>1, <2>1
  <2>3. x \in Nat /\ y \in Nat
    OBVIOUS
  <2> QED BY <1>2, <2>2, <2>3
<1>4. Max(S) \in S /\ \A y \in S : Max(S) >= y
  BY <1>3, Zenon DEF Max
<1>5. Max(S) \in Nat
  BY <1>4
<1> QED BY <1>4, <1>5

-----------------------------------------------------------------------------
(* Offsets and positions.                                                  *)

Breaks(text, offset) == {i \in 1 .. offset : text[i] = NL}

\* The newlines up to an offset are counted, and the count grows with it.
LEMMA BreaksGrow ==
  ASSUME NEW text, NEW a \in Nat, NEW b \in Nat, a <= b
  PROVE  /\ Breaks(text, a) \subseteq Breaks(text, b)
         /\ Cardinality(Breaks(text, a)) \in Nat
         /\ Cardinality(Breaks(text, b)) \in Nat
         /\ Cardinality(Breaks(text, a)) <= Cardinality(Breaks(text, b))
         /\ Cardinality(Breaks(text, a)) = Cardinality(Breaks(text, b))
              => Breaks(text, a) = Breaks(text, b)
<1>1. Breaks(text, a) \subseteq Breaks(text, b)
  BY DEF Breaks
<1>2. ASSUME NEW o \in Nat PROVE IsFiniteSet(Breaks(text, o))
  <2>1. IsFiniteSet(1 .. o)
    BY FS_Interval
  <2>2. Breaks(text, o) \in SUBSET (1 .. o)
    BY DEF Breaks
  <2> QED BY <2>1, <2>2, FS_Subset
<1>3. IsFiniteSet(Breaks(text, a)) /\ IsFiniteSet(Breaks(text, b))
  BY <1>2
<1>4. Cardinality(Breaks(text, a)) \in Nat /\ Cardinality(Breaks(text, b)) \in Nat
  BY <1>3, FS_CardinalityType
<1> QED BY <1>1, <1>3, <1>4, FS_Subset

\* A line starts behind the last newline, or with the text.
LEMMA LineStarts ==
  ASSUME NEW text, NEW o \in Nat
  PROVE  /\ LineStart(text, o) \in 0 .. o
         /\ LineStart(text, o) # 0 => LineStart(text, o) \in Breaks(text, o)
         /\ \A i \in Breaks(text, o) : i <= LineStart(text, o)
         /\ Breaks(text, LineStart(text, o)) = Breaks(text, o)
<1> DEFINE Starts == {0} \cup Breaks(text, o)
<1>1. Starts \in SUBSET Nat /\ Starts # {} /\ \A k \in Starts : k <= o
  BY DEF Breaks
<1>2. LineStart(text, o) = Max(Starts)
  BY DEF LineStart, Breaks
<1>3. LineStart(text, o) \in Starts /\ \A k \in Starts : k <= LineStart(text, o)
  <2> HIDE DEF Starts
  <2> QED BY <1>1, <1>2, MaxOfNats
<1>4. LineStart(text, o) \in 0 .. o
  BY <1>1, <1>3
<1>5. Breaks(text, LineStart(text, o)) = Breaks(text, o)
  <2>1. \A i \in Breaks(text, o) : i <= LineStart(text, o)
    BY <1>3
  <2> QED BY <1>4, <2>1 DEF Breaks
<1> QED BY <1>3, <1>4, <1>5

\* An offset of the text is not clamped.
LEMMA PositionOf ==
  ASSUME NEW S, NEW text \in Seq(S), NEW o \in 0 .. Len(text)
  PROVE  /\ PositionAt(text, o) =
              [line |-> Cardinality(Breaks(text, o)), character |-> o - LineStart(text, o)]
         /\ PositionAt(text, o).line \in Nat
         /\ PositionAt(text, o).line = Cardinality(Breaks(text, o))
         /\ PositionAt(text, o).character \in Nat
         /\ PositionAt(text, o).character = o - LineStart(text, o)
<1>1. Len(text) \in Nat /\ o \in Nat
  BY LenProperties
<1>2. Min({o, Len(text)}) = o
  <2>1. {o, Len(text)} \in SUBSET Nat /\ {o, Len(text)} # {}
    BY <1>1
  <2>2. Min({o, Len(text)}) \in {o, Len(text)} /\ Min({o, Len(text)}) <= o
    BY <2>1, MinOfNats
  <2> QED BY <1>1, <2>2
<1>3. PositionAt(text, o) =
        [line |-> Cardinality(Breaks(text, o)), character |-> o - LineStart(text, o)]
  BY <1>2 DEF PositionAt, Breaks
<1>4. Cardinality(Breaks(text, o)) \in Nat
  BY <1>1, BreaksGrow
<1>5. o - LineStart(text, o) \in Nat
  BY <1>1, LineStarts
<1> QED BY <1>3, <1>4, <1>5

\* Offsets of one line have one start, and count from it.
LEMMA OneLine ==
  ASSUME NEW S, NEW text \in Seq(S), NEW a \in 0 .. Len(text), NEW b \in 0 .. Len(text),
         PositionAt(text, a).line = PositionAt(text, b).line
  PROVE  /\ LineStart(text, a) = LineStart(text, b)
         /\ LineStart(text, a) \in 0 .. a
         /\ LineStart(text, a) \in 0 .. b
         /\ PositionAt(text, LineStart(text, a)).line = PositionAt(text, a).line
<1>1. Len(text) \in Nat
  BY LenProperties
<1>2. a \in Nat /\ b \in Nat
  BY <1>1
<1>3. Cardinality(Breaks(text, a)) = Cardinality(Breaks(text, b))
  BY PositionOf
<1>4. Breaks(text, a) = Breaks(text, b)
  <2>1. CASE a <= b
    BY <1>2, <1>3, <2>1, BreaksGrow
  <2>2. CASE b <= a
    BY <1>2, <1>3, <2>2, BreaksGrow
  <2> QED BY <1>2, <2>1, <2>2
<1>5. LineStart(text, a) = LineStart(text, b)
  BY <1>4 DEF LineStart, Breaks
<1>6. LineStart(text, a) \in 0 .. a /\ LineStart(text, b) \in 0 .. b
  BY <1>2, LineStarts
<1>7. Breaks(text, LineStart(text, a)) = Breaks(text, a)
  BY <1>2, LineStarts
<1>8. LineStart(text, a) \in 0 .. Len(text)
  BY <1>1, <1>6
<1>9. PositionAt(text, LineStart(text, a)).line = PositionAt(text, a).line
  BY <1>7, <1>8, PositionOf
<1> QED BY <1>5, <1>6, <1>9

\* The order of positions is that of the offsets.
LEMMA PositionsOrdered ==
  ASSUME NEW S, NEW text \in Seq(S), NEW a \in 0 .. Len(text), NEW b \in 0 .. Len(text)
  PROVE  a <= b <=> \/ PositionAt(text, a).line < PositionAt(text, b).line
                    \/ /\ PositionAt(text, a).line = PositionAt(text, b).line
                       /\ PositionAt(text, a).character <= PositionAt(text, b).character
<1>1. a \in Nat /\ b \in Nat
  BY LenProperties
<1>2. /\ PositionAt(text, a).line \in Nat /\ PositionAt(text, b).line \in Nat
      /\ PositionAt(text, a).character = a - LineStart(text, a)
      /\ PositionAt(text, b).character = b - LineStart(text, b)
  BY PositionOf
<1>3. LineStart(text, a) \in Nat /\ LineStart(text, b) \in Nat
  BY <1>1, LineStarts
<1>4. CASE PositionAt(text, a).line = PositionAt(text, b).line
  <2>1. LineStart(text, a) = LineStart(text, b)
    BY <1>4, OneLine
  <2> QED BY <1>1, <1>2, <1>3, <1>4, <2>1
<1>5. CASE PositionAt(text, a).line # PositionAt(text, b).line
  <2>1. a <= b => PositionAt(text, a).line <= PositionAt(text, b).line
    BY <1>1, PositionOf, BreaksGrow
  <2>2. b <= a => PositionAt(text, b).line <= PositionAt(text, a).line
    BY <1>1, PositionOf, BreaksGrow
  <2> QED BY <1>1, <1>2, <1>5, <2>1, <2>2
<1> QED BY <1>4, <1>5

\* offsetAt undoes positionAt.
LEMMA OffsetOfPosition ==
  ASSUME NEW S, NEW text \in Seq(S), NEW o \in 0 .. Len(text)
  PROVE  OffsetAt(text, PositionAt(text, o)) = o
<1> DEFINE onLine == {p \in 0 .. Len(text) : PositionAt(text, p).line = PositionAt(text, o).line}
           start == LineStart(text, o)
<1>1. Len(text) \in Nat /\ o \in Nat
  BY LenProperties
<1>2. o \in onLine /\ onLine # {} /\ onLine \in SUBSET Nat /\ \A p \in onLine : p <= Len(text)
  BY <1>1
<1>3. start \in onLine /\ start \in Nat /\ start <= o
  <2>1. start \in 0 .. o /\ PositionAt(text, start).line = PositionAt(text, o).line
    BY OneLine
  <2> QED BY <1>1, <2>1
<1>4. \A p \in onLine : start <= p
  <2> TAKE p \in onLine
  <2>1. LineStart(text, o) \in 0 .. p
    BY OneLine
  <2> QED BY <2>1
<1>5. PositionAt(text, o).character = o - start
  BY PositionOf
<1>6. OffsetAt(text, PositionAt(text, o)) =
        Min({Min(onLine) + PositionAt(text, o).character, Max(onLine)})
  BY <1>2 DEF OffsetAt
<1> HIDE DEF onLine, start
<1>7. Min(onLine) = start
  <2>1. Min(onLine) \in onLine /\ \A k \in onLine : Min(onLine) <= k
    BY <1>2, MinOfNats
  <2>2. Min(onLine) \in Nat /\ Min(onLine) <= start /\ start <= Min(onLine)
    BY <1>2, <1>3, <1>4, <2>1
  <2> QED BY <1>3, <2>2
<1>8. Max(onLine) \in Nat /\ o <= Max(onLine)
  BY <1>1, <1>2, MaxOfNats
<1>9. Min(onLine) + PositionAt(text, o).character = o
  BY <1>1, <1>3, <1>5, <1>7
<1>10. Min({o, Max(onLine)}) = o
  <2> DEFINE both == {o, Max(onLine)}
  <2>1. both \in SUBSET Nat /\ both # {}
    BY <1>1, <1>8
  <2>2. Min(both) \in both /\ \A k \in both : Min(both) <= k
    <3> HIDE DEF both
    <3> QED BY <2>1, MinOfNats
  <2> QED BY <1>1, <1>8, <2>2
<1> QED BY <1>6, <1>9, <1>10

-----------------------------------------------------------------------------
(* The selection.                                                          *)

Between(text, a, b) == [start |-> PositionAt(text, a), end |-> PositionAt(text, b)]

\* A selection goes from one offset to a later one, extended or not.
LEMMA SelectionOffsets ==
  ASSUME NEW S, NEW text \in Seq(S), NEW r \in Selections(text), r # NoRange
  PROVE  \E a, b \in 0 .. Len(text) : a <= b /\ r = Between(text, a, b)
<1>1. Len(text) \in Nat
  BY LenProperties
<1>2. PICK a \in 0 .. Len(text) : \E b \in a .. Len(text) : r = Extended(text, Between(text, a, b))
  BY DEF Selections, Between
<1>3. PICK b \in a .. Len(text) : r = Extended(text, Between(text, a, b))
  BY <1>2
<1>4. b \in 0 .. Len(text) /\ a <= b
  BY <1>1, <1>3
<1>5. CASE r = Between(text, a, b)
  BY <1>4, <1>5
<1>6. CASE r = [Between(text, a, b) EXCEPT !.start.character = 0]
  <2> DEFINE c == LineStart(text, a)
  <2>1. c \in 0 .. a /\ PositionAt(text, c).line = PositionAt(text, a).line
    BY OneLine
  <2>2. c \in 0 .. Len(text) /\ c <= b
    BY <1>1, <1>4, <2>1
  <2>3. LineStart(text, c) = c
    BY <2>1, <2>2, OneLine
  <2>4. PositionAt(text, c) = [line |-> Cardinality(Breaks(text, c)), character |-> c - c]
    BY <2>2, <2>3, PositionOf
  <2>5. PositionAt(text, a) =
          [line |-> Cardinality(Breaks(text, a)), character |-> a - LineStart(text, a)]
    BY PositionOf
  <2>6. Cardinality(Breaks(text, c)) = Cardinality(Breaks(text, a))
    BY <2>1, <2>2, PositionOf
  <2>7. c - c = 0
    BY <2>2, <1>1
  <2>8. [PositionAt(text, a) EXCEPT !.character = 0] = PositionAt(text, c)
    BY <2>4, <2>5, <2>6, <2>7
  <2>9. r = Between(text, c, b)
    BY <1>6, <2>8 DEF Between
  <2> QED BY <1>4, <2>2, <2>9
<1> QED BY <1>3, <1>5, <1>6 DEF Extended

\* What the code asks by lines and characters is what is meant by offsets.
LEMMA WantedIsSelected ==
  ASSUME NEW S, original \in Seq(S), document = original, NEW o \in 0 .. Len(original),
         range = NoRange \/ \E a, b \in 0 .. Len(original) : a <= b /\ range = Between(original, a, b)
  PROVE  Wanted(PositionAt(document, o)) <=> Selected(o)
<1>1. CASE range = NoRange
  BY <1>1 DEF Wanted, Selected
<1>2. CASE range # NoRange
  <2>1. PICK a \in 0 .. Len(original), b \in 0 .. Len(original) :
          a <= b /\ range = Between(original, a, b)
    BY <1>2
  <2>2. range.start = PositionAt(original, a) /\ range.end = PositionAt(original, b)
    BY <2>1 DEF Between
  <2>3. OffsetAt(original, range.start) = a /\ OffsetAt(original, range.end) = b
    BY <2>2, OffsetOfPosition
  <2>4. /\ PositionAt(original, o).line \in Nat /\ PositionAt(original, o).character \in Nat
        /\ PositionAt(original, a).line \in Nat /\ PositionAt(original, a).character \in Nat
        /\ PositionAt(original, b).line \in Nat /\ PositionAt(original, b).character \in Nat
    BY PositionOf
  <2>5. a <= o <=> \/ PositionAt(original, a).line < PositionAt(original, o).line
                   \/ /\ PositionAt(original, a).line = PositionAt(original, o).line
                      /\ PositionAt(original, a).character <= PositionAt(original, o).character
    BY PositionsOrdered
  <2>6. o <= b <=> \/ PositionAt(original, o).line < PositionAt(original, b).line
                   \/ /\ PositionAt(original, o).line = PositionAt(original, b).line
                      /\ PositionAt(original, o).character <= PositionAt(original, b).character
    BY PositionsOrdered
  <2>7. InRange(PositionAt(original, o)) <=> a <= o /\ o <= b
    BY <2>2, <2>4, <2>5, <2>6 DEF InRange
  <2> QED BY <1>2, <2>3, <2>7 DEF Wanted, Selected
<1> QED BY <1>1, <1>2

-----------------------------------------------------------------------------
(* The edits, applied one after the other.                                 *)

Edit == [start : [line : Nat, character : Nat], end : [line : Nat, character : Nat],
         newText : Seq(Characters)]

EditAt(text, a, b, new) ==
  [start |-> PositionAt(text, a), end |-> PositionAt(text, b), newText |-> new]

NoPatch == [out |-> <<>>, at |-> 0]

IsPatching(g, text, es) ==
  g = [i \in 0 .. Len(es) |-> IF i = 0 THEN NoPatch ELSE Patched(text, g[i - 1], es[i])]

\* What is put out by the edits, with what follows up to an offset, is the text given.
PutsOut(patch, text, offset, result) ==
  /\ patch.at \in 0 .. offset
  /\ patch.out \in Seq(Characters)
  /\ patch.out \o Part(text, patch.at, offset) = result

EditsPutOut(es, text, offset, result) ==
  /\ es \in Seq(Edit)
  /\ \E g : IsPatching(g, text, es)
  /\ \A g : IsPatching(g, text, es) => PutsOut(g[Len(es)], text, offset, result)

EditInv ==
  /\ original \in Seq(Characters)
  /\ position \in 0 .. Len(original)
  /\ expected \in Seq(Characters)
  /\ range = NoRange \/ \E a, b \in 0 .. Len(original) : a <= b /\ range = Between(original, a, b)
  /\ document = original => EditsPutOut(edits, original, position, expected)

Joined(s, t) == s \o t

LEMMA JoinedFacts ==
  ASSUME NEW S, NEW s \in Seq(S), NEW t \in Seq(S), NEW u \in Seq(S)
  PROVE  Joined(Joined(s, t), u) = Joined(s, Joined(t, u))
BY ConcatAssociative DEF Joined

\* Parts of a text that meet are one part.
LEMMA PartsMeet ==
  ASSUME NEW S, NEW text \in Seq(S), NEW a \in Nat, NEW b \in Nat, NEW c \in Nat,
         a <= b, b <= c, c <= Len(text)
  PROVE  /\ Part(text, a, b) \in Seq(S)
         /\ Joined(Part(text, a, b), Part(text, b, c)) = Part(text, a, c)
         /\ Part(text, a, a) = <<>>
<1>1. Len(text) \in Nat /\ \A i \in 1 .. Len(text) : text[i] \in S
  BY LenProperties, ElementOfSeq
<1>2. \A i \in a + 1 .. b : text[i] \in S
  BY <1>1
<1>3. Part(text, a, b) \in Seq(S)
  BY <1>2, SubSeqProperties DEF Part
<1>4. a + 1 \in 1 .. Len(text) + 1 /\ b \in (a + 1) - 1 .. Len(text) /\ c \in b .. Len(text)
  BY <1>1
<1>5. SubSeq(text, a + 1, b) \o SubSeq(text, b + 1, c) = SubSeq(text, a + 1, c)
  BY <1>4, ConcatAdjacentSubSeq
<1>6. SubSeq(text, a + 1, a) = <<>>
  BY SubSeqEmpty
<1> QED BY <1>3, <1>5, <1>6 DEF Part, Joined

LEMMA NoEditsPutOut ==
  ASSUME NEW text \in Seq(Characters)
  PROVE  EditsPutOut(<<>>, text, 0, <<>>)
<1>1. <<>> \in Seq(Edit) /\ Len(<<>>) = 0 /\ Len(text) \in Nat
  BY LenProperties, EmptySeq
<1>2. \E g : IsPatching(g, text, <<>>)
  <2>1. IsPatching([i \in 0 .. 0 |-> NoPatch], text, <<>>)
    BY <1>1 DEF IsPatching
  <2> QED BY <2>1
<1>3. ASSUME NEW g, IsPatching(g, text, <<>>) PROVE PutsOut(g[Len(<<>>)], text, 0, <<>>)
  <2>1. g[0] = NoPatch
    BY <1>1, <1>3 DEF IsPatching
  <2>2. Part(text, 0, 0) = <<>> /\ <<>> \in Seq(Characters)
    BY <1>1, PartsMeet, EmptySeq
  <2>3. <<>> \o <<>> = <<>>
    BY EmptySeq, ConcatEmptySeq
  <2>4. NoPatch.at = 0 /\ NoPatch.out = <<>>
    BY DEF NoPatch
  <2>5. PutsOut(NoPatch, text, 0, <<>>)
    BY <2>2, <2>3, <2>4 DEF PutsOut
  <2> QED BY <1>1, <2>1, <2>5
<1> QED BY <1>1, <1>2, <1>3 DEF EditsPutOut

\* Without a further edit the text goes on as it is.
LEMMA TextGoesOn ==
  ASSUME NEW text \in Seq(Characters), NEW es, NEW result, NEW a \in Nat, NEW b \in Nat,
         a <= b, b <= Len(text), EditsPutOut(es, text, a, result)
  PROVE  EditsPutOut(es, text, b, result \o Part(text, a, b))
<1>1. ASSUME NEW patch, PutsOut(patch, text, a, result)
      PROVE  PutsOut(patch, text, b, result \o Part(text, a, b))
  <2>1. patch.at \in Nat /\ patch.at <= a /\ patch.out \in Seq(Characters)
    BY <1>1 DEF PutsOut
  <2>2. Len(text) \in Nat /\ a <= Len(text)
    BY LenProperties
  <2> DEFINE at == patch.at
             out == patch.out
  <2> HIDE DEF at, out
  <2>3. at \in Nat /\ at <= a /\ out \in Seq(Characters)
    BY <2>1 DEF at, out
  <2>4. Part(text, at, a) \in Seq(Characters)
    BY <2>2, <2>3, PartsMeet
  <2>5. Joined(Part(text, at, a), Part(text, a, b)) = Part(text, at, b)
    BY <2>2, <2>3, PartsMeet
  <2>6. Part(text, a, b) \in Seq(Characters)
    BY PartsMeet
  <2>7. Joined(Joined(out, Part(text, at, a)), Part(text, a, b)) =
          Joined(out, Joined(Part(text, at, a), Part(text, a, b)))
    BY <2>3, <2>4, <2>6, JoinedFacts
  <2>8. patch.out \o Part(text, patch.at, b) = result \o Part(text, a, b)
    BY <1>1, <2>5, <2>7 DEF PutsOut, Joined, at, out
  <2> QED BY <2>1, <2>8 DEF PutsOut
<1> QED BY <1>1 DEF EditsPutOut

\* A further edit puts its text in the place of its part.
LEMMA EditPutsIn ==
  ASSUME NEW text \in Seq(Characters), NEW es, NEW result, NEW a \in Nat, NEW b \in Nat,
         NEW new \in Seq(Characters),
         a <= b, b <= Len(text), EditsPutOut(es, text, a, result)
  PROVE  EditsPutOut(Append(es, EditAt(text, a, b, new)), text, b, result \o new)
<1> DEFINE e == EditAt(text, a, b, new)
           longer == Append(es, e)
<1>1. Len(text) \in Nat /\ a \in 0 .. Len(text) /\ b \in 0 .. Len(text)
  BY LenProperties
<1>2. PositionAt(text, a) \in [line : Nat, character : Nat]
  BY <1>1, PositionOf
<1>3. PositionAt(text, b) \in [line : Nat, character : Nat]
  BY <1>1, PositionOf
<1>4. /\ e \in Edit /\ e.start = PositionAt(text, a) /\ e.end = PositionAt(text, b)
      /\ e.newText = new
  BY <1>2, <1>3 DEF Edit, EditAt
<1>5. es \in Seq(Edit)
  BY DEF EditsPutOut
<1> HIDE DEF e
<1>6. /\ longer \in Seq(Edit) /\ Len(longer) = Len(es) + 1 /\ Len(es) \in Nat
      /\ longer[Len(es) + 1] = e /\ \A i \in 1 .. Len(es) : longer[i] = es[i]
  BY <1>4, <1>5, AppendProperties, LenProperties
<1> HIDE DEF longer
<1>7. OffsetAt(text, e.start) = a /\ OffsetAt(text, e.end) = b
  BY <1>1, <1>4, OffsetOfPosition
<1>8. ASSUME NEW patch, PutsOut(patch, text, a, result)
      PROVE  PutsOut(Patched(text, patch, e), text, b, result \o new)
  <2>1. Patched(text, patch, e).out = result \o new
    BY <1>4, <1>7, <1>8 DEF PutsOut, Patched
  <2>2. Patched(text, patch, e).at = b
    BY <1>7 DEF Patched
  <2>3. result \in Seq(Characters)
    <3>1. patch.at \in Nat /\ patch.at <= a /\ patch.out \in Seq(Characters) /\ a <= Len(text)
      BY <1>1, <1>8 DEF PutsOut
    <3>2. Part(text, patch.at, a) \in Seq(Characters)
      BY <3>1, PartsMeet
    <3> QED BY <1>8, <3>1, <3>2, ConcatProperties DEF PutsOut
  <2>4. result \o new \in Seq(Characters)
    BY <2>3, ConcatProperties
  <2>5. Part(text, b, b) = <<>>
    BY PartsMeet
  <2>6. (result \o new) \o <<>> = result \o new
    BY <2>4, ConcatEmptySeq
  <2> QED BY <2>1, <2>2, <2>4, <2>5, <2>6 DEF PutsOut
<1>9. \E h : IsPatching(h, text, longer)
  <2>1. PICK g : IsPatching(g, text, es)
    BY DEF EditsPutOut
  <2> DEFINE h == [i \in 0 .. Len(longer) |->
                     IF i = Len(longer) THEN Patched(text, g[Len(es)], e) ELSE g[i]]
  <2>2. \A i \in 0 .. Len(es) : g[i] = IF i = 0 THEN NoPatch ELSE Patched(text, g[i - 1], es[i])
    BY <2>1 DEF IsPatching
  <2>3. ASSUME NEW i \in 0 .. Len(longer)
        PROVE  h[i] = IF i = 0 THEN NoPatch ELSE Patched(text, h[i - 1], longer[i])
    <3>1. CASE i = Len(longer)
      <4>1. h[i] = Patched(text, g[Len(es)], e) /\ i # 0 /\ i - 1 = Len(es)
        BY <1>6, <3>1
      <4>2. h[Len(es)] = g[Len(es)]
        BY <1>6
      <4>3. longer[i] = e
        BY <1>6, <3>1
      <4> HIDE DEF h
      <4> QED BY <4>1, <4>2, <4>3
    <3>2. CASE i # Len(longer)
      <4>1. i \in 0 .. Len(es) /\ h[i] = g[i]
        BY <1>6, <3>2
      <4>2. i # 0 => h[i - 1] = g[i - 1] /\ longer[i] = es[i]
        BY <1>6, <4>1
      <4> QED BY <2>2, <4>1, <4>2
    <3> QED BY <3>1, <3>2
  <2>4. h = [i \in 0 .. Len(longer) |->
               IF i = 0 THEN NoPatch ELSE Patched(text, h[i - 1], longer[i])]
    BY <2>3
  <2> QED BY <2>4 DEF IsPatching
<1>10. ASSUME NEW h, IsPatching(h, text, longer)
       PROVE  PutsOut(h[Len(longer)], text, b, result \o new)
  <2> DEFINE g == [i \in 0 .. Len(es) |-> h[i]]
  <2>1. \A i \in 0 .. Len(longer) :
          h[i] = IF i = 0 THEN NoPatch ELSE Patched(text, h[i - 1], longer[i])
    BY <1>10 DEF IsPatching
  <2>2. ASSUME NEW i \in 0 .. Len(es)
        PROVE  g[i] = IF i = 0 THEN NoPatch ELSE Patched(text, g[i - 1], es[i])
    <3>0. i \in 0 .. Len(longer)
      BY <1>6
    <3>1. h[i] = IF i = 0 THEN NoPatch ELSE Patched(text, h[i - 1], longer[i])
      BY <2>1, <3>0, Zenon
    <3>2. i # 0 => g[i - 1] = h[i - 1] /\ longer[i] = es[i]
      BY <1>6
    <3> QED BY <3>1, <3>2
  <2>3. g = [i \in 0 .. Len(es) |-> IF i = 0 THEN NoPatch ELSE Patched(text, g[i - 1], es[i])]
    BY <2>2
  <2>4. IsPatching(g, text, es)
    BY <2>3 DEF IsPatching
  <2>5. PutsOut(g[Len(es)], text, a, result)
    <3> HIDE DEF g
    <3> QED BY <2>4 DEF EditsPutOut
  <2>6. g[Len(es)] = h[Len(es)]
    BY <1>6
  <2>7. h[Len(longer)] = Patched(text, h[Len(es)], e)
    <3>1. Len(longer) # 0 /\ Len(longer) - 1 = Len(es) /\ Len(longer) \in 0 .. Len(longer)
      BY <1>6
    <3> QED BY <1>6, <2>1, <3>1
  <2> QED BY <1>8, <2>5, <2>6, <2>7
<1> QED BY <1>6, <1>9, <1>10 DEF EditsPutOut, longer, e

\* What the editor makes of the edits is what they put out.
LEMMA AppliedPutsOut ==
  ASSUME NEW text \in Seq(Characters), NEW es, NEW result, NEW a \in Nat,
         a <= Len(text), EditsPutOut(es, text, a, result)
  PROVE  Applied(text, es) = result \o Part(text, a, Len(text))
<1>1. Len(text) \in Nat
  BY LenProperties
<1>2. EditsPutOut(es, text, Len(text), result \o Part(text, a, Len(text)))
  BY <1>1, TextGoesOn
<1>3. Patches(text, es) = CHOOSE g : IsPatching(g, text, es)
  BY DEF Patches, IsPatching, NoPatch
<1>4. IsPatching(CHOOSE g : IsPatching(g, text, es), text, es)
  BY <1>2, Zenon DEF EditsPutOut
<1>5. PutsOut(Patches(text, es)[Len(es)], text, Len(text), result \o Part(text, a, Len(text)))
  BY <1>2, <1>3, <1>4 DEF EditsPutOut
<1> QED BY <1>5 DEF Applied, PutsOut

LEMMA EditsStart == EditsInit => EditInv
<1> SUFFICES ASSUME EditsInit PROVE EditInv
  OBVIOUS
<1>1. original \in Seq(Characters)
  BY TextsAssumption DEF EditsInit
<1>2. position = 0 /\ edits = <<>> /\ expected = <<>> /\ range \in Selections(original)
  BY DEF EditsInit
<1>3. position \in 0 .. Len(original) /\ expected \in Seq(Characters)
  BY <1>1, <1>2, LenProperties, EmptySeq
<1>4. range = NoRange \/ \E a, b \in 0 .. Len(original) : a <= b /\ range = Between(original, a, b)
  BY <1>1, <1>2, SelectionOffsets
<1>5. EditsPutOut(edits, original, position, expected)
  BY <1>1, <1>2, NoEditsPutOut
<1> QED BY <1>1, <1>3, <1>4, <1>5 DEF EditInv

LEMMA EqualKeeps == ASSUME EditInv, NEW n \in 1 .. Len(original), Equal(n) PROVE EditInv'
<1>1. original \in Seq(Characters) /\ Len(original) \in Nat /\ expected \in Seq(Characters)
  BY LenProperties DEF EditInv
<1>2. /\ position \in Nat /\ position + n \in Nat /\ position <= position + n
      /\ position + n <= Len(original)
  BY <1>1 DEF EditInv, Equal
<1>3. Part(original, position, position + n) \in Seq(Characters)
  BY <1>1, <1>2, PartsMeet
<1>4. /\ position' = position + n /\ expected' = expected \o Part(original, position, position + n)
      /\ UNCHANGED <<original, document, range, edits>>
  BY DEF Equal
<1>5. position' \in 0 .. Len(original') /\ expected' \in Seq(Characters)
  BY <1>1, <1>2, <1>3, <1>4, ConcatProperties
<1>6. document = original =>
        EditsPutOut(edits, original, position + n, expected \o Part(original, position, position + n))
  BY <1>1, <1>2, TextGoesOn DEF EditInv
<1> QED BY <1>1, <1>4, <1>5, <1>6 DEF EditInv

\* What Delete and Insert have in common: an edit for the part up to an offset.
LEMMA PushKeeps ==
  ASSUME EditInv, NEW b \in Nat, position <= b, b <= Len(original), NEW new \in Seq(Characters),
         Push(EditAt(document, position, b, new)),
         position' = b, UNCHANGED <<original, document, range>>,
         expected' = IF Selected(position) THEN expected \o new
                                           ELSE expected \o Part(original, position, b)
  PROVE  EditInv'
<1> DEFINE e == EditAt(document, position, b, new)
<1>1. /\ original \in Seq(Characters) /\ Len(original) \in Nat /\ expected \in Seq(Characters)
      /\ position \in Nat /\ position \in 0 .. Len(original)
  BY LenProperties DEF EditInv
<1>2. Part(original, position, b) \in Seq(Characters)
  BY <1>1, PartsMeet
<1>3. position' \in 0 .. Len(original') /\ expected' \in Seq(Characters)
  BY <1>1, <1>2, ConcatProperties
<1>4. edits' = IF Wanted(e.start) THEN Append(edits, e) ELSE edits
  BY DEF Push
<1>5. e.start = PositionAt(document, position)
  BY DEF EditAt
<1>6. ASSUME document = original PROVE EditsPutOut(edits', original, b, expected')
  <2>1. Wanted(e.start) <=> Selected(position)
    BY <1>1, <1>5, <1>6, WantedIsSelected DEF EditInv
  <2>2. EditsPutOut(edits, original, position, expected)
    BY <1>6 DEF EditInv
  <2>3. CASE Selected(position)
    <3>1. EditsPutOut(Append(edits, EditAt(original, position, b, new)), original, b, expected \o new)
      BY <1>1, <2>2, EditPutsIn
    <3> QED BY <1>4, <1>6, <2>1, <2>3, <3>1
  <2>4. CASE ~Selected(position)
    <3>1. EditsPutOut(edits, original, b, expected \o Part(original, position, b))
      BY <1>1, <2>2, TextGoesOn
    <3> QED BY <1>4, <2>1, <2>4, <3>1
  <2> QED BY <2>3, <2>4
<1> QED BY <1>1, <1>3, <1>6 DEF EditInv

LEMMA DeleteKeeps == ASSUME EditInv, NEW n \in 1 .. Len(original), Delete(n) PROVE EditInv'
<1>1. Len(original) \in Nat /\ position \in Nat /\ expected \in Seq(Characters)
  BY LenProperties DEF EditInv
<1>2. position + n \in Nat /\ position <= position + n /\ position + n <= Len(original)
  BY <1>1 DEF Delete
<1>3. Push(EditAt(document, position, position + n, <<>>))
  BY DEF Delete, EditAt
<1>4. <<>> \in Seq(Characters) /\ expected \o <<>> = expected
  BY <1>1, EmptySeq, ConcatEmptySeq
<1>5. /\ position' = position + n /\ UNCHANGED <<original, document, range>>
      /\ expected' = IF Selected(position) THEN expected \o <<>>
                     ELSE expected \o Part(original, position, position + n)
  BY <1>4 DEF Delete
<1> QED BY <1>2, <1>3, <1>4, <1>5, PushKeeps

LEMMA InsertKeeps == ASSUME EditInv, NEW text \in Inserts, Insert(text) PROVE EditInv'
<1>1. /\ original \in Seq(Characters) /\ position \in Nat /\ position <= Len(original)
      /\ expected \in Seq(Characters) /\ text \in Seq(Characters)
  BY TextsAssumption, LenProperties DEF EditInv
<1>2. Push(EditAt(document, position, position, text))
  BY DEF Insert, EditAt
<1>3. expected \o Part(original, position, position) = expected
  BY <1>1, PartsMeet, ConcatEmptySeq
<1>4. /\ position' = position /\ UNCHANGED <<original, document, range>>
      /\ expected' = IF Selected(position) THEN expected \o text
                     ELSE expected \o Part(original, position, position)
  BY <1>3 DEF Insert
<1> QED BY <1>1, <1>2, <1>4, PushKeeps

LEMMA EditKeeps == EditInv /\ [EditsNext]_editsVars => EditInv'
<1> SUFFICES ASSUME EditInv, [EditsNext]_editsVars PROVE EditInv'
  OBVIOUS
<1>1. CASE UNCHANGED editsVars
  BY <1>1 DEF editsVars, EditInv
<1>2. CASE EditsNext
  BY <1>2, EqualKeeps, DeleteKeeps, InsertKeeps DEF EditsNext
<1> QED BY <1>1, <1>2

LEMMA InvReproduces == EditInv => EditsReproduce
<1> SUFFICES ASSUME EditInv, document = original
             PROVE  Applied(original, edits) = expected \o Part(original, position, Len(original))
  BY DEF EditsReproduce
<1>1. original \in Seq(Characters) /\ position \in Nat /\ position <= Len(original)
  BY LenProperties DEF EditInv
<1> QED BY <1>1, AppliedPutsOut DEF EditInv

(* The order of the edits, whatever the document has become.               *)

Clamped(text, o) == IF o <= Len(text) THEN o ELSE Len(text)

OrderInv ==
  /\ document \in Seq(Characters)
  /\ position \in Nat
  /\ edits \in Seq(Edit)
  /\ \A i \in 1 .. Len(edits) :
       /\ OffsetAt(document, edits[i].end) \in Nat
       /\ OffsetAt(document, edits[i].end) <= Clamped(document, position)
  /\ EditsInOrder

\* An offset behind the text is that of its end.
LEMMA OffsetClamped ==
  ASSUME NEW S, NEW text \in Seq(S), NEW o \in Nat
  PROVE  /\ PositionAt(text, o) \in [line : Nat, character : Nat]
         /\ OffsetAt(text, PositionAt(text, o)) = Clamped(text, o)
<1> DEFINE c == Clamped(text, o)
<1>1. Len(text) \in Nat
  BY LenProperties
<1>2. c \in 0 .. Len(text)
  BY <1>1 DEF Clamped
<1>3. ASSUME NEW p \in Nat PROVE Min({p, Len(text)}) = Clamped(text, p)
  <2> DEFINE both == {p, Len(text)}
  <2>1. both \in SUBSET Nat /\ both # {}
    BY <1>1
  <2>2. Min(both) \in both /\ \A k \in both : Min(both) <= k
    <3> HIDE DEF both
    <3> QED BY <2>1, MinOfNats
  <2> QED BY <1>1, <2>2 DEF Clamped
<1>4. c \in Nat /\ Clamped(text, c) = c
  BY <1>1, <1>2 DEF Clamped
<1>5. Min({o, Len(text)}) = c /\ Min({c, Len(text)}) = c
  BY <1>3, <1>4
<1> HIDE DEF c
<1>6. PositionAt(text, o) = PositionAt(text, c)
  BY <1>5 DEF PositionAt
<1>7. OffsetAt(text, PositionAt(text, c)) = c /\ PositionAt(text, c) \in [line : Nat, character : Nat]
  BY <1>2, OffsetOfPosition, PositionOf
<1> QED BY <1>6, <1>7 DEF c

LEMMA OrderStarts == EditsInit => OrderInv
<1> SUFFICES ASSUME EditsInit PROVE OrderInv
  OBVIOUS
<1>1. document \in Seq(Characters) /\ position = 0 /\ edits = <<>>
  BY TextsAssumption DEF EditsInit
<1>2. Len(edits) = 0
  BY <1>1
<1> QED BY <1>1, <1>2 DEF OrderInv, EditsInOrder

\* The next diff is further on.
LEMMA OrderMovesOn ==
  ASSUME OrderInv, NEW b \in Nat, position <= b, position' = b, UNCHANGED <<document, edits>>
  PROVE  OrderInv'
<1>1. Len(document) \in Nat /\ position \in Nat
  BY LenProperties DEF OrderInv
<1>2. Clamped(document, position) <= Clamped(document, b) /\ Clamped(document, position) \in Nat
  BY <1>1 DEF Clamped
<1>3. Clamped(document, b) \in Nat
  BY <1>1 DEF Clamped
<1>4. ASSUME NEW i \in 1 .. Len(edits) PROVE OffsetAt(document, edits[i].end) <= Clamped(document, b)
  BY <1>2, <1>3 DEF OrderInv
<1> QED BY <1>4 DEF OrderInv, EditsInOrder

LEMMA OrderPushed ==
  ASSUME OrderInv, NEW b \in Nat, position <= b, NEW new \in Seq(Characters), position' = b,
         Push(EditAt(document, position, b, new)), UNCHANGED document
  PROVE  OrderInv'
<1> DEFINE e == EditAt(document, position, b, new)
<1>1. CASE edits' = edits
  BY <1>1, OrderMovesOn
<1>2. CASE edits' = Append(edits, e)
  <2>1. Len(document) \in Nat /\ position \in Nat /\ document \in Seq(Characters)
    BY LenProperties DEF OrderInv
  <2>2. /\ PositionAt(document, position) \in [line : Nat, character : Nat]
        /\ PositionAt(document, b) \in [line : Nat, character : Nat]
        /\ OffsetAt(document, PositionAt(document, position)) = Clamped(document, position)
        /\ OffsetAt(document, PositionAt(document, b)) = Clamped(document, b)
    BY <2>1, OffsetClamped
  <2>3. /\ Clamped(document, position) \in Nat /\ Clamped(document, b) \in Nat
        /\ Clamped(document, position) <= Clamped(document, b)
    BY <2>1 DEF Clamped
  <2>4. /\ e \in Edit /\ OffsetAt(document, e.start) = Clamped(document, position)
        /\ OffsetAt(document, e.end) = Clamped(document, b)
    BY <2>2 DEF Edit, EditAt
  <2> HIDE DEF e
  <2>5. edits \in Seq(Edit) /\ Len(edits) \in Nat
    BY LenProperties DEF OrderInv
  <2>6. /\ edits' \in Seq(Edit) /\ Len(edits') = Len(edits) + 1
        /\ edits'[Len(edits) + 1] = e /\ \A i \in 1 .. Len(edits) : edits'[i] = edits[i]
    BY <1>2, <2>4, <2>5, AppendProperties
  <2>7. ASSUME NEW i \in 1 .. Len(edits')
        PROVE  /\ OffsetAt(document, edits'[i].end) \in Nat
               /\ OffsetAt(document, edits'[i].end) <= Clamped(document, b)
    <3>1. CASE i = Len(edits) + 1
      BY <2>3, <2>4, <2>6, <3>1
    <3>2. CASE i \in 1 .. Len(edits)
      <4>1. /\ OffsetAt(document, edits[i].end) \in Nat
            /\ OffsetAt(document, edits[i].end) <= Clamped(document, position)
        BY <3>2 DEF OrderInv
      <4>2. edits'[i] = edits[i]
        BY <2>6, <3>2
      <4> QED BY <2>3, <4>1, <4>2
    <3> QED BY <2>5, <2>6, <3>1, <3>2
  <2>8. ASSUME NEW i \in 1 .. Len(edits') - 1
        PROVE  OffsetAt(document, edits'[i].end) <= OffsetAt(document, edits'[i + 1].start)
    <3>1. i \in 1 .. Len(edits) /\ edits'[i] = edits[i]
      BY <2>5, <2>6
    <3>2. CASE i = Len(edits)
      BY <2>4, <2>6, <3>1, <3>2 DEF OrderInv
    <3>3. CASE i # Len(edits)
      <4>1. i \in 1 .. Len(edits) - 1 /\ i + 1 \in 1 .. Len(edits)
        BY <2>5, <3>1, <3>3
      <4>2. edits'[i + 1] = edits[i + 1]
        BY <2>6, <4>1
      <4> QED BY <3>1, <4>1, <4>2 DEF OrderInv, EditsInOrder
    <3> QED BY <3>2, <3>3
  <2>9. EditsInOrder'
    BY <2>8 DEF EditsInOrder
  <2> QED BY <2>1, <2>6, <2>7, <2>9 DEF OrderInv
<1> QED BY <1>1, <1>2 DEF Push

LEMMA OrderKept == EditInv /\ OrderInv /\ [EditsNext]_editsVars => OrderInv'
<1> SUFFICES ASSUME EditInv, OrderInv, [EditsNext]_editsVars PROVE OrderInv'
  OBVIOUS
<1>1. Len(original) \in Nat /\ position \in Nat
  BY LenProperties DEF EditInv
<1>2. ASSUME NEW n \in 1 .. Len(original), Equal(n) PROVE OrderInv'
  <2>1. position + n \in Nat /\ position <= position + n
    BY <1>1
  <2> QED BY <1>2, <2>1, OrderMovesOn DEF Equal
<1>3. ASSUME NEW n \in 1 .. Len(original), Delete(n) PROVE OrderInv'
  <2>1. position + n \in Nat /\ position <= position + n /\ <<>> \in Seq(Characters)
    BY <1>1, EmptySeq
  <2>2. Push(EditAt(document, position, position + n, <<>>))
    BY <1>3 DEF Delete, EditAt
  <2> QED BY <1>3, <2>1, <2>2, OrderPushed DEF Delete
<1>4. ASSUME NEW text \in Inserts, Insert(text) PROVE OrderInv'
  <2>1. text \in Seq(Characters) /\ position <= position
    BY <1>1, TextsAssumption
  <2>2. Push(EditAt(document, position, position, text))
    BY <1>4 DEF Insert, EditAt
  <2> QED BY <1>1, <1>4, <2>1, <2>2, OrderPushed DEF Insert
<1>5. CASE UNCHANGED editsVars
  BY <1>5 DEF editsVars, OrderInv, EditsInOrder
<1> QED BY <1>2, <1>3, <1>4, <1>5 DEF EditsNext

-----------------------------------------------------------------------------
(* Theorems.                                                               *)

\* The inductive invariant of the process, its stream and the request.
THEOREM FormattingInvariant == Spec => []FormatInv
<1>1. Init => FormatInv
  BY FormatStarts DEF Init
<1>2. [Next]_featureVars => [FormatNext]_formatVars
  BY DEF Next, FormattingStep, EditsStep, FoldingStep, OutlineStep, featureVars
<1>3. FormatInv /\ [Next]_featureVars => FormatInv'
  BY <1>2, FormatKeeps
<1>4. QED
  BY <1>1, <1>3, PTL DEF Spec

\* Type correctness of a request for formatting and its process (Formatter.ts,
\* spawn.ts), for all exit codes and bounds.
THEOREM TypeCorrect == Spec => []TypeOK
<1>1. FormatInv => TypeOK
  BY DEF FormatInv, SpawnInv, RequestTypeOK, TypeOK
<1>2. QED
  BY <1>1, FormattingInvariant, PTL

\* A stream that ends by the exit code has passed on all that was written, and
\* nothing can be written any more (spawn.ts:123-132).
THEOREM StreamsComplete == Spec => []OutputComplete
<1>1. FormatInv => OutputComplete
  BY InvComplete DEF FormatInv
<1>2. QED
  BY <1>1, FormattingInvariant, PTL

\* Whatever ends the stream, the process is over or has been killed
\* (spawn.ts:134-143).
THEOREM NoProcessEverLeft == Spec => []NoProcessLeft
<1>1. FormatInv => NoProcessLeft
  BY DEF FormatInv, SpawnInv
<1>2. QED
  BY <1>1, FormattingInvariant, PTL

\* Edits are only made from the whole output of a process that has let go of
\* its pipes (RuboCop.ts:33, BaseFormatter.ts:72).
THEOREM EditsAlwaysOfWholeOutput == Spec => []EditsOfWholeOutput
<1>1. FormatInv => EditsOfWholeOutput
  BY InvComplete DEF FormatInv, Served, OutputComplete, EditsOfWholeOutput
<1>2. QED
  BY <1>1, FormattingInvariant, PTL

\* Folding ranges are nested or apart, for all documents, under the three
\* circumstances' absence (FoldingRangeAnalyzer.ts:168, 212, 220).
THEOREM FoldsAlwaysNest == Spec => []FoldsNest
<1>1. Init => FoldInv
  BY FoldStarts DEF Init
<1>2. [Next]_featureVars => [FoldNext]_foldVars
  BY DEF Next, FormattingStep, EditsStep, FoldingStep, OutlineStep, featureVars
<1>3. FoldInv /\ [Next]_featureVars => FoldInv'
  BY <1>2, FoldKeeps
<1>4. QED
  BY <1>1, <1>3, InvNests, PTL DEF Spec

\* Unless constants are chained, a symbol belongs to a wrapper around it, and to
\* none outside the innermost definition around it, for documents and trees of
\* any size (DocumentSymbolAnalyzer.ts:28, 37-46).
THEOREM SymbolsAlwaysNested == Spec => []SymbolsNested
<1>1. Init => WalkInv
  BY WalkStarts DEF Init
<1>2. [Next]_featureVars => [WalkNext]_walkVars
  BY DEF Next, FormattingStep, EditsStep, FoldingStep, OutlineStep, featureVars
<1>3. WalkInv /\ [Next]_featureVars => WalkInv'
  BY <1>2, WalkKeeps
<1>4. WalkInv => SymbolsNested
  BY DEF WalkInv, Nested, SymbolsNested
<1>5. QED
  BY <1>1, <1>3, <1>4, PTL DEF Spec
-----------------------------------------------------------------------------

(* Whatever the diffs and the selection are, the edits turn the captured   *)
(* text into the output inside the selection and leave the rest alone:     *)
(* EditsReproduce (BaseFormatter.ts:92-133).                               *)
THEOREM EditsAlwaysReproduce == Spec => []EditsReproduce
<1>1. Init => EditInv
  BY EditsStart DEF Init
<1>2. EditInv /\ [Next]_featureVars => EditInv'
  <2> SUFFICES ASSUME EditInv, [Next]_featureVars PROVE EditInv'
    OBVIOUS
  <2>1. [EditsNext]_editsVars
    BY DEF Next, FormattingStep, EditsStep, FoldingStep, OutlineStep, featureVars
  <2> QED BY <2>1, EditKeeps
<1>3. EditInv => EditsReproduce
  BY InvReproduces
<1> QED BY <1>1, <1>2, <1>3, PTL DEF Spec

(* The edits come in order and do not overlap, also in a document that has *)
(* changed since the formatter was started: the editor never refuses them  *)
(* (BaseFormatter.ts:101-129).                                             *)
THEOREM EditsAlwaysInOrder == Spec => []EditsInOrder
<1>1. Init => EditInv /\ OrderInv
  BY EditsStart, OrderStarts DEF Init
<1>2. EditInv /\ OrderInv /\ [Next]_featureVars => EditInv' /\ OrderInv'
  <2> SUFFICES ASSUME EditInv, OrderInv, [Next]_featureVars PROVE EditInv' /\ OrderInv'
    OBVIOUS
  <2>1. [EditsNext]_editsVars
    BY DEF Next, FormattingStep, EditsStep, FoldingStep, OutlineStep, featureVars
  <2> QED BY <2>1, EditKeeps, OrderKept
<1>3. OrderInv => EditsInOrder
  BY DEF OrderInv
<1> QED BY <1>1, <1>2, <1>3, PTL DEF Spec
=============================================================================
