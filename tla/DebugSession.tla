----------------------------- MODULE DebugSession -----------------------------
(***************************************************************************)
(* A debug session from the client's point of view                         *)
(* (packages/vscode-ruby-debugger/src/main.ts): stops and the automatic    *)
(* stepping through skipFiles and finishFiles, the selected stack frame    *)
(* that the adapter tracks in _frameId, and the requests whose answer      *)
(* depends on it.                                                          *)
(*                                                                         *)
(* The adapter and the debugger talk over the connection of RubyProcess:   *)
(* commands arrive in the order they were sent, and each promise is        *)
(* resolved with its own reply (RubyProcess_proofs), so a reply carries    *)
(* here what the continuation of its request closes over.  One thread of   *)
(* Ruby is debugged (main.ts:490).  Left out: pauseRequest (541-544),      *)
(* which sends a command without an answer; it can only make a running     *)
(* program stop, and Halt lets that happen at any time.                    *)
(***************************************************************************)
EXTENDS Naturals, Sequences, FiniteSets

CONSTANTS
    Files,        \* the kinds of file the program runs through
    MaxDepth,     \* bound on the depth of its stack
    MaxStops,     \* bound on its stops
    MaxRequests,  \* bound on the requests of the client
    StopOnEntry,  \* args.stopOnEntry of a launch; FALSE for an attach
    Editing       \* source files may be shorter than what the program loaded

\* Which regular expressions of the configuration a file matches; "rdbg" is a
\* file of the debugger itself.
Kinds == {"plain", "skip", "finish", "both", "rdbg"}

ASSUME FilesAssumption  == Files \subseteq Kinds
ASSUME BoundAssumption  == MaxDepth \in Nat /\ MaxStops \in Nat /\ MaxRequests \in Nat
ASSUME ChoiceAssumption == StopOnEntry \in BOOLEAN /\ Editing \in BOOLEAN

VARIABLES
    (* the adapter *)
    frameId,   \* _frameId
    first,     \* _firstSuspendReceived
    closed,    \* rubyProcess.state is closed
    (* the client *)
    view,      \* what the client believes of the program
    frames,    \* stack frames of this stop it can ask about
    open,      \* its requests whose continuation has still to run
    lost,      \* its stack traces whose continuation threw: never answered
    issued,    \* its requests so far
    reported,  \* the StoppedEvents it got
    answers,   \* the answers it got: the frame meant and the frame used
    overlapped, \* it has not always waited for the previous answer
    hidden,    \* a stack trace has hidden the current frame
    (* the connection and the debugger *)
    cmds,      \* commands on their way to the debugger
    msgs,      \* replies and events on their way back
    run,       \* "waiting", "running", "stopped" or "gone"
    stack,     \* file of every frame of the stopped program, top first
    selected,  \* the frame commands refer to
    stops      \* stops so far

adapterVars  == <<frameId, first, closed>>
clientVars   == <<view, frames, open, lost, issued, reported, answers, overlapped, hidden>>
debuggerVars == <<run, stack, selected, stops>>
vars == <<adapterVars, clientVars, cmds, msgs, debuggerVars>>

SkipFiles    == {"skip", "both"}      \* stackFrameGetsSpecialTreatment
FinishFiles  == {"finish", "both"}

Resumes == {"start", "go", "step", "finish"}
Command == [op : Resumes \cup {"where", "frame", "locals", "eval", "quit"}, tag : Nat]
Stacks  == UNION {[1..n -> Files] : n \in 1..MaxDepth}

Init ==
    /\ frameId = 0 /\ first = FALSE /\ closed = FALSE
    /\ view = "starting" /\ frames = {} /\ open = 0 /\ lost = 0 /\ issued = 0
    /\ reported = <<>> /\ answers = {} /\ overlapped = FALSE /\ hidden = FALSE
    /\ cmds = <<>> /\ msgs = <<>>
    /\ run = "waiting" /\ stack = <<>> /\ selected = 0 /\ stops = 0

-----------------------------------------------------------------------------
(* Requests of the client. *)

\* What is sent to a debugger that is gone, or after the connection was
\* closed, is never executed.
Send(ops) == cmds' = IF run = "gone" \/ closed THEN cmds ELSE cmds \o ops

Cmd(op, tag) == <<[op |-> op, tag |-> tag]>>

\* configurationDoneRequest
ConfigurationDone ==
    /\ view = "starting"
    /\ view' = "running"
    /\ Send(Cmd("start", 0))
    /\ UNCHANGED <<adapterVars, frames, open, lost, issued, reported, answers,
                   overlapped, hidden, msgs, debuggerVars>>

\* A request about the stopped program.
Ask ==
    /\ view = "stopped" /\ issued < MaxRequests
    /\ overlapped' = (overlapped \/ open > 0)
    /\ open' = open + 1
    /\ issued' = issued + 1
    /\ UNCHANGED <<first, closed, view, frames, lost, reported, answers, hidden,
                   msgs, debuggerVars>>

StackTrace == Ask /\ Send(Cmd("where", Len(reported))) /\ UNCHANGED frameId

\* Mutant of Scopes: switchFrame does not note the frame it selects.
ScopesWithoutNote(f) ==
    /\ Ask
    /\ \/ /\ f = frameId
          /\ Send(Cmd("locals", f))
       \/ /\ f # frameId
          /\ Send(Cmd("frame", f) \o Cmd("locals", f))
    /\ UNCHANGED frameId

\* switchFrame, then the variables of the selected frame.
Scopes(f) ==
    /\ Ask
    /\ \/ /\ f = frameId
          /\ Send(Cmd("locals", f))
       \/ /\ f # frameId
          /\ Send(Cmd("frame", f) \o Cmd("locals", f))
    /\ frameId' = f

Evaluate == Ask /\ Send(Cmd("eval", 1)) /\ UNCHANGED frameId

\* continue, next, stepIn and stepOut.
Resume ==
    /\ view = "stopped"
    /\ overlapped' = (overlapped \/ open > 0)
    /\ view' = "running" /\ frames' = {}
    /\ Send(Cmd("go", 0))
    /\ UNCHANGED <<adapterVars, open, lost, issued, reported, answers, hidden,
                   msgs, debuggerVars>>

\* Mutant of Disconnect: a session that was given up is not told to quit.
DisconnectUnlessTerminated ==
    /\ view # "left"
    /\ view' = "left" /\ frames' = {}
    /\ \/ view # "terminated" /\ Send(Cmd("quit", 0))
       \/ view = "terminated" /\ UNCHANGED cmds
    /\ UNCHANGED <<adapterVars, open, lost, issued, reported, answers, overlapped,
                   hidden, msgs, debuggerVars>>

Disconnect ==
    /\ view # "left"
    /\ view' = "left" /\ frames' = {}
    /\ \/ ~closed /\ Send(Cmd("quit", 0))
       \/ closed /\ UNCHANGED cmds
    /\ UNCHANGED <<adapterVars, open, lost, issued, reported, answers, overlapped,
                   hidden, msgs, debuggerVars>>

-----------------------------------------------------------------------------
(* Events and replies the adapter receives. *)

Receive(ops) ==
    /\ msgs # <<>> /\ Head(msgs).op \in ops
    /\ msgs' = Tail(msgs)
    /\ UNCHANGED <<issued, overlapped, debuggerVars>>

\* A StoppedEvent.
Report(reason) ==
    /\ reported' = Append(reported,
           [reason |-> reason, event |-> Head(msgs).op, file |-> Head(msgs).stack[1]])
    /\ view' = IF view = "running" THEN "stopped" ELSE view

ShouldFinish(file) == file \in FinishFiles
ShouldSkip(file)   == ~ShouldFinish(file) /\ file \in SkipFiles

\* Mutants of OnSuspended: the stop is reported although it is stepped away
\* from; it is neither reported nor stepped away from.
OnSuspendedReportingAll(file) ==
    /\ Report("step")
    /\ \/ ShouldSkip(file) /\ Send(Cmd("step", 0))
       \/ ShouldFinish(file) /\ Send(Cmd("finish", 0))
       \/ ~ShouldSkip(file) /\ ~ShouldFinish(file) /\ UNCHANGED cmds

OnSuspendedWithoutStep(file) ==
    /\ UNCHANGED cmds
    /\ \/ (ShouldSkip(file) \/ ShouldFinish(file)) /\ UNCHANGED <<view, reported>>
       \/ ~ShouldSkip(file) /\ ~ShouldFinish(file) /\ Report("step")

OnSuspended(file) ==
    \/ /\ ShouldSkip(file)
       /\ Send(Cmd("step", 0))
       /\ UNCHANGED <<view, reported>>
    \/ /\ ShouldFinish(file)
       /\ Send(Cmd("finish", 0))
       /\ UNCHANGED <<view, reported>>
    \/ /\ ~ShouldSkip(file) /\ ~ShouldFinish(file)
       /\ Report("step")
       /\ UNCHANGED cmds

OnEntry == StopOnEntry /\ ~first

Suspended ==
    /\ Receive({"suspended"})
    /\ \/ OnEntry /\ Report("entry") /\ UNCHANGED cmds
       \/ ~OnEntry /\ OnSuspended(Head(msgs).stack[1])
    /\ first' = TRUE
    /\ UNCHANGED <<frameId, closed, frames, open, lost, answers, hidden>>

\* 'breakpoint', and 'exception' likewise.
Breakpoint ==
    /\ Receive({"breakpoint"})
    /\ Report("breakpoint")
    /\ UNCHANGED <<adapterVars, frames, open, lost, answers, hidden, cmds>>

\* Frames that are left after those of the debugger and of skipFiles.
Shown(s) == {f \in 1..Len(s) : s[f] # "rdbg" /\ s[f] \notin SkipFiles}

\* What the client can ask about: the frames that are shown, or the synthetic
\* one, frame 0, that says skipFiles has filtered them all.
Offered(s) == IF Shown(s) # {} THEN Shown(s) ELSE {0}

\* The continuation of stackTraceRequest: it looks for the current frame among
\* the shown ones.  Then it answers, and a client drops an answer about an
\* earlier stop; or it throws, on a file that is shorter than the program's
\* (lines 324-337); or there is no frame and the session is given up.
WhereReply ==
    LET r == Head(msgs) IN
    /\ Receive({"where"})
    /\ frameId' = IF r.frame \in Shown(r.stack) THEN r.frame ELSE frameId
    /\ hidden' = (hidden \/ r.frame \notin Shown(r.stack))
    /\ \/ /\ Shown(r.stack) # {} \/ \E f \in 1..Len(r.stack) : r.stack[f] \in SkipFiles
          /\ open' = open - 1
          /\ frames' = IF view = "stopped" /\ r.tag = Len(reported)
                       THEN Offered(r.stack) ELSE frames
          /\ UNCHANGED <<view, lost>>
       \/ /\ Editing /\ Shown(r.stack) # {}
          /\ open' = open - 1 /\ lost' = lost + 1
          /\ UNCHANGED <<view, frames>>
       \/ /\ \A f \in 1..Len(r.stack) : r.stack[f] = "rdbg"
          /\ view' = IF view = "left" THEN view ELSE "terminated"
          /\ frames' = {}
          /\ UNCHANGED <<open, lost>>
    /\ UNCHANGED <<first, closed, reported, answers, cmds>>

\* Mutant of ValueReply: evaluateRequest does not respond to a failed eval.
ValueReplyThrowing ==
    /\ Receive({"locals", "eval"})
    /\ open' = IF Head(msgs).op = "eval" THEN open ELSE open - 1
    /\ answers' = answers \cup {[op   |-> Head(msgs).op,
                                 want |-> Head(msgs).tag,
                                 got  |-> Head(msgs).frame]}
    /\ UNCHANGED <<adapterVars, view, frames, lost, reported, hidden, cmds>>

\* The continuations of scopesRequest and evaluateRequest.
ValueReply ==
    /\ Receive({"locals", "eval"})
    /\ open' = open - 1
    /\ answers' = answers \cup {[op   |-> Head(msgs).op,
                                 want |-> Head(msgs).tag,
                                 got  |-> Head(msgs).frame]}
    /\ UNCHANGED <<adapterVars, view, frames, lost, reported, hidden, cmds>>

\* debuggerComplete
Ended ==
    /\ Receive({"end"})
    /\ closed' = TRUE
    /\ view' = IF view = "left" THEN view ELSE "terminated"
    /\ frames' = {}
    /\ UNCHANGED <<frameId, first, open, lost, reported, answers, hidden, cmds>>

-----------------------------------------------------------------------------
(* The debugger, as main.ts uses it. *)

Emit(op, tag, frame, files) ==
    msgs' = Append(msgs, [op |-> op, tag |-> tag, frame |-> frame, stack |-> files])

\* A running program stops: the top frame is selected.
Halt ==
    /\ run = "running" /\ stops < MaxStops
    /\ \E files \in Stacks, event \in {"suspended", "breakpoint"} :
          /\ stack' = files
          /\ Emit(event, 0, 1, <<files[1]>>)
    /\ run' = "stopped" /\ selected' = 1 /\ stops' = stops + 1
    /\ UNCHANGED <<adapterVars, clientVars, cmds>>

Exit ==
    /\ run' = "gone" /\ cmds' = <<>>
    /\ Emit("end", 0, 0, <<>>)
    /\ UNCHANGED <<adapterVars, clientVars, stack, selected, stops>>

Finish == run = "running" /\ Exit

Take(op) ==
    /\ cmds # <<>> /\ Head(cmds).op = op
    /\ UNCHANGED <<adapterVars, clientVars, stops>>

Quit == Take("quit") /\ Exit

GoOn ==
    /\ cmds # <<>> /\ Head(cmds).op \in Resumes
    /\ run \in {"waiting", "stopped"}
    /\ run' = "running" /\ cmds' = Tail(cmds)
    /\ UNCHANGED <<adapterVars, clientVars, msgs, stack, selected, stops>>

\* What becomes of the synthetic frame 0 is up to the debugger.
SelectFrame ==
    /\ Take("frame") /\ run = "stopped"
    /\ selected' \in IF Head(cmds).tag = 0 THEN 1..Len(stack) ELSE {Head(cmds).tag}
    /\ cmds' = Tail(cmds)
    /\ UNCHANGED <<msgs, run, stack>>

Answer ==
    /\ run = "stopped"
    /\ \/ Take("where") /\ Emit("where", Head(cmds).tag, selected, stack)
       \/ Take("locals") /\ Emit("locals", Head(cmds).tag, selected, <<>>)
       \/ Take("eval") /\ Emit("eval", Head(cmds).tag, selected, <<>>)
    /\ cmds' = Tail(cmds)
    /\ UNCHANGED <<run, stack, selected>>

-----------------------------------------------------------------------------

Client ==
    \/ ConfigurationDone \/ StackTrace \/ Evaluate \/ Resume \/ Disconnect
    \/ \E f \in frames : Scopes(f)

Handlers == Suspended \/ Breakpoint \/ WhereReply \/ ValueReply \/ Ended

Debugger == Halt \/ Finish \/ Quit \/ GoOn \/ SelectFrame \/ Answer

Next == Client \/ Handlers \/ Debugger

Spec == Init /\ [][Next]_vars

\* Messages are delivered and handled, and the debugger takes its commands.
\* Nothing makes the client ask or the program stop or end.
FairSpec ==
    /\ Spec
    /\ WF_vars(Handlers)
    /\ WF_vars(Quit \/ GoOn \/ SelectFrame \/ Answer)

-----------------------------------------------------------------------------
(* Safety. *)

Replies == {"where", "locals", "eval"}
Events  == {"suspended", "breakpoint", "end"}

\* Every variable has its type, and no more is open or lost than was asked.
TypeOK ==
    /\ frameId \in 0..MaxDepth /\ selected \in 0..MaxDepth
    /\ first \in BOOLEAN /\ closed \in BOOLEAN
    /\ view \in {"starting", "running", "stopped", "terminated", "left"}
    /\ frames \subseteq 0..MaxDepth
    /\ issued \in 0..MaxRequests /\ open \in 0..issued /\ lost \in 0..(issued - open)
    /\ cmds \in Seq(Command)
    /\ \A i \in 1..Len(msgs) : msgs[i].op \in Replies \cup Events
    /\ run \in {"waiting", "running", "stopped", "gone"}
    /\ stops \in 0..MaxStops /\ Len(reported) <= stops

ScopesAreRight == \A a \in answers : a.op = "locals" => a.got = a.want

\* The variables come from the frame that was asked for, although the request
\* only sends 'frame' when _frameId says it has to, as long as the client has
\* waited for its answers and no stack trace has hidden the current frame: one
\* in a skipped file leaves _frameId as it was (main.ts:310, 319, 429-433).
ScopesUnlessHidden == (~overlapped /\ ~hidden) => ScopesAreRight

\* While the client shows the program as stopped, it is stopped where the last
\* StoppedEvent said, and nothing the adapter has sent will set it going:
\* automatic steps and reports exclude each other (main.ts:175-191).
StoppedMeansStopped ==
    (view = "stopped" /\ run # "gone") =>
        /\ run = "stopped"
        /\ stack[1] = reported[Len(reported)].file
        /\ \A i \in 1..Len(cmds) : cmds[i].op \notin Resumes

\* A program is never left stopped behind the client's back: when nothing is
\* on its way any more, every stop was reported or stepped away from
\* (main.ts:91-95, 129-138, 175-191).
NoSilentStop ==
    (run = "stopped" /\ cmds = <<>> /\ msgs = <<>>) => view # "running"

-----------------------------------------------------------------------------
(* Liveness, under FairSpec. *)

Over == view \in {"terminated", "left"} \/ run = "gone"

\* Every request about a stopped program is answered, or the session is over,
\* or it was a stack trace whose continuation threw on an edited file: such a
\* loss, and a frame that no stack trace has shown, hold up no other request
\* (main.ts:297-356, 493-512, 555-573).
AnsweredUnlessLost == open > 0 ~> (open = 0 \/ Over)

\* Disconnecting ends the debugger, also when the session was given up for
\* lack of stack frames while the debugger was alive (main.ts:350-353, 575-580).
DisconnectQuits == view = "left" ~> run = "gone"

=============================================================================
