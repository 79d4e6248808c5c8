------------------------------ MODULE RubyProcess ------------------------------
(***************************************************************************)
(* The connection between the debug adapter and rdebug-ide                 *)
(* (packages/vscode-ruby-debugger/src/ruby.ts).  RubyProcess keeps a FIFO  *)
(* of commands that wait for a reply and pairs the XML elements it parses  *)
(* out of the socket's byte stream with them: an element that is not an    *)
(* event answers the oldest command of the FIFO, whatever it is about.     *)
(*                                                                         *)
(* Three parties interleave: the adapter (requests of the client, socket   *)
(* and process callbacks, run to completion on one event loop), the        *)
(* network, and the debugger with the program it runs.  The 'data'         *)
(* callback is a parse followed by a loop over the parsed elements; each   *)
(* iteration of the loop is a step here, and no other callback of the      *)
(* adapter runs until the loop is done (Idle).                             *)
(***************************************************************************)
EXTENDS Naturals, Sequences, FiniteSets

CONSTANTS
    Mode,      \* "launch" or "attach"
    MaxCalls,  \* bound on the commands issued in a session
    MaxStops,  \* bound on the stop events the debugger reports
    Quoting    \* TRUE: the value of an eval reply may hold raw double quotes

ASSUME ModeAssumption    == Mode \in {"launch", "attach"}
ASSUME BoundAssumption   == MaxCalls \in Nat /\ MaxStops \in Nat
ASSUME QuotingAssumption == Quoting \in BOOLEAN

VARIABLES
    (* fields of RubyProcess *)
    state,            \* "ready", "connected" or "closed"
    pendingCommands,  \* commands issued while not connected
    pendingResponses, \* commands written and not answered, oldest first
    buffer,           \* the whole XML elements received and not consumed
    cut,              \* the buffer ends in a fragment of a further element
    dispatching,      \* the 'data' callback is looping over the buffer
    (* what the rest of the adapter has seen of it *)
    calls,            \* the kind of every command issued, in issue order
    settled,          \* settled[n]: whose reply resolved the promise of call n
    emitted,          \* stop events handed to the debug session
    notices,          \* lifecycle events handed to the debug session
    dial,             \* "idle", "dialling" or "done": socket.connect
    (* the network and the debugger *)
    toDebugger,       \* commands on their way to the debugger
    wire,             \* elements on their way to the adapter
    peer,             \* "open", "fin" or "rst": the debugger's end of the socket
    alive,            \* the debugger process lives
    stops             \* stop events the debugger has reported

adapterVars  == <<state, pendingCommands, pendingResponses, buffer, cut,
                  dispatching, dial>>
sessionVars  == <<calls, settled, emitted, notices>>
debuggerVars == <<toDebugger, wire, peer, alive, stops>>
vars == <<adapterVars, sessionVars, debuggerVars>>

AwaitedKinds == {"query", "eval"}
SilentKinds  == {"run", "quit"}
Kinds        == AwaitedKinds \cup SilentKinds

Notices == {"debuggerConnect", "debuggerComplete", "debuggerProcessExit",
            "terminalError", "nonTerminalError"}

\* What the double quotes in the value of an element are: all escaped by the
\* debugger; not escaped, and reported by the parser with one of the two
\* messages the adapter looks for; or reported with any other message, as
\* those that a blank or another quote follows.  Values that hold the text of
\* their own end are left out.
Quotes == {"escaped", "repairable", "beyond"}

\* An XML element: the reply to call cmd, or a stop event when cmd = 0.
Element == [cmd : Nat, quotes : Quotes]

Awaited(n) == calls[n] \in AwaitedKinds
IsEval(e)  == e.cmd # 0 /\ calls[e.cmd] = "eval"
Quoted(s)  == \E i \in 1..Len(s) : s[i].quotes # "escaped"
Idle       == ~dispatching
Quitting   == \E n \in 1..Len(calls) : calls[n] = "quit"

\* The elements on their way to FinishCmd, the next one first.
InFlight == buffer \o wire

Init ==
    /\ state = "ready"
    /\ pendingCommands = <<>> /\ pendingResponses = <<>>
    /\ buffer = <<>> /\ cut = FALSE /\ dispatching = FALSE
    /\ calls = <<>> /\ settled = <<>>
    /\ emitted = 0 /\ notices = {}
    /\ dial \in (IF Mode = "launch" THEN {"idle"} ELSE {"idle", "dialling"})
    /\ toDebugger = <<>> /\ wire = <<>>
    /\ peer = "open" /\ alive = TRUE /\ stops = 0

-----------------------------------------------------------------------------
(* Commands. *)

\* socket.write: what is written to a dead debugger is lost.
Write(n) == toDebugger' = IF alive THEN Append(toDebugger, n) ELSE toDebugger

NewCall(kind) ==
    /\ Len(calls) < MaxCalls
    /\ calls' = Append(calls, kind)
    /\ settled' = Append(settled, 0)

Postpone ==
    /\ state # "connected"
    /\ pendingCommands' = Append(pendingCommands, Len(calls) + 1)
    /\ UNCHANGED <<pendingResponses, toDebugger>>

\* A command whose promise is resolved with the reply.
Enqueue(kind) ==
    /\ NewCall(kind)
    /\ \/ Postpone
       \/ /\ state = "connected"
          /\ pendingResponses' = Append(pendingResponses, Len(calls) + 1)
          /\ Write(Len(calls) + 1)
          /\ UNCHANGED pendingCommands
    /\ UNCHANGED <<state, buffer, cut, dispatching, dial, emitted, notices,
                   wire, peer, alive, stops>>

\* Mutant of Run: an expectation is added as in Enqueue.
RunExpectingAReply(kind) ==
    /\ NewCall(kind)
    /\ \/ Postpone
       \/ /\ state = "connected"
          /\ pendingResponses' = Append(pendingResponses, Len(calls) + 1)
          /\ Write(Len(calls) + 1)
          /\ UNCHANGED pendingCommands

\* A command without a reply.  Postponed, it waits for one like the others.
Run(kind) ==
    /\ NewCall(kind)
    /\ \/ Postpone
       \/ /\ state = "connected"
          /\ Write(Len(calls) + 1)
          /\ UNCHANGED <<pendingCommands, pendingResponses>>

\* The client disconnects once and asks for nothing afterwards.  It steps,
\* continues or starts the program only once it has seen debuggerConnect.
ClientEnqueues == Idle /\ ~Quitting /\ \E kind \in AwaitedKinds : Enqueue(kind)

ClientRuns ==
    /\ Idle /\ ~Quitting
    /\ \/ state # "ready"  /\ Run("run")
       \/ state # "closed" /\ Run("quit")
    /\ UNCHANGED <<state, buffer, cut, dispatching, dial, emitted, notices,
                   wire, peer, alive, stops>>

-----------------------------------------------------------------------------
(* Establishing the connection. *)

\* rdebug-ide announces on stderr that it listens.
Banner ==
    /\ Idle /\ Mode = "launch" /\ dial = "idle" /\ alive
    /\ dial' = "dialling"
    /\ UNCHANGED <<state, pendingCommands, pendingResponses, buffer, cut,
                   dispatching, sessionVars, debuggerVars>>

\* The callback of fs.access on the local socket of an attach.
Access ==
    /\ Idle /\ Mode = "attach" /\ dial = "idle"
    /\ \/ dial' = "dialling" /\ UNCHANGED notices
       \/ dial' = "done" /\ notices' = notices \cup {"debuggerComplete"}
    /\ UNCHANGED <<state, pendingCommands, pendingResponses, buffer, cut,
                   dispatching, calls, settled, emitted, debuggerVars>>

\* Mutant of Connect: the postponed commands expect no reply.
ConnectExpectingNothing ==
    /\ Idle /\ dial = "dialling" /\ alive
    /\ dial' = "done" /\ state' = "connected"
    /\ toDebugger' = toDebugger \o pendingCommands
    /\ notices' = notices \cup {"debuggerConnect"}
    /\ pendingCommands' = <<>>
    /\ UNCHANGED <<pendingResponses, buffer, cut, dispatching, calls, settled,
                   emitted, wire, peer, alive, stops>>

\* 'connect': every postponed command is written and expects a reply.
Connect ==
    /\ Idle /\ dial = "dialling" /\ alive
    /\ dial' = "done"
    /\ state' = "connected"
    /\ pendingResponses' = pendingResponses \o pendingCommands
    /\ toDebugger' = toDebugger \o pendingCommands
    /\ notices' = notices \cup {"debuggerConnect"}
    /\ pendingCommands' = <<>>
    /\ UNCHANGED <<buffer, cut, dispatching, calls, settled, emitted,
                   wire, peer, alive, stops>>

\* Mutant of SocketError: the error alone is handled, the close after it is not.
SocketErrorWithoutClose ==
    /\ notices' = notices \cup {"nonTerminalError"}
    /\ UNCHANGED state

\* 'error' then 'close', in one tick.
SocketError ==
    /\ state' = "closed"
    /\ notices' = notices \cup {"nonTerminalError"}

Refused ==
    /\ Idle /\ dial = "dialling"
    /\ dial' = "done"
    /\ SocketError
    /\ UNCHANGED <<pendingCommands, pendingResponses, buffer, cut, dispatching,
                   calls, settled, emitted, debuggerVars>>

-----------------------------------------------------------------------------
(* 'data': accumulate, parse, dispatch. *)

FirstEval(s) ==
    {i \in 1..Len(s) : IsEval(s[i]) /\ \A j \in 1..(i - 1) : ~IsEval(s[j])}

\* Mutant of Repair: the quotes of no eval are escaped.
RepairNothing(s) == s

\* When the first message of the parser is one of the two looked for, double
\* quotes are escaped in the value of the first eval, whichever it is about.
\* A first message about a later eval finds nothing to escape there.
Repair(s) ==
    [i \in 1..Len(s) |->
        IF i \in FirstEval(s) /\ s[i].quotes = "repairable"
        THEN [s[i] EXCEPT !.quotes = "escaped"]
        ELSE s[i]]

\* A chunk completes n elements and, when half, starts one more.  The buffer
\* is dispatched as a whole or kept as a whole.
Receive(n, half) ==
    LET text == Repair(buffer \o SubSeq(wire, 1, n)) IN
    /\ Idle /\ state = "connected"
    /\ half => n < Len(wire) /\ (n > 0 \/ ~cut)
    /\ ~half => n > 0
    /\ buffer' = text
    /\ wire' = SubSeq(wire, n + 1, Len(wire))
    /\ cut' = half
    /\ dispatching' = (~half /\ ~Quoted(text))
    /\ UNCHANGED <<state, pendingCommands, pendingResponses, dial,
                   sessionVars, toDebugger, peer, alive, stops>>

ReceiveSome == \E n \in 0..Len(wire), half \in BOOLEAN : Receive(n, half)

\* Mutant of NextNode: the buffer is emptied inside the loop.
NextNodeForgetting ==
    /\ buffer' = <<>>
    /\ dispatching' = FALSE
    /\ UNCHANGED <<state, cut, dial, notices, wire, peer, alive, stops>>

\* The loop of 'data' goes to the next element; after the last, buffer = "".
NextNode ==
    /\ buffer' = Tail(buffer)
    /\ dispatching' = (Tail(buffer) # <<>>)
    /\ UNCHANGED <<state, cut, dial, notices, wire, peer, alive, stops>>

\* Mutant of FinishCmd: the newest pending response is resolved.
FinishCmdNewest ==
    /\ dispatching /\ Head(buffer).cmd # 0
    /\ pendingResponses # <<>>
    /\ LET n == pendingResponses[Len(pendingResponses)] IN
       settled' = IF Awaited(n) THEN [settled EXCEPT ![n] = Head(buffer).cmd] ELSE settled
    /\ pendingResponses' = SubSeq(pendingResponses, 1, Len(pendingResponses) - 1)
    /\ NextNode
    /\ UNCHANGED <<pendingCommands, calls, emitted, toDebugger>>

\* A reply resolves the oldest pending response and is ignored without one.
FinishCmd ==
    /\ dispatching /\ Head(buffer).cmd # 0
    /\ \/ /\ pendingResponses = <<>>
          /\ UNCHANGED <<pendingResponses, settled>>
       \/ /\ pendingResponses # <<>>
          /\ LET n == Head(pendingResponses) IN
             settled' = IF Awaited(n)
                        THEN [settled EXCEPT ![n] = Head(buffer).cmd]
                        ELSE settled    \* resolve: () => 0
          /\ pendingResponses' = Tail(pendingResponses)
    /\ NextNode
    /\ UNCHANGED <<pendingCommands, calls, emitted, toDebugger>>

\* A stop event is emitted; its listener may step on at once (skipFiles).
EmitStop ==
    /\ dispatching /\ Head(buffer).cmd = 0
    /\ emitted' = emitted + 1
    /\ \/ Run("run")
       \/ UNCHANGED <<calls, settled, pendingCommands, pendingResponses,
                      toDebugger>>
    /\ NextNode

-----------------------------------------------------------------------------
(* End of the connection and of the child process. *)

SocketEnd ==
    /\ Idle /\ state = "connected" /\ peer = "fin" /\ wire = <<>>
    /\ state' = "closed"
    /\ notices' = notices \cup {"debuggerComplete"}
    /\ UNCHANGED <<pendingCommands, pendingResponses, buffer, cut, dispatching,
                   dial, calls, settled, emitted, debuggerVars>>

SocketReset ==
    /\ Idle /\ state = "connected" /\ peer = "rst"
    /\ SocketError
    /\ UNCHANGED <<pendingCommands, pendingResponses, buffer, cut, dispatching,
                   dial, calls, settled, emitted, debuggerVars>>

ChildExit ==
    /\ Idle /\ Mode = "launch" /\ ~alive
    /\ notices \cap {"terminalError", "debuggerProcessExit"} = {}
    /\ notices' = notices \cup {"debuggerProcessExit"}
    /\ UNCHANGED <<adapterVars, calls, settled, emitted, debuggerVars>>

\* The debugger could not be spawned at all.
SpawnError ==
    /\ Idle /\ Mode = "launch" /\ dial = "idle" /\ alive
    /\ alive' = FALSE
    /\ notices' = notices \cup {"terminalError"}
    /\ UNCHANGED <<adapterVars, calls, settled, emitted,
                   toDebugger, wire, peer, stops>>

-----------------------------------------------------------------------------
(* The debugger, as ruby.ts uses it: it takes commands in order, answers    *)
(* the awaited ones, keeps silent on the others, and reports stops.         *)

Answer ==
    /\ alive /\ toDebugger # <<>> /\ Awaited(Head(toDebugger))
    /\ \E q \in Quotes :
          /\ q # "escaped" => Quoting /\ calls[Head(toDebugger)] = "eval"
          /\ wire' = Append(wire, [cmd |-> Head(toDebugger), quotes |-> q])
    /\ toDebugger' = Tail(toDebugger)
    /\ UNCHANGED <<adapterVars, sessionVars, peer, alive, stops>>

Obey ==
    /\ alive /\ toDebugger # <<>> /\ calls[Head(toDebugger)] = "run"
    /\ toDebugger' = Tail(toDebugger)
    /\ UNCHANGED <<adapterVars, sessionVars, wire, peer, alive, stops>>

\* 'quit' may be acknowledged although it was issued with Run.
ObeyQuit ==
    /\ alive /\ toDebugger # <<>> /\ calls[Head(toDebugger)] = "quit"
    /\ \/ wire' = Append(wire, [cmd |-> Head(toDebugger), quotes |-> "escaped"])
       \/ UNCHANGED wire
    /\ toDebugger' = <<>>
    /\ alive' = FALSE /\ peer' = "fin"
    /\ UNCHANGED <<adapterVars, sessionVars, stops>>

Stop ==
    /\ alive /\ state = "connected" /\ stops < MaxStops
    /\ stops' = stops + 1
    /\ wire' = Append(wire, [cmd |-> 0, quotes |-> "escaped"])
    /\ UNCHANGED <<adapterVars, sessionVars, toDebugger, peer, alive>>

\* The program ends, the debugger crashes, or the connection to it breaks.
Die ==
    /\ alive
    /\ alive' = FALSE
    /\ toDebugger' = <<>>
    /\ \/ peer' = "fin" /\ UNCHANGED wire
       \/ peer' = "rst" /\ wire' = <<>>
    /\ UNCHANGED <<adapterVars, sessionVars, stops>>

-----------------------------------------------------------------------------

Adapter ==
    \/ ClientEnqueues \/ ClientRuns
    \/ Banner \/ Access \/ Connect \/ Refused
    \/ ReceiveSome \/ FinishCmd \/ EmitStop
    \/ SocketEnd \/ SocketReset \/ ChildExit \/ SpawnError

Debugger == Answer \/ Obey \/ ObeyQuit \/ Stop \/ Die

Next == Adapter \/ Debugger

Spec == Init /\ [][Next]_vars

\* The event loop serves every callback that is due, the network delivers,
\* the debugger announces itself and takes the commands it is sent.
Fairness ==
    /\ WF_vars(Banner) /\ WF_vars(Access) /\ WF_vars(Connect \/ Refused)
    /\ WF_vars(ReceiveSome) /\ WF_vars(FinishCmd \/ EmitStop)
    /\ WF_vars(SocketEnd) /\ WF_vars(SocketReset) /\ WF_vars(ChildExit)
    /\ WF_vars(Answer \/ Obey \/ ObeyQuit)

FairSpec == Spec /\ Fairness

-----------------------------------------------------------------------------
(* Safety. *)

\* Every variable has its type; the queues hold numbers of issued commands,
\* and the loop of 'data' runs over at least one node (ruby.ts:24-32).
TypeOK ==
    /\ state \in {"ready", "connected", "closed"}
    /\ pendingCommands \in Seq(1..Len(calls))
    /\ pendingResponses \in Seq(1..Len(calls))
    /\ toDebugger \in Seq(1..Len(calls))
    /\ buffer \in Seq([cmd : 0..Len(calls), quotes : Quotes])
    /\ wire \in Seq([cmd : 0..Len(calls), quotes : Quotes])
    /\ cut \in BOOLEAN /\ dispatching \in BOOLEAN /\ alive \in BOOLEAN
    /\ calls \in Seq(Kinds)
    /\ settled \in Seq(Nat) /\ Len(settled) = Len(calls)
    /\ emitted \in Nat /\ stops \in Nat
    /\ notices \subseteq Notices
    /\ dial \in {"idle", "dialling", "done"}
    /\ peer \in {"open", "fin", "rst"}
    /\ dispatching => buffer # <<>> /\ state = "connected"

\* A promise returned by Enqueue is only ever resolved with the reply to its
\* own command, although replies carry no number and FinishCmd takes the
\* oldest entry (ruby.ts:333-338), some of which Run has put there (:103-106).
RepliesMatch == \A n \in 1..Len(calls) : settled[n] \in {0, n}

\* No stop event is lost, duplicated or dropped with a kept buffer, as long
\* as the connection is not reset: what the debugger reported was emitted or
\* is still on its way (ruby.ts:190-196).
StopsConserved ==
    peer # "rst" =>
        stops = emitted + Cardinality({i \in 1..Len(InFlight) : InFlight[i].cmd = 0})

Evaluating(n) == calls[n] = "eval" /\ settled[n] = 0

\* A client that evaluates one expression at a time, with values the repair of
\* ruby.ts:145-158 is meant for, never blocks its connection: between two
\* callbacks a complete buffer is kept back only if it holds a reply whose
\* quotes are beyond repair or while two evaluations are unanswered.  (An
\* element that is incomplete, as line 159 has it, is not the reason.)
OneEvalNeverBlocks ==
    (Idle /\ buffer # <<>> /\ ~cut) =>
        \/ \E i \in 1..Len(buffer) : buffer[i].quotes = "beyond"
        \/ \E m, n \in 1..Len(calls) : m < n /\ Evaluating(m) /\ Evaluating(n)

-----------------------------------------------------------------------------
(* The inductive invariant behind RepliesMatch. *)

Increasing(s) == \A i, j \in 1..Len(s) : i < j => s[i] < s[j]
Among(n, s)   == \E i \in 1..Len(s) : s[i] = n
Answering(n)  == \E i \in 1..Len(InFlight) : InFlight[i].cmd = n

\* Which fields are in use in which phase of the connection.
Phases ==
    /\ dial # "done" => state = "ready"
    /\ state = "ready" =>
          /\ pendingResponses = <<>> /\ toDebugger = <<>>
          /\ buffer = <<>> /\ wire = <<>>
          /\ \A n \in 1..Len(calls) : calls[n] # "run"
    /\ state = "connected" => pendingCommands = <<>>
    /\ ~alive => toDebugger = <<>>

\* Commands and replies keep the order in which the commands were issued.
InOrder ==
    /\ Increasing(pendingCommands)
    /\ Increasing(pendingResponses)
    /\ Increasing(toDebugger)
    /\ \A i, j \in 1..Len(InFlight) :
          i < j /\ InFlight[j].cmd # 0 => InFlight[i].cmd < InFlight[j].cmd
    /\ \A i \in 1..Len(InFlight), j \in 1..Len(toDebugger) :
          InFlight[i].cmd < toDebugger[j]

\* The only silent command that can expect a reply, or get one, is the quit
\* that ends the session.
QuitIsLast ==
    /\ \A n, m \in 1..Len(calls) : calls[n] = "quit" /\ n < m => calls[m] = "run"
    /\ \A i \in 1..Len(pendingResponses) : calls[pendingResponses[i]] # "run"
    /\ \A i \in 1..Len(InFlight) :
          InFlight[i].cmd # 0 => calls[InFlight[i].cmd] # "run"

\* Replies and expectations correspond: every reply still to come is expected,
\* nothing expected is overtaken, nothing expected is forgotten.
Expectations ==
    /\ \A i \in 1..Len(InFlight) :
          InFlight[i].cmd # 0 /\ Awaited(InFlight[i].cmd) =>
              Among(InFlight[i].cmd, pendingResponses)
    /\ \A j \in 1..Len(toDebugger) :
          Awaited(toDebugger[j]) => Among(toDebugger[j], pendingResponses)
    /\ \A n \in 1..Len(calls) :
          Awaited(n) /\ Among(n, pendingResponses) =>
              /\ alive => Answering(n) \/ Among(n, toDebugger)
              /\ \A i \in 1..Len(InFlight) : n < InFlight[i].cmd => Answering(n)

\* The unsettled promises are the ones of the queued commands.
Unsettled ==
    \A n \in 1..Len(calls) :
        IF Awaited(n)
        THEN settled[n] = 0 <=> Among(n, pendingResponses) \/ Among(n, pendingCommands)
        ELSE settled[n] = 0

IInv ==
    /\ TypeOK /\ Phases /\ InOrder /\ QuitIsLast /\ Expectations /\ Unsettled
    /\ RepliesMatch

-----------------------------------------------------------------------------
(* Implementation of the abstract channel. *)

Channel == INSTANCE CommandChannel WITH closed <- (state = "closed")

\* The socket, the buffer and the two queues implement the abstract channel:
\* promises settle in issue order, at most once, and never after the
\* connection is closed (ruby.ts:298-338).
ImplementsChannel == Channel!Spec

-----------------------------------------------------------------------------
(* Liveness, under FairSpec. *)

\* The session can tell that the debugger is gone.
Told == notices \cap {"debuggerComplete", "debuggerProcessExit", "terminalError"} # {}
Gone == Told \/ state = "closed"

\* The buffer holds quotes that keep it back, and all that comes after them.
Blocked == Idle /\ Quoted(buffer)

Outstanding(n) == n \in 1..Len(calls) /\ Awaited(n) /\ settled[n] = 0

\* Every awaited command is answered, the connection ends, or a reply with raw
\* quotes blocks the buffer: nothing else can keep a command in pendingCommands
\* or pendingResponses of a working connection for ever (ruby.ts:84-107, 298-338).
EveryCallSettles ==
    \A n \in 1..MaxCalls : Outstanding(n) ~> (~Outstanding(n) \/ Gone \/ Blocked)

\* Every stop the debugger reports reaches the debug session, unless the
\* connection ends or is blocked (ruby.ts:190-196).
EveryStopIsEmitted ==
    \A k \in 1..MaxStops : stops >= k ~> (emitted >= k \/ Gone \/ Blocked)

\* When the debugger an adapter is attached to dies, the adapter finds out,
\* although it has no child process to watch: before the connection is there
\* the attempt fails, and afterwards the end or the reset is handled behind
\* all that has arrived, even if the buffer is blocked (ruby.ts:90-124).
DeathIsNoticed == ~alive ~> Gone

=============================================================================
