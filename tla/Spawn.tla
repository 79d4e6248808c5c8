------------------------------- MODULE Spawn -------------------------------
(***************************************************************************)
(* A child process behind an Observable:                                   *)
(* packages/language-server-ruby/src/util/spawn.ts.                        *)
(*                                                                         *)
(* The Observable emits the chunks of both output pipes, and ends when     *)
(* Node has reported "close" for the process and for both pipes: completed *)
(* for the exit code 0, with an error for any other.  It also ends with an *)
(* error when the process cannot be started or its input breaks.           *)
(* Unsubscribing, which an end does too, kills the process unless it is    *)
(* known to be over.                                                       *)
(*                                                                         *)
(* Chunks are counted: Node delivers those of one pipe in order.           *)
(***************************************************************************)
EXTENDS Naturals

CONSTANTS Codes,       \* exit codes other than "0", and "null" for a signal
          MaxChunks    \* bound: chunks written to one pipe

ASSUME CodesAssumption ==
  {"none", "running", "failed", "open", "complete", "unsubscribed", "ENOENT", "EPIPE", "0"}
    \cap Codes = {}
ASSUME ChunksAssumption == MaxChunks \in Nat

VARIABLES child,    \* "none": not started, "running", "failed", or its exit code
          stdin,    \* "writing", "taken", or "broken": whether the input was read
          open,     \* per pipe: someone may still write to it
          written,  \* per pipe: chunks written
          read,     \* per pipe: chunks Node has handed to the data handler
          got,      \* per pipe: chunks the subscriber has received
          ended,    \* per pipe: stdoutCompleted, stderrCompleted
          closed,   \* "close" of the process has been handled
          noClose,  \* the process need not be killed any more
          killed,   \* proc.kill() has been called
          sub       \* "none", "open", "complete", "unsubscribed", or the error

spawnVars == <<child, stdin, open, written, read, got, ended, closed, noClose,
               killed, sub>>

Pipes == {"stdout", "stderr"}
Exited == Codes \cup {"0"}
Errors == Codes \cup {"ENOENT", "EPIPE"}

ProcessTypeOK ==
  /\ child \in {"none", "running", "failed"} \cup Exited
  /\ stdin \in {"writing", "taken", "broken"}
  /\ open \in [Pipes -> BOOLEAN]
  /\ written \in [Pipes -> 0 .. MaxChunks]
  /\ read \in [Pipes -> 0 .. MaxChunks]
  /\ got \in [Pipes -> 0 .. MaxChunks]
  /\ ended \in [Pipes -> BOOLEAN]
  /\ closed \in BOOLEAN
  /\ noClose \in BOOLEAN
  /\ killed \in BOOLEAN
  /\ sub \in {"none", "open", "complete", "unsubscribed"} \cup Errors

SpawnInit ==
  /\ child = "none"
  /\ stdin = "writing"
  /\ open = [p \in Pipes |-> FALSE]
  /\ written = [p \in Pipes |-> 0]
  /\ read = [p \in Pipes |-> 0]
  /\ got = [p \in Pipes |-> 0]
  /\ ended = [p \in Pipes |-> FALSE]
  /\ closed = FALSE
  /\ noClose = FALSE
  /\ killed = FALSE
  /\ sub = "none"

(* The subscription starts the process and writes its input.               *)
Subscribe ==
  /\ sub = "none"
  /\ sub' = "open"
  /\ \/ child' = "running" /\ open' = [p \in Pipes |-> TRUE]
     \/ child' = "failed" /\ UNCHANGED open
  /\ UNCHANGED <<stdin, written, read, got, ended, closed, noClose, killed>>

-----------------------------------------------------------------------------
(* The process and its descendants, which may hold its pipes for longer.   *)

Write(p) ==
  /\ open[p]
  /\ written[p] < MaxChunks
  /\ written' = [written EXCEPT ![p] = @ + 1]
  /\ UNCHANGED <<child, stdin, open, read, got, ended, closed, noClose, killed, sub>>

CloseEnd(p) ==
  /\ open[p]
  /\ open' = [open EXCEPT ![p] = FALSE]
  /\ UNCHANGED <<child, stdin, written, read, got, ended, closed, noClose, killed, sub>>

TakeInput ==
  /\ child = "running"
  /\ stdin = "writing"
  /\ stdin' = "taken"
  /\ UNCHANGED <<child, open, written, read, got, ended, closed, noClose, killed, sub>>

Exit(code) ==
  /\ child = "running"
  /\ child' = code
  /\ UNCHANGED <<stdin, open, written, read, got, ended, closed, noClose, killed, sub>>

-----------------------------------------------------------------------------
(* The end of the subscription.  rxjs lets only the first end through, and *)
(* runs the teardown with it.                                              *)
Finish(how, over) ==
  IF sub = "open"
    THEN sub' = how /\ killed' = (killed \/ ~over)
    ELSE UNCHANGED <<sub, killed>>

(* "close" of the process, once both pipes are closed as well.             *)
FinishByCode == Finish(IF child = "0" THEN "complete" ELSE child, TRUE)

Drained(p) == ~open[p] /\ read[p] = written[p]

Data(p) ==
  /\ read[p] < written[p]
  /\ read' = [read EXCEPT ![p] = @ + 1]
  /\ got' = IF sub = "open" THEN [got EXCEPT ![p] = @ + 1] ELSE got
  /\ UNCHANGED <<child, stdin, open, written, ended, closed, noClose, killed, sub>>

(* Mutant: the process's close is taken for the last one.                  *)
PipeCloseLast(p) ==
  /\ sub # "none" /\ Drained(p) /\ ~ended[p]
  /\ ended' = [ended EXCEPT ![p] = TRUE]
  /\ UNCHANGED <<child, stdin, open, written, read, got, closed, noClose, killed, sub>>

PipeClose(p) ==
  /\ sub # "none"
  /\ Drained(p)
  /\ ~ended[p]
  /\ ended' = [ended EXCEPT ![p] = TRUE]
  /\ IF closed /\ \A q \in Pipes \ {p} : ended[q]
       THEN FinishByCode
       ELSE UNCHANGED <<sub, killed>>
  /\ UNCHANGED <<child, stdin, open, written, read, got, closed, noClose>>

(* Mutant: the process's exit is taken for its close.                      *)
ProcCloseAtExit ==
  /\ child \in Exited /\ ~closed
  /\ closed' = TRUE /\ noClose' = TRUE
  /\ FinishByCode
  /\ UNCHANGED <<child, stdin, open, written, read, got, ended>>

(* Node reports "close" of the process from within that of the last pipe,  *)
(* ahead of the handler spawn.ts has on it, or after the exit.             *)
ProcClose ==
  /\ child \in Exited \cup {"failed"}
  /\ child = "failed" => noClose
  /\ ~closed
  /\ \A p \in Pipes : Drained(p)
  /\ \E p \in Pipes : ended[p]
  /\ closed' = TRUE
  /\ noClose' = TRUE
  /\ IF \A p \in Pipes : ended[p] THEN FinishByCode ELSE UNCHANGED <<sub, killed>>
  /\ UNCHANGED <<child, stdin, open, written, read, got, ended>>

ProcError ==
  /\ child = "failed"
  /\ ~noClose
  /\ noClose' = TRUE
  /\ Finish("ENOENT", TRUE)
  /\ UNCHANGED <<child, stdin, open, written, read, got, ended, closed>>

(* Mutant: an error of the input leaves the process alone.                 *)
StdinErrorSparing ==
  /\ sub # "none" /\ stdin = "writing"
  /\ stdin' = "broken"
  /\ Finish("EPIPE", TRUE)
  /\ UNCHANGED <<child, open, written, read, got, ended, closed, noClose>>

(* The process is over, or has closed its input, before it has read all.   *)
StdinError ==
  /\ sub # "none"
  /\ stdin = "writing"
  /\ stdin' = "broken"
  /\ Finish("EPIPE", noClose)
  /\ UNCHANGED <<child, open, written, read, got, ended, closed, noClose>>

Unsubscribe ==
  /\ sub = "open"
  /\ Finish("unsubscribed", noClose)
  /\ UNCHANGED <<child, stdin, open, written, read, got, ended, closed, noClose>>

-----------------------------------------------------------------------------
External ==
  \/ \E p \in Pipes : Write(p) \/ CloseEnd(p)
  \/ TakeInput
  \/ \E code \in Exited : Exit(code)

Callback ==
  \/ \E p \in Pipes : Data(p) \/ PipeClose(p)
  \/ ProcClose \/ ProcError \/ StdinError

SpawnNext == Subscribe \/ External \/ Callback \/ Unsubscribe

SpawnSpec == SpawnInit /\ [][SpawnNext]_spawnVars

-----------------------------------------------------------------------------
(* A stream that ends by the exit code has delivered everything either     *)
(* pipe was ever given, and nothing can be written any more: the exit of   *)
(* the process is not enough (spawn.ts:123-132).                           *)
OutputComplete ==
  sub \in Codes \cup {"complete"} =>
    \A p \in Pipes : ~open[p] /\ got[p] = written[p]

(* When the subscription is over, however it ended, the process is over    *)
(* or has been killed: no formatter or linter keeps running (134-143).     *)
NoProcessLeft ==
  sub \notin {"none", "open"} => child # "running" \/ killed
=============================================================================
