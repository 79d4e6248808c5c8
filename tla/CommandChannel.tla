---------------------------- MODULE CommandChannel ----------------------------
(***************************************************************************)
(* What RubyProcess promises to the debug adapter, whatever the socket     *)
(* does: commands are numbered in the order they are issued, a command     *)
(* issued with Enqueue is settled at most once, with its own reply, after  *)
(* every awaited command issued before it, and never once the connection   *)
(* is closed.                                                              *)
(***************************************************************************)
EXTENDS Naturals, Sequences

CONSTANT MaxCalls      \* bound on the number of commands issued

VARIABLES
    calls,    \* the kind of every command issued so far, in issue order
    settled,  \* settled[n]: the command whose reply settled call n, 0 if none
    closed    \* the connection is over

vars == <<calls, settled, closed>>

\* "query": an Enqueue other than eval; "eval": Enqueue of an expression;
\* "run": Run of a command without a reply; "quit": Run of the last command.
AwaitedKinds == {"query", "eval"}
SilentKinds  == {"run", "quit"}
Kinds        == AwaitedKinds \cup SilentKinds

Awaited(n) == calls[n] \in AwaitedKinds

Init ==
    /\ calls = <<>>
    /\ settled = <<>>
    /\ closed = FALSE

Call(kind) ==
    /\ Len(calls) < MaxCalls
    /\ calls' = Append(calls, kind)
    /\ settled' = Append(settled, 0)
    /\ UNCHANGED closed

Settle(n) ==
    /\ ~closed
    /\ Awaited(n)
    /\ settled[n] = 0
    /\ \A m \in 1..(n - 1) : Awaited(m) => settled[m] # 0
    /\ settled' = [settled EXCEPT ![n] = n]
    /\ UNCHANGED <<calls, closed>>

Close ==
    /\ closed' = TRUE
    /\ UNCHANGED <<calls, settled>>

Next ==
    \/ \E kind \in Kinds : Call(kind)
    \/ \E n \in 1..Len(calls) : Settle(n)
    \/ Close

Spec == Init /\ [][Next]_vars

=============================================================================
