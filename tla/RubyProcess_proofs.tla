-------------------------- MODULE RubyProcess_proofs --------------------------
(***************************************************************************)
(* Proofs about RubyProcess for every Mode, MaxCalls, MaxStops, Quoting.   *)
(***************************************************************************)
EXTENDS RubyProcess, SequenceTheorems, FiniteSetTheorems, FunctionTheorems, TLAPS

(***************************************************************************)
(* Facts about sequences, in the form the steps use them.                  *)
(***************************************************************************)

\* A queue keeps its type when more commands have been issued.
LEMMA MoreCalls ==
    ASSUME NEW n \in Nat, NEW s \in Seq(1..n)
    PROVE  /\ s \in Seq(1..(n + 1))
           /\ Append(s, n + 1) \in Seq(1..(n + 1))
<1>1. 1..n \subseteq 1..(n + 1)
  OBVIOUS
<1>2. s \in Seq(1..(n + 1))
  BY <1>1, SeqMonotonic
<1>3. QED
  BY <1>2, AppendProperties, n + 1 \in 1..(n + 1)

\* So does a sequence of elements.
LEMMA MoreElements ==
    ASSUME NEW n \in Nat, NEW s \in Seq([cmd : 0..n, quotes : Quotes])
    PROVE  s \in Seq([cmd : 0..(n + 1), quotes : Quotes])
<1>1. [cmd : 0..n, quotes : Quotes] \subseteq [cmd : 0..(n + 1), quotes : Quotes]
  OBVIOUS
<1>2. QED
  BY <1>1, SeqMonotonic

\* Repair changes neither the number of elements nor what they answer.
LEMMA RepairKeeps ==
    ASSUME NEW n \in Nat, NEW s \in Seq([cmd : 0..n, quotes : Quotes])
    PROVE  /\ Repair(s) \in Seq([cmd : 0..n, quotes : Quotes])
           /\ Len(Repair(s)) = Len(s)
           /\ \A i \in 1..Len(s) : Repair(s)[i].cmd = s[i].cmd
<1> DEFINE E == [cmd : 0..n, quotes : Quotes]
<1>1. \A i \in 1..Len(s) : s[i] \in E
  BY ElementOfSeq
<1>2. \A i \in 1..Len(s) :
         /\ [s[i] EXCEPT !.quotes = "escaped"] \in E
         /\ [s[i] EXCEPT !.quotes = "escaped"].cmd = s[i].cmd
  BY <1>1 DEF Quotes
<1>3. Len(s) \in Nat
  BY LenProperties
<1>4. Repair(s) \in [1..Len(s) -> E]
  BY <1>1, <1>2 DEF Repair
<1>5. Repair(s) \in Seq(E)
  BY <1>3, <1>4, SeqDef
<1>6. Len(Repair(s)) = Len(s)
  BY <1>3, <1>4, <1>5, LenProperties
<1>7. \A i \in 1..Len(s) : Repair(s)[i].cmd = s[i].cmd
  BY <1>2 DEF Repair
<1>8. QED
  BY <1>5, <1>6, <1>7

(***************************************************************************)
(* Type correctness.                                                       *)
(***************************************************************************)

\* A command issued with Enqueue or Run: what NewCall, Postpone and Write do.
LEMMA NewCallTypes ==
    ASSUME TypeOK, NEW kind \in Kinds, NewCall(kind)
    PROVE  /\ Len(calls) \in Nat /\ Len(calls') = Len(calls) + 1
           /\ calls' \in Seq(Kinds)
           /\ settled' \in Seq(Nat) /\ Len(settled') = Len(calls')
<1>1. calls \in Seq(Kinds) /\ settled \in Seq(Nat) /\ Len(settled) = Len(calls)
  BY DEF TypeOK
<1>2. calls' = Append(calls, kind) /\ settled' = Append(settled, 0)
  BY DEF NewCall
<1>3. Len(calls) \in Nat
  BY <1>1, LenProperties
<1>4. QED
  BY <1>1, <1>2, <1>3, AppendProperties

\* The queues of commands, after a command was issued, postponed or written.
LEMMA QueueTypes ==
    ASSUME TypeOK, NEW kind \in Kinds, NewCall(kind)
    PROVE  /\ pendingCommands \in Seq(1..Len(calls'))
           /\ pendingResponses \in Seq(1..Len(calls'))
           /\ toDebugger \in Seq(1..Len(calls'))
           /\ Append(pendingCommands, Len(calls) + 1) \in Seq(1..Len(calls'))
           /\ Append(pendingResponses, Len(calls) + 1) \in Seq(1..Len(calls'))
           /\ Append(toDebugger, Len(calls) + 1) \in Seq(1..Len(calls'))
           /\ buffer \in Seq([cmd : 0..Len(calls'), quotes : Quotes])
           /\ wire \in Seq([cmd : 0..Len(calls'), quotes : Quotes])
<1>1. Len(calls) \in Nat /\ Len(calls') = Len(calls) + 1
  BY NewCallTypes
<1>2. QED
  BY <1>1, MoreCalls, MoreElements DEF TypeOK

\* Enqueue keeps the types.
LEMMA EnqueueType ==
    ASSUME TypeOK, NEW kind \in Kinds, Enqueue(kind)
    PROVE  TypeOK'
<1>1. NewCall(kind)
  BY DEF Enqueue
<1>2. pendingCommands' \in Seq(1..Len(calls'))
  BY <1>1, QueueTypes DEF Enqueue, Postpone
<1>3. pendingResponses' \in Seq(1..Len(calls'))
  BY <1>1, QueueTypes DEF Enqueue, Postpone
<1>4. toDebugger' \in Seq(1..Len(calls'))
  BY <1>1, QueueTypes DEF Enqueue, Postpone, Write
<1>5. QED
  BY <1>1, <1>2, <1>3, <1>4, NewCallTypes, QueueTypes DEF TypeOK, Enqueue

\* Run keeps the types of what it changes.
LEMMA RunType ==
    ASSUME TypeOK, NEW kind \in Kinds, Run(kind)
    PROVE  /\ calls' \in Seq(Kinds)
           /\ settled' \in Seq(Nat) /\ Len(settled') = Len(calls')
           /\ pendingCommands' \in Seq(1..Len(calls'))
           /\ pendingResponses' \in Seq(1..Len(calls'))
           /\ toDebugger' \in Seq(1..Len(calls'))
           /\ buffer \in Seq([cmd : 0..Len(calls'), quotes : Quotes])
           /\ wire \in Seq([cmd : 0..Len(calls'), quotes : Quotes])
<1>1. NewCall(kind)
  BY DEF Run
<1>2. pendingCommands' \in Seq(1..Len(calls'))
  BY <1>1, QueueTypes DEF Run, Postpone
<1>3. pendingResponses' \in Seq(1..Len(calls'))
  BY <1>1, QueueTypes DEF Run, Postpone
<1>4. toDebugger' \in Seq(1..Len(calls'))
  BY <1>1, QueueTypes DEF Run, Postpone, Write
<1>5. QED
  BY <1>1, <1>2, <1>3, <1>4, NewCallTypes, QueueTypes

\* Every step of the adapter and of the debugger keeps the types.
LEMMA TypeInductive == TypeOK /\ [Next]_vars => TypeOK'
<1> SUFFICES ASSUME TypeOK, [Next]_vars PROVE TypeOK'
  OBVIOUS
<1> DEFINE E == [cmd : 0..Len(calls), quotes : Quotes]
<1>0. Len(calls) \in Nat /\ buffer \in Seq(E) /\ wire \in Seq(E)
  BY LenProperties DEF TypeOK
<1>1. CASE ClientEnqueues
  BY <1>1, EnqueueType DEF ClientEnqueues, Kinds
<1>2. CASE ClientRuns
  <2>1. PICK kind \in Kinds : Run(kind)
    BY <1>2 DEF ClientRuns, Kinds, SilentKinds
  <2>2. QED
    BY <1>2, <2>1, RunType DEF ClientRuns, TypeOK, Idle
<1>3. CASE Banner
  BY <1>3 DEF Banner, TypeOK, sessionVars, debuggerVars
<1>4. CASE Access
  BY <1>4 DEF Access, TypeOK, debuggerVars, Notices
<1>5. CASE Connect
  <2>1. /\ pendingResponses' \in Seq(1..Len(calls))
        /\ toDebugger' \in Seq(1..Len(calls))
        /\ pendingCommands' \in Seq(1..Len(calls))
    BY <1>5, ConcatProperties, EmptySeq DEF Connect, TypeOK
  <2>2. QED
    BY <1>5, <2>1 DEF Connect, TypeOK, Notices
<1>6. CASE Refused
  BY <1>6 DEF Refused, SocketError, TypeOK, debuggerVars, Notices, Idle
<1>7. CASE ReceiveSome
  <2>1. PICK n \in 0..Len(wire), half \in BOOLEAN : Receive(n, half)
    BY <1>7 DEF ReceiveSome
  <2> DEFINE text == buffer \o SubSeq(wire, 1, n)
  <2>2. Len(wire) \in Nat /\ \A i \in 1..Len(wire) : wire[i] \in E
    BY <1>0, LenProperties, ElementOfSeq
  <2>3. SubSeq(wire, 1, n) \in Seq(E) /\ SubSeq(wire, n + 1, Len(wire)) \in Seq(E)
    BY <2>2, SubSeqProperties
  <2>4. text \in Seq(E) /\ Len(text) \in Nat
    BY <1>0, <2>3, ConcatProperties, LenProperties
  <2>5. buffer' \in Seq(E) /\ wire' \in Seq(E)
    BY <1>0, <2>1, <2>3, <2>4, RepairKeeps DEF Receive
  <2>6. dispatching' => buffer' # <<>>
    <3>1. SUFFICES ASSUME dispatching' PROVE buffer' # <<>>
      OBVIOUS
    <3>2. n > 0
      BY <2>1, <3>1 DEF Receive
    <3>3. Len(text) > 0
      BY <1>0, <2>2, <2>3, <3>2, ConcatProperties, SubSeqProperties, LenProperties
    <3>4. Len(buffer') > 0
      BY <1>0, <2>1, <2>4, <3>3, RepairKeeps DEF Receive
    <3>5. QED
      BY <3>4, EmptySeq
  <2>7. QED
    BY <2>1, <2>5, <2>6 DEF Receive, TypeOK, sessionVars
<1>8. CASE FinishCmd
  <2>1. buffer # <<>> /\ Head(buffer) \in E /\ buffer' \in Seq(E)
    BY <1>0, <1>8, HeadTailProperties DEF FinishCmd, NextNode, TypeOK
  <2>2. /\ pendingResponses' \in Seq(1..Len(calls))
        /\ settled' \in Seq(Nat) /\ Len(settled') = Len(calls)
    <3>1. CASE pendingResponses = <<>>
      BY <1>8, <3>1 DEF FinishCmd, TypeOK
    <3>2. CASE pendingResponses # <<>>
      <4>1. /\ Head(pendingResponses) \in 1..Len(settled)
            /\ Tail(pendingResponses) \in Seq(1..Len(calls))
        BY <3>2, HeadTailProperties DEF TypeOK
      <4>2. Head(buffer).cmd \in Nat
        BY <2>1, <1>0
      <4>3. /\ pendingResponses' = Tail(pendingResponses)
            /\ \/ settled' = settled
               \/ settled' = [settled EXCEPT ![Head(pendingResponses)] = Head(buffer).cmd]
        BY <1>8, <3>2, Zenon DEF FinishCmd
      <4>4. settled \in Seq(Nat) /\ Len(settled) = Len(calls)
        BY DEF TypeOK
      <4>5. /\ [settled EXCEPT ![Head(pendingResponses)] = Head(buffer).cmd] \in Seq(Nat)
            /\ Len([settled EXCEPT ![Head(pendingResponses)] = Head(buffer).cmd]) = Len(settled)
        BY <4>1, <4>2, <4>4, ExceptSeq
      <4>6. QED
        BY <4>1, <4>3, <4>4, <4>5
    <3>3. QED
      BY <3>1, <3>2
  <2>3. QED
    BY <1>8, <2>1, <2>2 DEF FinishCmd, NextNode, TypeOK
<1>9. CASE EmitStop
  <2>1. /\ buffer # <<>> /\ buffer' = Tail(buffer)
        /\ dispatching' = (buffer' # <<>>) /\ dispatching' \in BOOLEAN
        /\ emitted' \in Nat /\ state = "connected"
    BY <1>9 DEF EmitStop, NextNode, TypeOK
  <2>2. /\ calls' \in Seq(Kinds)
        /\ settled' \in Seq(Nat) /\ Len(settled') = Len(calls')
        /\ pendingCommands' \in Seq(1..Len(calls'))
        /\ pendingResponses' \in Seq(1..Len(calls'))
        /\ toDebugger' \in Seq(1..Len(calls'))
        /\ buffer \in Seq([cmd : 0..Len(calls'), quotes : Quotes])
        /\ wire \in Seq([cmd : 0..Len(calls'), quotes : Quotes])
    <3>1. CASE Run("run")
      BY <3>1, RunType DEF Kinds, SilentKinds
    <3>2. CASE UNCHANGED <<calls, settled, pendingCommands, pendingResponses, toDebugger>>
      BY <3>2 DEF TypeOK
    <3>3. QED
      BY <1>9, <3>1, <3>2 DEF EmitStop
  <2>3. buffer' \in Seq([cmd : 0..Len(calls'), quotes : Quotes])
    BY <2>1, <2>2, HeadTailProperties
  <2>4. QED
    BY <1>9, <2>1, <2>2, <2>3 DEF EmitStop, NextNode, TypeOK
<1>10. CASE SocketEnd
  BY <1>10 DEF SocketEnd, TypeOK, debuggerVars, Notices, Idle
<1>11. CASE SocketReset
  BY <1>11 DEF SocketReset, SocketError, TypeOK, debuggerVars, Notices, Idle
<1>12. CASE ChildExit
  BY <1>12 DEF ChildExit, TypeOK, adapterVars, debuggerVars, Notices
<1>13. CASE SpawnError
  BY <1>13 DEF SpawnError, TypeOK, adapterVars, Notices
<1>14. CASE Answer
  <2>1. /\ Head(toDebugger) \in 1..Len(calls)
        /\ Tail(toDebugger) \in Seq(1..Len(calls))
    BY <1>14, HeadTailProperties DEF Answer, TypeOK
  <2>2. wire' \in Seq(E)
    BY <1>0, <1>14, <2>1, AppendProperties DEF Answer
  <2>3. QED
    BY <1>14, <2>1, <2>2 DEF Answer, TypeOK, adapterVars, sessionVars
<1>15. CASE Obey
  <2>1. Tail(toDebugger) \in Seq(1..Len(calls))
    BY <1>15, HeadTailProperties DEF Obey, TypeOK
  <2>2. QED
    BY <1>15, <2>1 DEF Obey, TypeOK, adapterVars, sessionVars
<1>16. CASE ObeyQuit
  <2>1. Head(toDebugger) \in 1..Len(calls)
    BY <1>16, HeadTailProperties DEF ObeyQuit, TypeOK
  <2>2. wire' \in Seq(E)
    <3>1. [cmd |-> Head(toDebugger), quotes |-> "escaped"] \in E
      BY <1>0, <2>1 DEF Quotes
    <3>2. Append(wire, [cmd |-> Head(toDebugger), quotes |-> "escaped"]) \in Seq(E)
      BY <1>0, <3>1, AppendProperties
    <3>3. QED
      BY <1>0, <1>16, <3>2 DEF ObeyQuit
  <2>3. toDebugger' \in Seq(1..Len(calls))
    BY <1>16, EmptySeq DEF ObeyQuit
  <2>4. QED
    BY <1>16, <2>2, <2>3 DEF ObeyQuit, TypeOK, adapterVars, sessionVars
<1>17. CASE Stop
  <2>1. wire' \in Seq(E)
    BY <1>0, <1>17, AppendProperties DEF Stop, Quotes
  <2>2. QED
    BY <1>17, <2>1 DEF Stop, TypeOK, adapterVars, sessionVars
<1>18. CASE Die
  <2>1. wire' \in Seq(E) /\ toDebugger' \in Seq(1..Len(calls))
    BY <1>0, <1>18, EmptySeq DEF Die
  <2>2. QED
    BY <1>18, <2>1 DEF Die, TypeOK, adapterVars, sessionVars
<1>19. CASE UNCHANGED vars
  BY <1>19 DEF vars, adapterVars, sessionVars, debuggerVars, TypeOK
<1>20. QED
  BY <1>1, <1>2, <1>3, <1>4, <1>5, <1>6, <1>7, <1>8, <1>9, <1>10, <1>11, <1>12,
     <1>13, <1>14, <1>15, <1>16, <1>17, <1>18, <1>19 DEF Next, Adapter, Debugger

\* The types hold when the RubyProcess is constructed.
LEMMA InitType == Init => TypeOK
<1> SUFFICES ASSUME Init PROVE TypeOK
  OBVIOUS
<1>1. Len(calls) = 0 /\ Len(settled) = 0
  BY EmptySeq DEF Init
<1>2. QED
  BY <1>1, EmptySeq DEF Init, TypeOK

\* Every reachable state is well typed, for every bound: the queues only ever
\* hold numbers of issued commands, and the dispatch loop always has a node.
THEOREM TypeCorrect == Spec => []TypeOK
BY InitType, TypeInductive, PTL DEF Spec

(***************************************************************************)
(* Replies match.  Core is the part of IInv about the queues; each lemma   *)
(* below is one way in which a step changes them.                          *)
(***************************************************************************)

Core == InOrder /\ QuitIsLast /\ Expectations /\ Unsettled /\ RepliesMatch

\* The step drops the first off elements that are in flight.
Shifted(off) ==
    /\ Len(InFlight') = Len(InFlight) - off
    /\ \A i \in 1..Len(InFlight') : InFlight'[i].cmd = InFlight[i + off].cmd

\* The length and the members of what is in flight.
LEMMA FlowTypes ==
    ASSUME TypeOK
    PROVE  /\ Len(calls) \in Nat /\ Len(InFlight) \in Nat
           /\ Len(buffer) \in Nat /\ Len(wire) \in Nat
           /\ Len(InFlight) = Len(buffer) + Len(wire)
           /\ \A i \in 1..Len(InFlight) :
                 /\ InFlight[i].cmd \in 0..Len(calls)
                 /\ InFlight[i] = IF i <= Len(buffer) THEN buffer[i]
                                  ELSE wire[i - Len(buffer)]
<1> DEFINE E == [cmd : 0..Len(calls), quotes : Quotes]
<1>1. buffer \in Seq(E) /\ wire \in Seq(E) /\ Len(calls) \in Nat
  BY LenProperties DEF TypeOK
<1>2. /\ InFlight \in Seq(E)
      /\ Len(InFlight) = Len(buffer) + Len(wire)
      /\ \A i \in 1..(Len(buffer) + Len(wire)) :
            InFlight[i] = IF i <= Len(buffer) THEN buffer[i] ELSE wire[i - Len(buffer)]
  BY <1>1, ConcatProperties DEF InFlight
<1>3. \A i \in 1..Len(InFlight) : InFlight[i] \in E
  BY <1>2, ElementOfSeq
<1>4. Len(InFlight) \in Nat /\ Len(buffer) \in Nat /\ Len(wire) \in Nat
  BY <1>1, <1>2, LenProperties
<1>5. QED
  BY <1>1, <1>2, <1>3, <1>4

\* The queues hold numbers of calls.
LEMMA QueueElements ==
    ASSUME TypeOK
    PROVE  /\ Len(pendingCommands) \in Nat /\ Len(pendingResponses) \in Nat
           /\ Len(toDebugger) \in Nat /\ Len(calls) \in Nat
           /\ Len(settled) = Len(calls)
           /\ \A i \in 1..Len(pendingCommands) : pendingCommands[i] \in 1..Len(calls)
           /\ \A i \in 1..Len(pendingResponses) : pendingResponses[i] \in 1..Len(calls)
           /\ \A i \in 1..Len(toDebugger) : toDebugger[i] \in 1..Len(calls)
           /\ \A i \in 1..Len(calls) : calls[i] \in Kinds
BY LenProperties, ElementOfSeq DEF TypeOK

\* What is in flight after a step that drops off elements from its front.
LEMMA ShiftFlow ==
    ASSUME TypeOK, Core, NEW off \in {0, 1}, Shifted(off), off <= Len(InFlight)
    PROVE  /\ Len(InFlight') \in Nat
           /\ \A i, j \in 1..Len(InFlight') :
                 i < j /\ InFlight'[j].cmd # 0 => InFlight'[i].cmd < InFlight'[j].cmd
           /\ \A i \in 1..Len(InFlight') :
                 \E k \in 1..Len(InFlight) : InFlight'[i].cmd = InFlight[k].cmd
           /\ \A n \in 1..Len(calls) :
                 Answering(n) /\ (off = 1 => InFlight[1].cmd # n) => Answering(n)'
<1>1. /\ Len(InFlight) \in Nat /\ Len(InFlight') \in Nat
      /\ Len(InFlight') = Len(InFlight) - off
      /\ \A i \in 1..Len(InFlight') :
            i + off \in 1..Len(InFlight) /\ InFlight'[i].cmd = InFlight[i + off].cmd
  BY SMTT(30), FlowTypes DEF Shifted
<1>2. ASSUME NEW i \in 1..Len(InFlight'), NEW j \in 1..Len(InFlight'),
             i < j, InFlight'[j].cmd # 0
      PROVE  InFlight'[i].cmd < InFlight'[j].cmd
  <2>1. /\ i + off \in 1..Len(InFlight) /\ j + off \in 1..Len(InFlight)
        /\ i + off < j + off
    BY <1>1, <1>2
  <2>2. /\ InFlight'[i].cmd = InFlight[i + off].cmd
        /\ InFlight'[j].cmd = InFlight[j + off].cmd
    BY <1>1
  <2>3. QED
    BY <1>2, <2>1, <2>2 DEF Core, InOrder
<1>3. ASSUME NEW n \in 1..Len(calls), Answering(n), off = 1 => InFlight[1].cmd # n
      PROVE  Answering(n)'
  <2>1. PICK k \in 1..Len(InFlight) : InFlight[k].cmd = n
    BY <1>3 DEF Answering
  <2>2. k - off \in 1..Len(InFlight') /\ (k - off) + off = k
    BY <1>1, <1>3, <2>1
  <2>3. InFlight'[k - off].cmd = n
    BY <1>1, <2>1, <2>2
  <2>4. QED
    BY <2>2, <2>3 DEF Answering
<1>4. \A i \in 1..Len(InFlight') :
        \E k \in 1..Len(InFlight) : InFlight'[i].cmd = InFlight[k].cmd
  BY <1>1
<1>5. QED
  BY <1>1, <1>2, <1>3, <1>4

\* Nothing changes but which elements are in flight: a stop event may leave.
LEMMA ShiftKeepsCore ==
    ASSUME TypeOK, Core, NEW off \in {0, 1}, Shifted(off), off <= Len(InFlight),
           off = 1 => InFlight[1].cmd = 0,
           UNCHANGED <<calls, settled, pendingCommands, pendingResponses,
                       toDebugger, alive>>
    PROVE  Core'
<1>1. /\ Len(InFlight') \in Nat
      /\ \A i, j \in 1..Len(InFlight') :
            i < j /\ InFlight'[j].cmd # 0 => InFlight'[i].cmd < InFlight'[j].cmd
      /\ \A i \in 1..Len(InFlight') :
            \E k \in 1..Len(InFlight) : InFlight'[i].cmd = InFlight[k].cmd
      /\ \A n \in 1..Len(calls) : Answering(n) => Answering(n)'
  BY ShiftFlow
<1>2. InOrder'
  <2>1. \A i \in 1..Len(InFlight'), j \in 1..Len(toDebugger) :
          InFlight'[i].cmd < toDebugger[j]
    BY <1>1 DEF Core, InOrder
  <2>2. QED
    BY <1>1, <2>1 DEF Core, InOrder, Increasing
<1>3. QuitIsLast'
  <2>1. \A i \in 1..Len(InFlight') :
          InFlight'[i].cmd # 0 => calls[InFlight'[i].cmd] # "run"
    BY <1>1 DEF Core, QuitIsLast
  <2>2. QED
    BY <2>1 DEF Core, QuitIsLast
<1>4. Expectations'
  <2>1. \A i \in 1..Len(InFlight') :
          InFlight'[i].cmd # 0 /\ Awaited(InFlight'[i].cmd) =>
              Among(InFlight'[i].cmd, pendingResponses)
    BY <1>1 DEF Core, Expectations
  <2>2. ASSUME NEW n \in 1..Len(calls), Awaited(n), Among(n, pendingResponses)
        PROVE  /\ alive => Answering(n)' \/ Among(n, toDebugger)
               /\ \A i \in 1..Len(InFlight') : n < InFlight'[i].cmd => Answering(n)'
    BY <1>1, <2>2 DEF Core, Expectations
  <2>3. QED
    BY <2>1, <2>2 DEF Core, Expectations, Among, Awaited
<1>5. Unsettled' /\ RepliesMatch'
  BY DEF Core, Unsettled, RepliesMatch, Among, Awaited
<1>6. QED
  BY <1>2, <1>3, <1>4, <1>5 DEF Core

\* Queueing the newest command keeps a queue in order.
LEMMA Queueing ==
    ASSUME NEW n \in Nat, NEW s \in Seq(1..n), Increasing(s)
    PROVE  /\ Increasing(Append(s, n + 1))
           /\ \A m : Among(m, Append(s, n + 1)) <=> Among(m, s) \/ m = n + 1
           /\ \A i \in 1..Len(Append(s, n + 1)) :
                 Append(s, n + 1)[i] = n + 1 \/ \E k \in 1..Len(s) : Append(s, n + 1)[i] = s[k]
<1> DEFINE t == Append(s, n + 1)
<1>1. /\ Len(s) \in Nat /\ Len(t) = Len(s) + 1 /\ t[Len(s) + 1] = n + 1
      /\ \A i \in 1..Len(s) : t[i] = s[i] /\ s[i] \in 1..n
  BY AppendProperties, MoreCalls, LenProperties, ElementOfSeq
<1>2. \A i \in 1..Len(t) : i \in 1..Len(s) \/ i = Len(s) + 1
  BY <1>1
<1>3. Increasing(t)
  <2>1. SUFFICES ASSUME NEW i \in 1..Len(t), NEW j \in 1..Len(t), i < j
                 PROVE  t[i] < t[j]
    BY DEF Increasing
  <2>2. i \in 1..Len(s)
    BY <1>1, <2>1
  <2>3. QED
    BY <1>1, <1>2, <2>1, <2>2 DEF Increasing
<1>4. \A m : Among(m, t) <=> Among(m, s) \/ m = n + 1
  <2>1. ASSUME NEW m, Among(m, t) PROVE Among(m, s) \/ m = n + 1
    BY <1>1, <1>2, <2>1 DEF Among
  <2>2. ASSUME NEW m, Among(m, s) PROVE Among(m, t)
    BY <1>1, <2>2 DEF Among
  <2>3. Among(n + 1, t)
    BY <1>1 DEF Among
  <2>4. QED
    BY <2>1, <2>2, <2>3
<1>5. QED
  BY <1>1, <1>2, <1>3, <1>4

\* What a step that issues a command does to the queues.
Queued(kind) ==
    LET n == Len(calls) + 1 IN
    \/ /\ pendingCommands' = Append(pendingCommands, n)
       /\ UNCHANGED <<pendingResponses, toDebugger>>
    \/ /\ UNCHANGED pendingCommands
       /\ toDebugger' = IF alive THEN Append(toDebugger, n) ELSE toDebugger
       /\ pendingResponses' = IF kind \in AwaitedKinds
                              THEN Append(pendingResponses, n) ELSE pendingResponses

\* A command is issued, while a stop event may leave.
LEMMA IssueKeepsCore ==
    ASSUME TypeOK, Core, NEW kind \in Kinds, NewCall(kind), Queued(kind),
           Quitting => kind = "run", UNCHANGED alive,
           NEW off \in {0, 1}, Shifted(off), off <= Len(InFlight),
           off = 1 => InFlight[1].cmd = 0
    PROVE  Core'
<1> DEFINE N == Len(calls)
<1>1. /\ N \in Nat /\ Len(calls') = N + 1
      /\ calls'[N + 1] = kind /\ settled'[N + 1] = 0
      /\ \A m \in 1..N : calls'[m] = calls[m] /\ settled'[m] = settled[m]
  <2>1. calls \in Seq(Kinds) /\ settled \in Seq(Nat) /\ Len(settled) = Len(calls)
    BY DEF TypeOK
  <2>2. calls' = Append(calls, kind) /\ settled' = Append(settled, 0)
    BY DEF NewCall
  <2>3. QED
    BY <2>1, <2>2, LenProperties, AppendProperties
<1>2. \A m \in 1..N : Awaited(m)' <=> Awaited(m)
  BY <1>1 DEF Awaited
<1>3. /\ Len(InFlight') \in Nat
      /\ \A i, j \in 1..Len(InFlight') :
            i < j /\ InFlight'[j].cmd # 0 => InFlight'[i].cmd < InFlight'[j].cmd
      /\ \A i \in 1..Len(InFlight') :
            \E k \in 1..Len(InFlight) : InFlight'[i].cmd = InFlight[k].cmd
      /\ \A n \in 1..N : Answering(n) => Answering(n)'
  BY ShiftFlow
<1>4. \A i \in 1..Len(InFlight) : InFlight[i].cmd \in 0..N
  BY FlowTypes
<1>5. /\ pendingCommands \in Seq(1..N) /\ Increasing(pendingCommands)
      /\ pendingResponses \in Seq(1..N) /\ Increasing(pendingResponses)
      /\ toDebugger \in Seq(1..N) /\ Increasing(toDebugger)
  BY DEF TypeOK, Core, InOrder
<1>6. \A m : /\ Among(m, pendingCommands) => m \in 1..N
             /\ Among(m, pendingResponses) => m \in 1..N
             /\ Among(m, toDebugger) => m \in 1..N
  BY QueueElements DEF Among
<1>A. \A s \in Seq(1..N) : Increasing(s) =>
        /\ Increasing(Append(s, N + 1))
        /\ \A m : Among(m, Append(s, N + 1)) <=> Among(m, s) \/ m = N + 1
        /\ \A i \in 1..Len(Append(s, N + 1)) :
              Append(s, N + 1)[i] = N + 1 \/ \E k \in 1..Len(s) : Append(s, N + 1)[i] = s[k]
  BY <1>1, Queueing
<1> DEFINE Grown(s, t) ==
        /\ Increasing(t)
        /\ \A m \in 1..N : Among(m, t) <=> Among(m, s)
        /\ \A i \in 1..Len(t) : t[i] = N + 1 \/ \E k \in 1..Len(s) : t[i] = s[k]
<1>B. \A m \in 1..N : m # N + 1
  BY <1>1
<1>C. \A s \in Seq(1..N) : Increasing(s) => Grown(s, s) /\ Grown(s, Append(s, N + 1))
  BY <1>A, <1>B
<1>E. /\ pendingCommands' \in {pendingCommands, Append(pendingCommands, N + 1)}
      /\ pendingResponses' \in {pendingResponses, Append(pendingResponses, N + 1)}
      /\ toDebugger' \in {toDebugger, Append(toDebugger, N + 1)}
  BY DEF Queued
<1> HIDE DEF Grown
<1>F. /\ Grown(pendingCommands, pendingCommands')
      /\ Grown(pendingResponses, pendingResponses')
      /\ Grown(toDebugger, toDebugger')
  BY <1>5, <1>C, <1>E
<1> USE DEF Grown
<1>7. /\ Increasing(pendingCommands')
      /\ \A m \in 1..N : Among(m, pendingCommands') <=> Among(m, pendingCommands)
  BY <1>F
<1>8. /\ Increasing(pendingResponses')
      /\ \A m \in 1..N : Among(m, pendingResponses') <=> Among(m, pendingResponses)
      /\ \A i \in 1..Len(pendingResponses') :
            \/ pendingResponses'[i] = N + 1
            \/ \E k \in 1..Len(pendingResponses) : pendingResponses'[i] = pendingResponses[k]
  BY <1>F
<1>9. /\ Increasing(toDebugger')
      /\ \A m \in 1..N : Among(m, toDebugger') <=> Among(m, toDebugger)
      /\ \A i \in 1..Len(toDebugger') :
            toDebugger'[i] = N + 1 \/ \E k \in 1..Len(toDebugger) : toDebugger'[i] = toDebugger[k]
  BY <1>F
<1>D. N + 1 \notin 1..N
  BY <1>1
<1>10. /\ kind \in AwaitedKinds => Among(N + 1, pendingCommands') \/ Among(N + 1, pendingResponses')
       /\ Among(N + 1, pendingResponses') =>
             kind \in AwaitedKinds /\ (alive => Among(N + 1, toDebugger'))
  <2>1. CASE /\ pendingCommands' = Append(pendingCommands, N + 1)
             /\ UNCHANGED <<pendingResponses, toDebugger>>
    BY <1>5, <1>6, <1>A, <1>D, <2>1
  <2>2. CASE /\ UNCHANGED pendingCommands
             /\ toDebugger' = IF alive THEN Append(toDebugger, N + 1) ELSE toDebugger
             /\ pendingResponses' = IF kind \in AwaitedKinds
                                    THEN Append(pendingResponses, N + 1) ELSE pendingResponses
    BY <1>5, <1>6, <1>A, <1>D, <2>2
  <2>3. QED
    BY <2>1, <2>2 DEF Queued
<1>11. InOrder'
  <2>1. \A i \in 1..Len(InFlight'), j \in 1..Len(toDebugger') :
          InFlight'[i].cmd < toDebugger'[j]
    <3>1. \A k \in 1..Len(InFlight), j \in 1..Len(toDebugger') :
            InFlight[k].cmd < toDebugger'[j]
      <4>1. SUFFICES ASSUME NEW k \in 1..Len(InFlight), NEW j \in 1..Len(toDebugger')
                     PROVE  InFlight[k].cmd < toDebugger'[j]
        OBVIOUS
      <4>2. CASE toDebugger'[j] = N + 1
        BY <1>1, <1>4, <4>2
      <4>3. CASE \E l \in 1..Len(toDebugger) : toDebugger'[j] = toDebugger[l]
        BY <4>3 DEF Core, InOrder
      <4>4. QED
        BY <1>9, <4>2, <4>3
    <3>2. QED
      BY <1>3, <3>1
  <2>2. QED
    BY <1>3, <1>7, <1>8, <1>9, <2>1 DEF InOrder, Increasing
<1>12. QuitIsLast'
  <2>1. \A n, m \in 1..(N + 1) : calls'[n] = "quit" /\ n < m => calls'[m] = "run"
    <3>1. SUFFICES ASSUME NEW n \in 1..(N + 1), NEW m \in 1..(N + 1),
                          calls'[n] = "quit", n < m
                   PROVE  calls'[m] = "run"
      OBVIOUS
    <3>2. n \in 1..N /\ calls[n] = "quit"
      BY <1>1, <3>1
    <3>3. CASE m \in 1..N
      BY <1>1, <3>1, <3>2, <3>3 DEF Core, QuitIsLast
    <3>4. CASE m = N + 1
      BY <1>1, <3>2, <3>4 DEF Quitting
    <3>5. QED
      BY <1>1, <3>3, <3>4
  <2>2. \A i \in 1..Len(pendingResponses') : calls'[pendingResponses'[i]] # "run"
    <3>1. SUFFICES ASSUME NEW i \in 1..Len(pendingResponses')
                   PROVE  calls'[pendingResponses'[i]] # "run"
      OBVIOUS
    <3>2. CASE pendingResponses' = pendingResponses
      <4>1. /\ pendingResponses[i] \in 1..N /\ calls[pendingResponses[i]] # "run"
        BY <3>2, QueueElements DEF Core, QuitIsLast
      <4>2. QED
        BY <1>1, <3>2, <4>1
    <3>3. CASE pendingResponses' = Append(pendingResponses, N + 1) /\ kind \in AwaitedKinds
      <4>1. CASE pendingResponses'[i] = N + 1
        BY <1>1, <3>3, <4>1 DEF AwaitedKinds
      <4>2. CASE \E k \in 1..Len(pendingResponses) : pendingResponses'[i] = pendingResponses[k]
        <5>1. PICK k \in 1..Len(pendingResponses) : pendingResponses'[i] = pendingResponses[k]
          BY <4>2
        <5>2. pendingResponses[k] \in 1..N /\ calls[pendingResponses[k]] # "run"
          BY QueueElements DEF Core, QuitIsLast
        <5>3. QED
          BY <1>1, <5>1, <5>2
      <4>3. QED
        BY <1>8, <4>1, <4>2
    <3>4. QED
      BY <3>2, <3>3 DEF Queued
  <2>3. \A i \in 1..Len(InFlight') :
          InFlight'[i].cmd # 0 => calls'[InFlight'[i].cmd] # "run"
    BY SMTT(30), <1>1, <1>3, <1>4 DEF Core, QuitIsLast
  <2>4. QED
    BY <1>1, <2>1, <2>2, <2>3 DEF QuitIsLast
<1>13. Expectations'
  <2>1. ASSUME NEW i \in 1..Len(InFlight'), InFlight'[i].cmd # 0,
               calls'[InFlight'[i].cmd] \in AwaitedKinds
        PROVE  Among(InFlight'[i].cmd, pendingResponses')
    <3>1. PICK k \in 1..Len(InFlight) : InFlight'[i].cmd = InFlight[k].cmd
      BY <1>3
    <3>2. InFlight[k].cmd \in 1..N /\ Awaited(InFlight[k].cmd)
      BY <1>1, <1>4, <2>1, <3>1 DEF Awaited
    <3>3. Among(InFlight[k].cmd, pendingResponses)
      BY <3>2 DEF Core, Expectations
    <3>4. QED
      BY <1>8, <3>1, <3>2, <3>3
  <2>2. ASSUME NEW n \in 1..(N + 1), Awaited(n)', Among(n, pendingResponses')
        PROVE  /\ alive => Answering(n)' \/ Among(n, toDebugger')
               /\ \A i \in 1..Len(InFlight') : n < InFlight'[i].cmd => Answering(n)'
    <3>1. CASE n \in 1..N
      <4>1. Awaited(n) /\ Among(n, pendingResponses)
        BY <1>2, <1>8, <2>2, <3>1
      <4>2. /\ alive => Answering(n) \/ Among(n, toDebugger)
            /\ \A i \in 1..Len(InFlight) : n < InFlight[i].cmd => Answering(n)
        BY <3>1, <4>1 DEF Core, Expectations
      <4>3. QED
        BY <1>3, <1>9, <3>1, <4>2
    <3>2. CASE n = N + 1
      <4>1. Among(N + 1, toDebugger') \/ ~alive
        BY <1>10, <2>2, <3>2
      <4>2. \A i \in 1..Len(InFlight') : ~(N + 1 < InFlight'[i].cmd)
        <5>1. SUFFICES ASSUME NEW i \in 1..Len(InFlight')
                       PROVE  ~(N + 1 < InFlight'[i].cmd)
          OBVIOUS
        <5>2. PICK k \in 1..Len(InFlight) : InFlight'[i].cmd = InFlight[k].cmd
          BY <1>3
        <5>3. InFlight[k].cmd \in 0..N
          BY <1>4
        <5>4. QED
          BY <1>1, <5>2, <5>3
      <4>3. QED
        BY <3>2, <4>1, <4>2
    <3>3. QED
      BY <1>1, <3>1, <3>2
  <2>3. \A i \in 1..Len(InFlight') :
          InFlight'[i].cmd # 0 /\ calls'[InFlight'[i].cmd] \in AwaitedKinds =>
              Among(InFlight'[i].cmd, pendingResponses')
    BY <2>1
  <2>4. \A n \in 1..Len(calls') :
          calls'[n] \in AwaitedKinds /\ Among(n, pendingResponses') =>
              /\ alive' => Answering(n)' \/ Among(n, toDebugger')
              /\ \A i \in 1..Len(InFlight') : n < InFlight'[i].cmd => Answering(n)'
    BY <1>1, <2>2 DEF Awaited
  <2>5. ASSUME NEW j \in 1..Len(toDebugger'), calls'[toDebugger'[j]] \in AwaitedKinds
        PROVE  Among(toDebugger'[j], pendingResponses')
    <3>1. CASE toDebugger'[j] = N + 1
      BY SMTT(30), <1>1, <1>E, <1>5, <1>6, <1>A, <1>D, <2>5, <3>1 DEF Queued, Among
    <3>2. CASE \E k \in 1..Len(toDebugger) : toDebugger'[j] = toDebugger[k]
      <4>1. PICK k \in 1..Len(toDebugger) : toDebugger'[j] = toDebugger[k]
        BY <3>2
      <4>2. toDebugger[k] \in 1..N /\ Awaited(toDebugger[k])
        BY <1>1, <2>5, <4>1, QueueElements DEF Awaited
      <4>3. Among(toDebugger[k], pendingResponses)
        BY <4>2 DEF Core, Expectations
      <4>4. QED
        BY <1>8, <4>1, <4>2, <4>3
    <3>3. QED
      BY <1>9, <3>1, <3>2
  <2>6. QED
    BY <2>3, <2>4, <2>5 DEF Expectations, Among, Awaited
<1>14. Unsettled'
  <2>1. SUFFICES ASSUME NEW n \in 1..(N + 1)
                 PROVE  IF Awaited(n)'
                        THEN settled'[n] = 0 <=> Among(n, pendingResponses') \/ Among(n, pendingCommands')
                        ELSE settled'[n] = 0
    BY <1>1 DEF Unsettled, Among, Awaited
  <2>2. CASE n \in 1..N
    BY <1>1, <1>2, <1>7, <1>8, <2>2 DEF Core, Unsettled
  <2>3. CASE n = N + 1
    <3>1. settled'[n] = 0 /\ (Awaited(n)' <=> kind \in AwaitedKinds)
      BY <1>1, <2>3 DEF Awaited
    <3>2. QED
      BY <1>10, <2>3, <3>1
  <2>4. QED
    BY <1>1, <2>2, <2>3
<1>15. RepliesMatch'
  BY <1>1 DEF Core, RepliesMatch
<1>16. QED
  BY <1>11, <1>12, <1>13, <1>14, <1>15 DEF Core

\* The debugger puts the element c on the wire: a reply to the command it has
\* just taken, or a stop event (c = 0).
LEMMA AppendKeepsCore ==
    ASSUME TypeOK, Core, NEW c \in 0..Len(calls),
           Len(InFlight') = Len(InFlight) + 1,
           \A i \in 1..Len(InFlight) : InFlight'[i].cmd = InFlight[i].cmd,
           InFlight'[Len(InFlight) + 1].cmd = c,
           UNCHANGED <<calls, settled, pendingCommands, pendingResponses>>,
           Increasing(toDebugger'),
           \A j \in 1..Len(toDebugger') :
               /\ \E k \in 1..Len(toDebugger) : toDebugger'[j] = toDebugger[k]
               /\ c < toDebugger'[j],
           c # 0 => /\ Among(c, toDebugger)
                    /\ calls[c] # "run"
                    /\ \A n \in 1..Len(calls) :
                          Awaited(n) /\ Among(n, pendingResponses) /\ n < c => Answering(n),
           alive' => alive /\ \A n \in 1..Len(calls) :
                                 Among(n, toDebugger) => Among(n, toDebugger') \/ n = c
    PROVE  Core'
<1> DEFINE L == Len(InFlight)
<1>1. /\ L \in Nat /\ \A i \in 1..L : InFlight[i].cmd \in 0..Len(calls)
      /\ Len(calls) \in Nat
      /\ \A i \in 1..(L + 1) : i \in 1..L \/ i = L + 1
  BY FlowTypes
<1>2. /\ Len(toDebugger) \in Nat
      /\ \A j \in 1..Len(toDebugger) : toDebugger[j] \in 1..Len(calls)
  BY QueueElements
<1>3. c # 0 => \A i \in 1..L : InFlight[i].cmd < c
  BY DEF Core, InOrder, Among
<1>4. /\ c \in Nat
      /\ \A n \in 1..Len(calls) : n \in Nat /\ n # 0
  BY <1>1
<1>5. ASSUME NEW n \in 1..Len(calls)
      PROVE  Answering(n)' <=> Answering(n) \/ n = c
  <2>1. ASSUME Answering(n) PROVE Answering(n)'
    BY <1>1, <2>1 DEF Answering
  <2>2. ASSUME n = c PROVE Answering(n)'
    BY <1>1, <2>2 DEF Answering
  <2>3. ASSUME Answering(n)' PROVE Answering(n) \/ n = c
    BY <1>1, <2>3 DEF Answering
  <2>4. QED
    BY <2>1, <2>2, <2>3
<1>6. InOrder'
  <2>1. ASSUME NEW i \in 1..(L + 1), NEW j \in 1..(L + 1), i < j, InFlight'[j].cmd # 0
        PROVE  InFlight'[i].cmd < InFlight'[j].cmd
    <3>1. i \in 1..L
      BY <1>1, <2>1
    <3>2. CASE j \in 1..L
      BY <2>1, <3>1, <3>2 DEF Core, InOrder
    <3>3. CASE j = L + 1
      BY <1>3, <2>1, <3>1, <3>3
    <3>4. QED
      BY <1>1, <3>2, <3>3
  <2>2. ASSUME NEW i \in 1..(L + 1), NEW j \in 1..Len(toDebugger')
        PROVE  InFlight'[i].cmd < toDebugger'[j]
    <3>1. CASE i \in 1..L
      BY <3>1 DEF Core, InOrder
    <3>2. CASE i = L + 1
      BY <3>2
    <3>3. QED
      BY <1>1, <3>1, <3>2
  <2>3. QED
    BY <1>1, <2>1, <2>2 DEF Core, InOrder, Increasing
<1>7. QuitIsLast'
  <2>1. ASSUME NEW i \in 1..(L + 1), InFlight'[i].cmd # 0
        PROVE  calls[InFlight'[i].cmd] # "run"
    BY <1>1, <2>1 DEF Core, QuitIsLast
  <2>2. QED
    BY <1>1, <2>1 DEF Core, QuitIsLast
<1>8. Expectations'
  <2>1. ASSUME NEW i \in 1..(L + 1), InFlight'[i].cmd # 0, calls[InFlight'[i].cmd] \in AwaitedKinds
        PROVE  Among(InFlight'[i].cmd, pendingResponses)
    <3>1. CASE i \in 1..L
      BY <2>1, <3>1 DEF Core, Expectations, Awaited
    <3>2. CASE i = L + 1
      <4>1. PICK k \in 1..Len(toDebugger) : toDebugger[k] = c
        BY <2>1, <3>2 DEF Among
      <4>2. QED
        BY <2>1, <3>2, <4>1 DEF Core, Expectations, Awaited
    <3>3. QED
      BY <1>1, <3>1, <3>2
  <2>2. ASSUME NEW j \in 1..Len(toDebugger'), calls[toDebugger'[j]] \in AwaitedKinds
        PROVE  Among(toDebugger'[j], pendingResponses)
    BY <2>2 DEF Core, Expectations, Awaited
  <2>3. ASSUME NEW n \in 1..Len(calls), Awaited(n), Among(n, pendingResponses)
        PROVE  /\ alive' => Answering(n)' \/ Among(n, toDebugger')
               /\ \A i \in 1..(L + 1) : n < InFlight'[i].cmd => Answering(n)'
    <3>1. alive' => Answering(n)' \/ Among(n, toDebugger')
      BY <1>5, <2>3 DEF Core, Expectations
    <3>2. ASSUME NEW i \in 1..(L + 1), n < InFlight'[i].cmd
          PROVE  Answering(n)
      <4>1. CASE i \in 1..L
        BY <2>3, <3>2, <4>1 DEF Core, Expectations
      <4>2. CASE i = L + 1
        BY <1>4, <2>3, <3>2, <4>2
      <4>3. QED
        BY <1>1, <4>1, <4>2
    <3>3. QED
      BY <1>5, <3>1, <3>2
  <2>4. QED
    BY <1>1, <2>1, <2>2, <2>3 DEF Expectations, Among, Awaited
<1>9. Unsettled' /\ RepliesMatch'
  BY DEF Core, Unsettled, RepliesMatch, Among, Awaited
<1>10. QED
  BY <1>6, <1>7, <1>8, <1>9 DEF Core

\* The debugger dies: commands on their way are lost, and perhaps elements.
LEMMA LossKeepsCore ==
    ASSUME TypeOK, Core, Len(InFlight') \in 0..Len(InFlight),
           \A i \in 1..Len(InFlight') : InFlight'[i].cmd = InFlight[i].cmd,
           UNCHANGED <<calls, settled, pendingCommands, pendingResponses>>,
           toDebugger' = <<>>, alive' = FALSE
    PROVE  Core'
<1> DEFINE L == Len(InFlight)
<1>1. /\ L \in Nat /\ \A i \in 1..L : InFlight[i].cmd \in 0..Len(calls)
      /\ Len(InFlight') \in Nat
      /\ \A i \in 1..Len(InFlight') : i \in 1..L
  BY FlowTypes
<1>2. Len(toDebugger') = 0
  BY EmptySeq
<1>3. InOrder'
  BY <1>1, <1>2 DEF Core, InOrder, Increasing
<1>4. QuitIsLast'
  <2>1. \A i \in 1..Len(InFlight') : InFlight'[i].cmd # 0 => calls[InFlight'[i].cmd] # "run"
    BY <1>1 DEF Core, QuitIsLast
  <2>2. QED
    BY <2>1 DEF Core, QuitIsLast
<1>5. Expectations'
  <2>1. \A i \in 1..Len(InFlight') :
          InFlight'[i].cmd # 0 /\ Awaited(InFlight'[i].cmd) =>
              Among(InFlight'[i].cmd, pendingResponses)
    BY <1>1 DEF Core, Expectations
  <2>2. ASSUME NEW n \in 1..Len(calls), Awaited(n), Among(n, pendingResponses),
               NEW i \in 1..Len(InFlight'), n < InFlight'[i].cmd
        PROVE  Answering(n)'
    <3>1. i \in 1..L /\ InFlight'[i].cmd = InFlight[i].cmd
      BY <1>1
    <3>2. PICK k \in 1..L : InFlight[k].cmd = n
      BY <2>2, <3>1 DEF Core, Expectations, Answering
    <3>3. InFlight[i].cmd > InFlight[k].cmd /\ InFlight[k].cmd # 0
      BY <1>1, <2>2, <3>1, <3>2
    <3>4. k < i
      <4>1. \/ k < i \/ k = i \/ i < k
        BY <1>1, <3>1
      <4>2. ~(i < k)
        BY SMTT(30), <1>1, <3>1, <3>3 DEF Core, InOrder
      <4>3. k # i
        BY <1>1, <3>1, <3>3
      <4>4. QED
        BY <4>1, <4>2, <4>3
    <3>5. k \in 1..Len(InFlight') /\ InFlight'[k].cmd = n
      BY <1>1, <3>2, <3>4
    <3>6. QED
      BY <3>5 DEF Answering
  <2>3. QED
    BY <1>2, <2>1, <2>2 DEF Expectations, Among, Awaited
<1>6. Unsettled' /\ RepliesMatch'
  BY DEF Core, Unsettled, RepliesMatch, Among, Awaited
<1>7. QED
  BY <1>3, <1>4, <1>5, <1>6 DEF Core

\* The tail of an increasing queue.
LEMMA Dequeueing ==
    ASSUME NEW n \in Nat, NEW s \in Seq(1..n), s # <<>>, Increasing(s)
    PROVE  /\ Head(s) \in 1..n /\ Among(Head(s), s) /\ Len(s) > 0 /\ s[1] = Head(s)
           /\ Increasing(Tail(s))
           /\ \A m : Among(m, s) <=> Among(m, Tail(s)) \/ m = Head(s)
           /\ ~Among(Head(s), Tail(s))
           /\ \A j \in 1..Len(Tail(s)) :
                 /\ \E k \in 1..Len(s) : Tail(s)[j] = s[k]
                 /\ Head(s) < Tail(s)[j]
<1> DEFINE t == Tail(s)
<1>1. /\ Len(s) \in Nat /\ Len(s) > 0 /\ Len(t) = Len(s) - 1
      /\ Head(s) = s[1] /\ Head(s) \in 1..n
      /\ \A i \in 1..Len(t) : t[i] = s[i + 1]
      /\ \A i \in 1..Len(s) : s[i] \in 1..n
  BY HeadTailProperties, EmptySeq, LenProperties, ElementOfSeq
<1>2. ASSUME NEW i \in 1..Len(t)
      PROVE  i + 1 \in 1..Len(s) /\ t[i] = s[i + 1] /\ s[1] < t[i] /\ t[i] \in 1..n
  <2>1. i + 1 \in 1..Len(s) /\ 1 \in 1..Len(s) /\ 1 < i + 1
    BY <1>1
  <2>2. QED
    BY <1>1, <2>1 DEF Increasing
<1>3. ASSUME NEW i \in 1..Len(t), NEW j \in 1..Len(t), i < j
      PROVE  t[i] < t[j]
  <2>1. i + 1 < j + 1
    BY <1>1, <1>3
  <2>2. QED
    BY <1>2, <2>1 DEF Increasing
<1>4. ASSUME NEW m, Among(m, s)
      PROVE  Among(m, t) \/ m = Head(s)
  <2>1. PICK k \in 1..Len(s) : s[k] = m
    BY <1>4 DEF Among
  <2>2. CASE k = 1
    BY <1>1, <2>1, <2>2
  <2>3. CASE k # 1
    <3>1. k - 1 \in 1..Len(t) /\ (k - 1) + 1 = k
      BY <1>1, <2>3
    <3>2. t[k - 1] = m
      BY <1>1, <2>1, <3>1
    <3>3. QED
      BY <3>1, <3>2 DEF Among
  <2>4. QED
    BY <2>2, <2>3
<1>5. \A m : Among(m, t) => Among(m, s)
  BY <1>2 DEF Among
<1>6. Among(Head(s), s) /\ ~Among(Head(s), t)
  BY <1>1, <1>2 DEF Among
<1>7. QED
  BY <1>1, <1>2, <1>3, <1>4, <1>5, <1>6 DEF Increasing

\* The debugger takes a silent command.
LEMMA ObeyKeepsCore ==
    ASSUME TypeOK, Core, Obey
    PROVE  Core'
<1>1. /\ toDebugger # <<>> /\ toDebugger' = Tail(toDebugger)
      /\ calls[Head(toDebugger)] = "run"
      /\ UNCHANGED <<calls, settled, pendingCommands, pendingResponses, alive, InFlight>>
  BY DEF Obey, adapterVars, sessionVars, InFlight
<1>2. Len(calls) \in Nat /\ toDebugger \in Seq(1..Len(calls)) /\ Increasing(toDebugger)
  BY QueueElements DEF TypeOK, Core, InOrder
<1>3. /\ Increasing(toDebugger')
      /\ \A m : Among(m, toDebugger) <=> Among(m, toDebugger') \/ m = Head(toDebugger)
      /\ \A j \in 1..Len(toDebugger') :
            \E k \in 1..Len(toDebugger) : toDebugger'[j] = toDebugger[k]
  BY <1>1, <1>2, Dequeueing
<1>4. InOrder'
  <2>1. \A i \in 1..Len(InFlight), j \in 1..Len(toDebugger') :
          InFlight[i].cmd < toDebugger'[j]
    BY <1>3 DEF Core, InOrder
  <2>2. QED
    BY <1>1, <1>3, <2>1 DEF Core, InOrder, Increasing
<1>5. QuitIsLast'
  BY <1>1 DEF Core, QuitIsLast
<1>6. Expectations'
  <2>1. \A j \in 1..Len(toDebugger') :
          Awaited(toDebugger'[j]) => Among(toDebugger'[j], pendingResponses)
    BY <1>3 DEF Core, Expectations
  <2>2. \A n \in 1..Len(calls) :
          Awaited(n) /\ Among(n, toDebugger) => Among(n, toDebugger')
    BY <1>1, <1>3 DEF Awaited, AwaitedKinds
  <2>3. \A n : Answering(n)' <=> Answering(n)
    BY <1>1 DEF Answering
  <2>4. \A i \in 1..Len(InFlight) :
          InFlight[i].cmd # 0 /\ calls[InFlight[i].cmd] \in AwaitedKinds =>
              Among(InFlight[i].cmd, pendingResponses)
    BY DEF Core, Expectations, Awaited
  <2>5. \A j \in 1..Len(toDebugger') :
          calls[toDebugger'[j]] \in AwaitedKinds => Among(toDebugger'[j], pendingResponses)
    BY <2>1 DEF Awaited
  <2>6. \A n \in 1..Len(calls) :
          calls[n] \in AwaitedKinds /\ Among(n, pendingResponses) =>
              /\ alive => Answering(n) \/ Among(n, toDebugger')
              /\ \A i \in 1..Len(InFlight) : n < InFlight[i].cmd => Answering(n)
    BY <2>2 DEF Core, Expectations, Awaited
  <2>7. \A n \in 1..Len(calls) :
          calls[n] \in AwaitedKinds /\ Among(n, pendingResponses) =>
              /\ alive => Answering(n)' \/ Among(n, toDebugger')
              /\ \A i \in 1..Len(InFlight) : n < InFlight[i].cmd => Answering(n)'
    BY <2>3, <2>6
  <2>8. QED
    BY <1>1, <2>4, <2>5, <2>7 DEF Expectations, Among, Awaited
<1>7. Unsettled' /\ RepliesMatch'
  BY <1>1 DEF Core, Unsettled, RepliesMatch, Among, Awaited
<1>8. QED
  BY <1>4, <1>5, <1>6, <1>7 DEF Core

\* The postponed commands are written and become the pending responses.
LEMMA ConnectKeepsCore ==
    ASSUME TypeOK, Core, Phases, Connect
    PROVE  Core'
<1>1. /\ state = "ready" /\ alive
      /\ pendingResponses = <<>> /\ toDebugger = <<>> /\ buffer = <<>> /\ wire = <<>>
      /\ \A n \in 1..Len(calls) : calls[n] # "run"
  BY DEF Phases, Connect
<1>2. /\ UNCHANGED <<calls, settled, alive>> /\ pendingCommands' = <<>>
      /\ pendingResponses' = pendingCommands /\ toDebugger' = pendingCommands
  <2>1. pendingCommands \in Seq(1..Len(calls))
    BY DEF TypeOK
  <2>2. QED
    BY <1>1, <2>1, ConcatEmptySeq DEF Connect
<1>3. Len(InFlight') = 0 /\ Len(pendingCommands') = 0
  <2>1. InFlight' = InFlight /\ Len(buffer) = 0 /\ Len(wire) = 0
    BY <1>1, EmptySeq DEF Connect, InFlight
  <2>2. QED
    BY <1>2, <2>1, FlowTypes, EmptySeq
<1>4. InOrder'
  BY <1>2, <1>3 DEF Core, InOrder, Increasing
<1>5. QuitIsLast'
  BY <1>1, <1>2, <1>3, QueueElements DEF Core, QuitIsLast
<1>6. Expectations'
  BY <1>2, <1>3 DEF Expectations, Among, Awaited
<1>7. Unsettled' /\ RepliesMatch'
  <2>1. \A n : ~Among(n, pendingResponses) /\ ~Among(n, pendingCommands')
    BY <1>1, <1>3, EmptySeq DEF Among
  <2>2. \A n : Among(n, pendingResponses)' <=> Among(n, pendingCommands)
    BY <1>2 DEF Among
  <2>3. \A n : ~Among(n, pendingCommands)'
    BY <1>3 DEF Among
  <2>4. QED
    BY <1>2, <2>1, <2>2, <2>3 DEF Core, Unsettled, RepliesMatch, Awaited
<1>8. QED
  BY <1>4, <1>5, <1>6, <1>7 DEF Core

\* The dispatch loop takes the first element in flight.
LEMMA TakeElement ==
    ASSUME TypeOK, dispatching, NextNode
    PROVE  /\ Shifted(1) /\ 1 <= Len(InFlight)
           /\ InFlight[1].cmd = Head(buffer).cmd /\ Head(buffer).cmd \in 0..Len(calls)
<1> DEFINE E == [cmd : 0..Len(calls), quotes : Quotes]
<1>1. buffer \in Seq(E) /\ wire \in Seq(E) /\ buffer # <<>>
  BY DEF TypeOK
<1>2. buffer' = Tail(buffer) /\ wire' = wire
  BY DEF NextNode
<1>3. /\ Len(buffer) \in Nat /\ Len(buffer) > 0 /\ Len(wire) \in Nat
      /\ Head(buffer) = buffer[1] /\ Head(buffer) \in E
      /\ buffer' \in Seq(E) /\ Len(buffer') = Len(buffer) - 1
      /\ \A i \in 1..Len(buffer') : buffer'[i] = buffer[i + 1]
  <2> HIDE DEF E
  <2>1. /\ Tail(buffer) \in Seq(E) /\ Len(Tail(buffer)) = Len(buffer) - 1
        /\ \A i \in 1..Len(Tail(buffer)) : Tail(buffer)[i] = buffer[i + 1]
        /\ Head(buffer) \in E /\ Head(buffer) = buffer[1]
    BY <1>1, HeadTailProperties
  <2>2. Len(buffer) \in Nat /\ Len(buffer) > 0 /\ Len(wire) \in Nat
    BY <1>1, EmptySeq, LenProperties
  <2>3. QED
    BY <1>2, <2>1, <2>2
<1>4. /\ Len(InFlight) = Len(buffer) + Len(wire)
      /\ \A i \in 1..(Len(buffer) + Len(wire)) :
            InFlight[i] = IF i <= Len(buffer) THEN buffer[i] ELSE wire[i - Len(buffer)]
  BY <1>1, ConcatProperties DEF InFlight
<1>5. /\ Len(InFlight') = Len(buffer') + Len(wire)
      /\ \A i \in 1..(Len(buffer') + Len(wire)) :
            InFlight'[i] = IF i <= Len(buffer') THEN buffer'[i] ELSE wire[i - Len(buffer')]
  BY <1>1, <1>2, <1>3, ConcatProperties DEF InFlight
<1>6. ASSUME NEW i \in 1..Len(InFlight')
      PROVE  InFlight'[i] = InFlight[i + 1]
  <2>1. i \in 1..(Len(buffer') + Len(wire)) /\ i + 1 \in 1..(Len(buffer) + Len(wire))
    BY <1>3, <1>5
  <2>2. CASE i <= Len(buffer')
    BY <1>3, <1>4, <1>5, <2>1, <2>2
  <2>3. CASE ~(i <= Len(buffer'))
    <3>1. InFlight'[i] = wire[i - Len(buffer')]
      BY <1>5, <2>1, <2>3
    <3>2. InFlight[i + 1] = wire[(i + 1) - Len(buffer)]
      BY <1>3, <1>4, <2>1, <2>3
    <3>3. (i + 1) - Len(buffer) = i - Len(buffer')
      BY <1>3, <2>1
    <3>4. QED
      BY <3>1, <3>2, <3>3
  <2>4. QED
    BY <2>2, <2>3
<1>7. Len(InFlight') = Len(InFlight) - 1 /\ 1 <= Len(InFlight)
  BY <1>3, <1>4, <1>5
<1>8. InFlight[1] = buffer[1]
  BY <1>3, <1>4
<1>9. QED
  BY <1>3, <1>6, <1>7, <1>8 DEF Shifted

\* The heart of the matter: the reply that FinishCmd handles is the one its
\* oldest pending response waits for, or nobody waits for a reply any more.
LEMMA OldestMatches ==
    ASSUME TypeOK, Core, 1 <= Len(InFlight), InFlight[1].cmd # 0, pendingResponses # <<>>
    PROVE  LET h == Head(pendingResponses) IN
           /\ h \in 1..Len(calls)
           /\ Awaited(h) => h = InFlight[1].cmd
           /\ ~Awaited(h) => \A n \in 1..Len(calls) :
                                ~(Awaited(n) /\ Among(n, pendingResponses))
<1> DEFINE r == InFlight[1].cmd
           h == Head(pendingResponses)
<1>1. /\ r \in 1..Len(calls) /\ Len(calls) \in Nat
      /\ Len(InFlight) \in Nat /\ 1 \in 1..Len(InFlight)
      /\ \A i \in 1..Len(InFlight) : InFlight[i].cmd \in 0..Len(calls)
  BY FlowTypes
<1>2. /\ pendingResponses \in Seq(1..Len(calls)) /\ Increasing(pendingResponses)
  BY DEF TypeOK, Core, InOrder
<1>3. /\ h \in 1..Len(calls) /\ Among(h, pendingResponses)
      /\ Len(pendingResponses) > 0 /\ pendingResponses[1] = h
      /\ \A n : Among(n, pendingResponses) => Among(n, Tail(pendingResponses)) \/ n = h
      /\ \A j \in 1..Len(Tail(pendingResponses)) : h < Tail(pendingResponses)[j]
  BY <1>1, <1>2, Dequeueing
<1>4. \A n : Among(n, pendingResponses) => h = n \/ h < n
  BY <1>3 DEF Among
<1>5. ASSUME NEW n \in 1..Len(calls), Awaited(n), Among(n, pendingResponses)
      PROVE  ~(n < r)
  <2>1. SUFFICES ASSUME n < r PROVE FALSE
    OBVIOUS
  <2>2. PICK k \in 1..Len(InFlight) : InFlight[k].cmd = n
    BY <1>1, <1>5, <2>1 DEF Core, Expectations, Answering
  <2>3. k = 1 \/ 1 < k
    BY <1>1
  <2>4. n # 0 /\ ~(r < n)
    BY <1>1, <2>1
  <2>5. QED
    BY <1>1, <2>1, <2>2, <2>3, <2>4 DEF Core, InOrder
<1>6. \A n \in 1..Len(calls) : Awaited(n) \/ calls[n] \in {"run", "quit"}
  BY QueueElements DEF Kinds, SilentKinds, Awaited
<1>7. calls[r] # "run" /\ calls[h] # "run"
  BY <1>1, <1>3, QueueElements DEF Core, QuitIsLast
<1>8. CASE Awaited(r)
  <2>1. Among(r, pendingResponses)
    BY <1>1, <1>8 DEF Core, Expectations
  <2>2. h = r \/ h < r
    BY <1>4, <2>1
  <2>3. Awaited(h)
    <3>1. calls[h] # "quit"
      BY <1>1, <1>3, <1>7, <1>8, <2>2 DEF Core, QuitIsLast, Awaited, AwaitedKinds
    <3>2. QED
      BY <1>3, <1>6, <1>7, <3>1
  <2>4. h = r
    BY <1>3, <1>5, <2>2, <2>3
  <2>5. QED
    BY <1>3, <2>3, <2>4
<1>9. CASE ~Awaited(r)
  <2>1. calls[r] = "quit"
    BY <1>1, <1>6, <1>7, <1>9
  <2>2. ASSUME NEW n \in 1..Len(calls), Awaited(n), Among(n, pendingResponses)
        PROVE  FALSE
    <3>1. n # r /\ ~(n < r)
      BY <1>5, <1>9, <2>2
    <3>2. r < n
      BY <1>1, <3>1
    <3>3. calls[n] = "run"
      BY <1>1, <2>1, <3>2 DEF Core, QuitIsLast
    <3>4. QED
      BY <2>2, <3>3 DEF Awaited, AwaitedKinds
  <2>3. QED
    BY <1>3, <2>2
<1>10. QED
  BY <1>8, <1>9

\* FinishCmd resolves the oldest pending response, if any, and only with its
\* own reply, so that the correspondence of queues and replies is kept.
LEMMA FinishKeepsCore ==
    ASSUME TypeOK, Core, Phases, FinishCmd
    PROVE  Core'
<1> DEFINE r == InFlight[1].cmd
           h == Head(pendingResponses)
<1>1. /\ Shifted(1) /\ 1 <= Len(InFlight) /\ r # 0 /\ r = Head(buffer).cmd
      /\ pendingCommands = <<>>
  BY TakeElement DEF FinishCmd, TypeOK, Phases
<1>2. /\ Len(InFlight') \in Nat
      /\ \A i, j \in 1..Len(InFlight') :
            i < j /\ InFlight'[j].cmd # 0 => InFlight'[i].cmd < InFlight'[j].cmd
      /\ \A i \in 1..Len(InFlight') :
            \E k \in 1..Len(InFlight) : InFlight'[i].cmd = InFlight[k].cmd
      /\ \A n \in 1..Len(calls) : Answering(n) /\ r # n => Answering(n)'
  BY <1>1, ShiftFlow
<1>3. /\ \A i \in 1..Len(InFlight) : InFlight[i].cmd \in 0..Len(calls)
      /\ Len(calls) \in Nat /\ Len(InFlight) \in Nat /\ r \in 1..Len(calls)
  BY <1>1, FlowTypes
<1>4. \A i \in 1..Len(InFlight') : InFlight'[i].cmd # 0 => r < InFlight'[i].cmd
  <2>1. SUFFICES ASSUME NEW i \in 1..Len(InFlight'), InFlight'[i].cmd # 0
                 PROVE  r < InFlight'[i].cmd
    OBVIOUS
  <2>2. /\ 1 \in 1..Len(InFlight) /\ i + 1 \in 1..Len(InFlight) /\ 1 < i + 1
        /\ InFlight'[i].cmd = InFlight[i + 1].cmd
    BY <1>1, <1>3 DEF Shifted
  <2>3. QED
    BY <2>1, <2>2 DEF Core, InOrder
<1>5. UNCHANGED <<pendingCommands, calls, toDebugger, alive>>
  BY DEF FinishCmd, NextNode
<1>6. /\ Increasing(pendingResponses')
      /\ \A n : Among(n, pendingResponses') => Among(n, pendingResponses)
      /\ \A i \in 1..Len(pendingResponses') :
            \E k \in 1..Len(pendingResponses) : pendingResponses'[i] = pendingResponses[k]
      /\ \A n \in 1..Len(calls) : Awaited(n) =>
            (Among(n, pendingResponses') <=> Among(n, pendingResponses) /\ n # r)
      /\ \A n \in 1..Len(calls) : Awaited(n) =>
            settled'[n] = IF Among(n, pendingResponses) /\ n = r THEN n ELSE settled[n]
      /\ \A n \in 1..Len(calls) : ~Awaited(n) => settled'[n] = settled[n]
  <2>1. CASE pendingResponses = <<>>
    <3>1. \A n : ~Among(n, pendingResponses)
      BY <2>1, EmptySeq DEF Among
    <3>2. UNCHANGED <<pendingResponses, settled>>
      BY <2>1 DEF FinishCmd
    <3>3. QED
      BY <3>1, <3>2 DEF Core, InOrder
  <2>2. CASE pendingResponses # <<>>
    <3>1. pendingResponses \in Seq(1..Len(calls)) /\ Increasing(pendingResponses)
      BY DEF TypeOK, Core, InOrder
    <3>2. /\ Among(h, pendingResponses)
          /\ Increasing(Tail(pendingResponses))
          /\ \A m : Among(m, pendingResponses) <=> Among(m, Tail(pendingResponses)) \/ m = h
          /\ ~Among(h, Tail(pendingResponses))
          /\ \A j \in 1..Len(Tail(pendingResponses)) :
               \E k \in 1..Len(pendingResponses) : Tail(pendingResponses)[j] = pendingResponses[k]
      BY <1>3, <2>2, <3>1, Dequeueing
    <3>3. /\ h \in 1..Len(calls)
          /\ Awaited(h) => h = r
          /\ ~Awaited(h) => \A n \in 1..Len(calls) :
                               ~(Awaited(n) /\ Among(n, pendingResponses))
      BY <1>1, <2>2, OldestMatches
    <3>4. pendingResponses' = Tail(pendingResponses)
      BY <2>2 DEF FinishCmd
    <3>5. settled \in Seq(Nat) /\ Len(settled) = Len(calls)
      BY DEF TypeOK
    <3>6. \A n \in 1..Len(calls) : Awaited(n) =>
            (Among(n, pendingResponses') <=> Among(n, pendingResponses) /\ n # r)
      BY <3>2, <3>3, <3>4
    <3>7. CASE Awaited(h)
      <4>1. settled' = [settled EXCEPT ![h] = r]
        BY <1>1, <2>2, <3>7, Zenon DEF FinishCmd
      <4>2. \A n \in 1..Len(calls) : settled'[n] = IF n = h THEN r ELSE settled[n]
        BY <1>3, <3>3, <3>5, <4>1, ExceptSeq
      <4>3. QED
        BY <3>2, <3>3, <3>4, <3>6, <3>7, <4>2
    <3>8. CASE ~Awaited(h)
      <4>1. settled' = settled
        BY <2>2, <3>8, Zenon DEF FinishCmd
      <4>2. QED
        BY <3>2, <3>3, <3>4, <3>6, <3>8, <4>1
    <3>9. QED
      BY <3>7, <3>8
  <2>3. QED
    BY <2>1, <2>2
<1>7. InOrder'
  <2>1. \A i \in 1..Len(InFlight'), j \in 1..Len(toDebugger) :
          InFlight'[i].cmd < toDebugger[j]
    BY <1>2 DEF Core, InOrder
  <2>2. QED
    BY <1>2, <1>5, <1>6, <2>1 DEF Core, InOrder, Increasing
<1>8. QuitIsLast'
  <2>1. \A i \in 1..Len(InFlight') :
          InFlight'[i].cmd # 0 => calls[InFlight'[i].cmd] # "run"
    BY <1>2 DEF Core, QuitIsLast
  <2>2. \A i \in 1..Len(pendingResponses') : calls[pendingResponses'[i]] # "run"
    BY <1>6 DEF Core, QuitIsLast
  <2>3. QED
    BY <1>5, <2>1, <2>2 DEF Core, QuitIsLast
<1>9. Expectations'
  <2>1. ASSUME NEW i \in 1..Len(InFlight'), InFlight'[i].cmd # 0,
               calls[InFlight'[i].cmd] \in AwaitedKinds
        PROVE  Among(InFlight'[i].cmd, pendingResponses')
    <3>1. PICK k \in 1..Len(InFlight) : InFlight'[i].cmd = InFlight[k].cmd
      BY <1>2
    <3>2. InFlight[k].cmd \in 1..Len(calls) /\ Awaited(InFlight[k].cmd)
      BY <1>3, <2>1, <3>1 DEF Awaited
    <3>3. Among(InFlight[k].cmd, pendingResponses)
      BY <3>2 DEF Core, Expectations
    <3>4. InFlight[k].cmd # r
      BY <1>3, <1>4, <2>1, <3>1
    <3>5. QED
      BY <1>6, <3>1, <3>2, <3>3, <3>4
  <2>2. ASSUME NEW j \in 1..Len(toDebugger), calls[toDebugger[j]] \in AwaitedKinds
        PROVE  Among(toDebugger[j], pendingResponses')
    <3>1. toDebugger[j] \in 1..Len(calls) /\ Awaited(toDebugger[j])
      BY <2>2, QueueElements DEF Awaited
    <3>2. Among(toDebugger[j], pendingResponses)
      BY <3>1 DEF Core, Expectations
    <3>3. r < toDebugger[j]
      BY <1>1, <1>3 DEF Core, InOrder
    <3>4. QED
      BY <1>3, <1>6, <3>1, <3>2, <3>3
  <2>3. ASSUME NEW n \in 1..Len(calls), calls[n] \in AwaitedKinds, Among(n, pendingResponses')
        PROVE  /\ alive => Answering(n)' \/ Among(n, toDebugger)
               /\ \A i \in 1..Len(InFlight') : n < InFlight'[i].cmd => Answering(n)'
    <3>1. Awaited(n) /\ Among(n, pendingResponses) /\ n # r
      BY <1>6, <2>3 DEF Awaited
    <3>2. /\ alive => Answering(n) \/ Among(n, toDebugger)
          /\ \A i \in 1..Len(InFlight) : n < InFlight[i].cmd => Answering(n)
      BY <3>1 DEF Core, Expectations
    <3>3. QED
      BY <1>2, <3>1, <3>2
  <2>4. QED
    BY <1>5, <2>1, <2>2, <2>3 DEF Expectations, Among, Awaited
<1>10. Unsettled'
  <2>1. \A n : ~Among(n, pendingCommands)
    BY <1>1, EmptySeq DEF Among
  <2>2. ASSUME NEW n \in 1..Len(calls)
        PROVE  IF Awaited(n)
               THEN settled'[n] = 0 <=> Among(n, pendingResponses') \/ Among(n, pendingCommands)
               ELSE settled'[n] = 0
    <3>1. CASE Awaited(n)
      <4>1. settled[n] = 0 <=> Among(n, pendingResponses)
        BY <2>1, <3>1 DEF Core, Unsettled
      <4>2. n # 0
        BY <1>3
      <4>3. QED
        BY <1>6, <2>1, <3>1, <4>1, <4>2
    <3>2. CASE ~Awaited(n)
      BY <1>6, <3>2 DEF Core, Unsettled
    <3>3. QED
      BY <3>1, <3>2
  <2>3. QED
    BY <1>5, <2>2 DEF Unsettled, Among, Awaited
<1>11. RepliesMatch'
  BY <1>5, <1>6 DEF Core, RepliesMatch
<1>12. QED
  BY <1>7, <1>8, <1>9, <1>10, <1>11 DEF Core

\* Issuing a command in the ready state adds a call that is not a run.
LEMMA ReadyCalls ==
    ASSUME TypeOK, NEW kind \in Kinds, NewCall(kind), kind # "run",
           \A n \in 1..Len(calls) : calls[n] # "run"
    PROVE  \A n \in 1..Len(calls') : calls'[n] # "run"
<1>1. calls \in Seq(Kinds) /\ calls' = Append(calls, kind) /\ Len(calls) \in Nat
  BY LenProperties DEF TypeOK, NewCall
<1>2. /\ Len(calls') = Len(calls) + 1 /\ calls'[Len(calls) + 1] = kind
      /\ \A n \in 1..Len(calls) : calls'[n] = calls[n]
  BY <1>1, AppendProperties
<1>3. \A n \in 1..Len(calls') : n \in 1..Len(calls) \/ n = Len(calls) + 1
  BY <1>1, <1>2
<1>4. QED
  BY <1>2, <1>3

\* Every step keeps to the phases of the connection.
LEMMA PhasesInductive ==
    ASSUME TypeOK, Phases, [Next]_vars
    PROVE  Phases'
<1>1. CASE ClientEnqueues
  <2>1. PICK kind \in AwaitedKinds : Enqueue(kind)
    BY <1>1 DEF ClientEnqueues
  <2>2. kind \in Kinds /\ kind # "run" /\ NewCall(kind)
    BY <2>1 DEF Kinds, AwaitedKinds, Enqueue
  <2>3. CASE state = "connected"
    BY <2>1, <2>3 DEF Enqueue, Postpone, Write, Phases
  <2>4. CASE state = "closed"
    BY <2>1, <2>4 DEF Enqueue, Postpone, Phases
  <2>5. CASE state = "ready"
    <3>1. \A n \in 1..Len(calls') : calls'[n] # "run"
      BY <2>2, <2>5, ReadyCalls DEF Phases
    <3>2. QED
      BY <2>1, <2>5, <3>1 DEF Enqueue, Postpone, Phases
  <2>6. QED
    BY <2>3, <2>4, <2>5 DEF TypeOK
<1>2. CASE ClientRuns
  <2>1. PICK kind \in SilentKinds : Run(kind) /\ (kind = "run" => state # "ready")
    BY <1>2 DEF ClientRuns, SilentKinds
  <2>2. kind \in Kinds /\ NewCall(kind)
    BY <2>1 DEF Kinds, Run
  <2>3. CASE state = "connected"
    BY <1>2, <2>1, <2>3 DEF ClientRuns, Run, Postpone, Write, Phases
  <2>4. CASE state = "closed"
    BY <1>2, <2>1, <2>4 DEF ClientRuns, Run, Postpone, Phases
  <2>5. CASE state = "ready"
    <3>1. \A n \in 1..Len(calls') : calls'[n] # "run"
      BY <2>1, <2>2, <2>5, ReadyCalls DEF Phases
    <3>2. QED
      BY <1>2, <2>1, <2>5, <3>1 DEF ClientRuns, Run, Postpone, Phases
  <2>6. QED
    BY <2>3, <2>4, <2>5 DEF TypeOK
<1>3. CASE Banner
  BY <1>3 DEF Banner, Phases, sessionVars, debuggerVars
<1>4. CASE Access
  BY <1>4 DEF Access, Phases, debuggerVars
<1>5. CASE Connect
  BY <1>5 DEF Connect, Phases
<1>6. CASE Refused
  BY <1>6 DEF Refused, SocketError, Phases, debuggerVars
<1>7. CASE ReceiveSome
  BY <1>7 DEF ReceiveSome, Receive, Phases, sessionVars
<1>8. CASE FinishCmd
  BY <1>8 DEF FinishCmd, NextNode, Phases, TypeOK
<1>9. CASE EmitStop
  BY <1>9 DEF EmitStop, NextNode, Run, Postpone, Write, Phases, TypeOK
<1>10. CASE SocketEnd
  BY <1>10 DEF SocketEnd, Phases, debuggerVars
<1>11. CASE SocketReset
  BY <1>11 DEF SocketReset, SocketError, Phases, debuggerVars
<1>12. CASE ChildExit
  BY <1>12 DEF ChildExit, Phases, adapterVars, debuggerVars
<1>13. CASE SpawnError
  BY <1>13 DEF SpawnError, Phases, adapterVars
<1>14. CASE Answer
  BY <1>14 DEF Answer, Phases, adapterVars, sessionVars
<1>15. CASE Obey
  BY <1>15 DEF Obey, Phases, adapterVars, sessionVars
<1>16. CASE ObeyQuit
  BY <1>16 DEF ObeyQuit, Phases, adapterVars, sessionVars
<1>17. CASE Stop
  BY <1>17 DEF Stop, Phases, adapterVars, sessionVars
<1>18. CASE Die
  BY <1>18 DEF Die, Phases, adapterVars, sessionVars
<1>19. CASE UNCHANGED vars
  BY <1>19 DEF vars, adapterVars, sessionVars, debuggerVars, Phases
<1>20. QED
  BY <1>1, <1>2, <1>3, <1>4, <1>5, <1>6, <1>7, <1>8, <1>9, <1>10, <1>11, <1>12,
     <1>13, <1>14, <1>15, <1>16, <1>17, <1>18, <1>19 DEF Next, Adapter, Debugger

\* An element appended to the wire is the last one in flight.
LEMMA AppendedElement ==
    ASSUME TypeOK, NEW e \in [cmd : 0..Len(calls), quotes : Quotes],
           UNCHANGED buffer, wire' = Append(wire, e)
    PROVE  /\ Len(InFlight') = Len(InFlight) + 1
           /\ \A i \in 1..Len(InFlight) : InFlight'[i].cmd = InFlight[i].cmd
           /\ InFlight'[Len(InFlight) + 1].cmd = e.cmd
<1> DEFINE E == [cmd : 0..Len(calls), quotes : Quotes]
<1> HIDE DEF E
<1>1. buffer \in Seq(E) /\ wire \in Seq(E) /\ e \in E
  BY DEF TypeOK, E
<1>2. /\ wire' \in Seq(E) /\ Len(wire') = Len(wire) + 1
      /\ wire'[Len(wire) + 1] = e
      /\ \A i \in 1..Len(wire) : wire'[i] = wire[i]
      /\ Len(buffer) \in Nat /\ Len(wire) \in Nat
  BY <1>1, AppendProperties, LenProperties
<1>3. /\ Len(InFlight) = Len(buffer) + Len(wire)
      /\ \A i \in 1..(Len(buffer) + Len(wire)) :
            InFlight[i] = IF i <= Len(buffer) THEN buffer[i] ELSE wire[i - Len(buffer)]
  BY <1>1, ConcatProperties DEF InFlight
<1>4. /\ Len(InFlight') = Len(buffer) + Len(wire')
      /\ \A i \in 1..(Len(buffer) + Len(wire')) :
            InFlight'[i] = IF i <= Len(buffer) THEN buffer[i] ELSE wire'[i - Len(buffer)]
  BY <1>1, <1>2, ConcatProperties DEF InFlight
<1>5. ASSUME NEW i \in 1..Len(InFlight)
      PROVE  InFlight'[i] = InFlight[i]
  <2>1. i \in 1..(Len(buffer) + Len(wire)) /\ i \in 1..(Len(buffer) + Len(wire'))
    BY <1>2, <1>3
  <2>2. CASE i <= Len(buffer)
    BY <1>3, <1>4, <2>1, <2>2
  <2>3. CASE ~(i <= Len(buffer))
    <3>1. i - Len(buffer) \in 1..Len(wire)
      BY <1>2, <2>1, <2>3
    <3>2. QED
      BY <1>2, <1>3, <1>4, <2>1, <2>3, <3>1
  <2>4. QED
    BY <2>2, <2>3
<1>6. InFlight'[Len(InFlight) + 1] = e
  <2>1. /\ Len(InFlight) + 1 \in 1..(Len(buffer) + Len(wire'))
        /\ ~(Len(InFlight) + 1 <= Len(buffer))
        /\ (Len(InFlight) + 1) - Len(buffer) = Len(wire) + 1
    BY <1>2, <1>3
  <2>2. QED
    BY <1>2, <1>4, <2>1
<1>7. QED
  BY <1>2, <1>3, <1>4, <1>5, <1>6

\* Reception moves elements from the wire to the buffer and repairs them, but
\* what is in flight stays in flight.
LEMMA ReceiveShift ==
    ASSUME TypeOK, NEW n \in 0..Len(wire), NEW half \in BOOLEAN, Receive(n, half)
    PROVE  Shifted(0)
<1> DEFINE E == [cmd : 0..Len(calls), quotes : Quotes]
           front == SubSeq(wire, 1, n)
           rest == SubSeq(wire, n + 1, Len(wire))
           text == buffer \o front
<1>1. /\ buffer \in Seq(E) /\ wire \in Seq(E) /\ Len(calls) \in Nat
      /\ Len(buffer) \in Nat /\ Len(wire) \in Nat
      /\ \A i \in 1..Len(wire) : wire[i] \in E
  BY LenProperties, ElementOfSeq DEF TypeOK
<1>2. /\ front \in Seq(E) /\ Len(front) = n
      /\ \A i \in 1..n : front[i] = wire[i]
  <2>1. 1 <= n \/ n = 0
    BY <1>1
  <2>2. QED
    BY <1>1, <2>1, SubSeqProperties
<1>3. /\ rest \in Seq(E) /\ Len(rest) = Len(wire) - n
      /\ \A i \in 1..(Len(wire) - n) : rest[i] = wire[n + i]
  <2>1. n + 1 \in Int /\ \A i \in (n + 1)..Len(wire) : wire[i] \in E
    BY <1>1
  <2>2. /\ rest \in Seq(E)
        /\ Len(rest) = IF n + 1 <= Len(wire) THEN Len(wire) - (n + 1) + 1 ELSE 0
        /\ \A i \in 1..(Len(wire) - (n + 1) + 1) : rest[i] = wire[(n + 1) + i - 1]
    BY <1>1, <2>1, SubSeqProperties
  <2>3. QED
    BY <1>1, <2>2
<1>4. /\ text \in Seq(E) /\ Len(text) = Len(buffer) + n
      /\ \A i \in 1..(Len(buffer) + n) :
            text[i] = IF i <= Len(buffer) THEN buffer[i] ELSE front[i - Len(buffer)]
  BY <1>1, <1>2, ConcatProperties
<1>5. buffer' = Repair(text) /\ wire' = rest
  BY DEF Receive
<1>6. /\ buffer' \in Seq(E) /\ Len(buffer') = Len(buffer) + n
      /\ \A i \in 1..(Len(buffer) + n) : buffer'[i].cmd = text[i].cmd
  BY <1>1, <1>4, <1>5, RepairKeeps
<1> HIDE DEF E, front, rest, text
<1>7. /\ Len(InFlight) = Len(buffer) + Len(wire)
      /\ \A i \in 1..(Len(buffer) + Len(wire)) :
            InFlight[i] = IF i <= Len(buffer) THEN buffer[i] ELSE wire[i - Len(buffer)]
  BY <1>1, ConcatProperties DEF InFlight
<1>8. /\ Len(InFlight') = Len(buffer') + Len(rest)
      /\ \A i \in 1..(Len(buffer') + Len(rest)) :
            InFlight'[i] = IF i <= Len(buffer') THEN buffer'[i] ELSE rest[i - Len(buffer')]
  BY Zenon, <1>3, <1>5, <1>6, ConcatProperties DEF InFlight
<1>9. Len(InFlight') = Len(InFlight)
  BY <1>1, <1>3, <1>6, <1>7, <1>8
<1>10. ASSUME NEW i \in 1..Len(InFlight)
       PROVE  InFlight'[i].cmd = InFlight[i].cmd
  <2>1. /\ i \in 1..(Len(buffer) + Len(wire)) /\ i \in 1..(Len(buffer') + Len(rest))
    BY <1>1, <1>3, <1>6, <1>7
  <2>2. CASE i <= Len(buffer)
    <3>1. i <= Len(buffer') /\ i \in 1..(Len(buffer) + n)
      BY <1>1, <1>6, <2>1, <2>2
    <3>2. QED
      BY <1>4, <1>6, <1>7, <1>8, <2>1, <2>2, <3>1
  <2>3. CASE Len(buffer) < i /\ i <= Len(buffer) + n
    <3>1. /\ i <= Len(buffer') /\ i \in 1..(Len(buffer) + n) /\ ~(i <= Len(buffer))
          /\ i - Len(buffer) \in 1..n
      BY <1>1, <1>6, <2>1, <2>3
    <3>2. InFlight'[i].cmd = front[i - Len(buffer)].cmd
      BY <1>4, <1>6, <1>8, <2>1, <3>1
    <3>3. InFlight[i] = wire[i - Len(buffer)]
      BY <1>7, <2>1, <3>1
    <3>4. QED
      BY <1>2, <3>1, <3>2, <3>3
  <2>4. CASE Len(buffer) + n < i
    <3>1. /\ ~(i <= Len(buffer')) /\ ~(i <= Len(buffer))
          /\ i - Len(buffer') \in 1..(Len(wire) - n)
          /\ n + (i - Len(buffer')) = i - Len(buffer)
      BY <1>1, <1>3, <1>6, <2>1, <2>4
    <3>2. InFlight'[i] = rest[i - Len(buffer')]
      BY <1>8, <2>1, <3>1
    <3>3. InFlight[i] = wire[i - Len(buffer)]
      BY <1>7, <2>1, <3>1
    <3>4. QED
      BY <1>3, <3>1, <3>2, <3>3
  <2>5. QED
    BY <1>1, <2>1, <2>2, <2>3, <2>4
<1>11. QED
  BY <1>1, <1>7, <1>9, <1>10 DEF Shifted

\* A command put on a debugger's queue that has nothing of it on the wire.
LEMMA AnswerKeepsCore ==
    ASSUME TypeOK, Core, Answer
    PROVE  Core'
<1> DEFINE c == Head(toDebugger)
<1>1. PICK q \in Quotes : wire' = Append(wire, [cmd |-> c, quotes |-> q])
  BY DEF Answer
<1>2. /\ Len(calls) \in Nat /\ toDebugger \in Seq(1..Len(calls))
      /\ Increasing(toDebugger) /\ toDebugger # <<>> /\ toDebugger' = Tail(toDebugger)
      /\ UNCHANGED <<calls, settled, pendingCommands, pendingResponses, buffer, alive>>
      /\ alive /\ Awaited(c)
  BY QueueElements DEF TypeOK, Core, InOrder, Answer, adapterVars, sessionVars
<1>3. /\ c \in 1..Len(calls) /\ Among(c, toDebugger)
      /\ Increasing(toDebugger')
      /\ \A m : Among(m, toDebugger) <=> Among(m, toDebugger') \/ m = c
      /\ \A j \in 1..Len(toDebugger') :
            /\ \E k \in 1..Len(toDebugger) : toDebugger'[j] = toDebugger[k]
            /\ c < toDebugger'[j]
  BY <1>2, Dequeueing
<1>4. [cmd |-> c, quotes |-> q] \in [cmd : 0..Len(calls), quotes : Quotes]
  BY <1>2, <1>3
<1>5. /\ Len(InFlight') = Len(InFlight) + 1
      /\ \A i \in 1..Len(InFlight) : InFlight'[i].cmd = InFlight[i].cmd
      /\ InFlight'[Len(InFlight) + 1].cmd = c
  BY <1>1, <1>2, <1>4, AppendedElement
<1>6. calls[c] # "run"
  BY <1>2 DEF Awaited, AwaitedKinds
<1>7. ASSUME NEW n \in 1..Len(calls), Awaited(n), Among(n, pendingResponses), n < c
      PROVE  Answering(n)
  <2>1. Answering(n) \/ Among(n, toDebugger)
    BY <1>2, <1>7 DEF Core, Expectations
  <2>2. ~Among(n, toDebugger)
    <3>1. SUFFICES ASSUME Among(n, toDebugger) PROVE FALSE
      OBVIOUS
    <3>2. n # c
      BY <1>2, <1>3, <1>7
    <3>3. PICK j \in 1..Len(toDebugger') : toDebugger'[j] = n
      BY <1>3, <3>1, <3>2 DEF Among
    <3>4. c < n
      BY <1>3, <3>3
    <3>5. QED
      BY <1>2, <1>3, <1>7, <3>4
  <2>3. QED
    BY <2>1, <2>2
<1>8. c \in 0..Len(calls)
  BY <1>2, <1>3
<1>9. QED
  BY <1>2, <1>3, <1>5, <1>6, <1>7, <1>8, AppendKeepsCore

\* A stop event appended to the wire answers no command.
LEMMA StopKeepsCore ==
    ASSUME TypeOK, Core, Stop
    PROVE  Core'
<1>1. /\ Len(calls) \in Nat /\ 0 \in 0..Len(calls)
      /\ UNCHANGED <<calls, settled, pendingCommands, pendingResponses, buffer,
                     toDebugger, alive>>
      /\ wire' = Append(wire, [cmd |-> 0, quotes |-> "escaped"])
  BY QueueElements DEF Stop, adapterVars, sessionVars
<1>2. [cmd |-> 0, quotes |-> "escaped"] \in [cmd : 0..Len(calls), quotes : Quotes]
  BY <1>1 DEF Quotes
<1>3. /\ Len(InFlight') = Len(InFlight) + 1
      /\ \A i \in 1..Len(InFlight) : InFlight'[i].cmd = InFlight[i].cmd
      /\ InFlight'[Len(InFlight) + 1].cmd = 0
  BY <1>1, <1>2, AppendedElement
<1>4. Increasing(toDebugger')
  BY <1>1 DEF Core, InOrder, Increasing
<1>5. \A j \in 1..Len(toDebugger') :
        /\ \E k \in 1..Len(toDebugger) : toDebugger'[j] = toDebugger[k]
        /\ 0 < toDebugger'[j]
  BY <1>1, QueueElements
<1>6. alive' => alive /\ \A n \in 1..Len(calls) :
                            Among(n, toDebugger) => Among(n, toDebugger') \/ n = 0
  BY <1>1
<1>7. QED
  BY <1>1, <1>3, <1>4, <1>5, <1>6, AppendKeepsCore

\* Death with the elements on the wire lost or not.
LEMMA DeathKeepsCore ==
    ASSUME TypeOK, Core, UNCHANGED <<calls, settled, pendingCommands, pendingResponses, buffer>>,
           wire' \in {wire, <<>>}, toDebugger' = <<>>, alive' = FALSE
    PROVE  Core'
<1> DEFINE E == [cmd : 0..Len(calls), quotes : Quotes]
<1> HIDE DEF E
<1>1. buffer \in Seq(E) /\ wire \in Seq(E)
  BY DEF TypeOK, E
<1>2. /\ Len(buffer) \in Nat /\ Len(wire) \in Nat
      /\ Len(InFlight) = Len(buffer) + Len(wire)
      /\ \A i \in 1..(Len(buffer) + Len(wire)) :
            InFlight[i] = IF i <= Len(buffer) THEN buffer[i] ELSE wire[i - Len(buffer)]
  BY <1>1, ConcatProperties, LenProperties DEF InFlight
<1>3. CASE wire' = wire
  <2>1. InFlight' = InFlight
    BY <1>3 DEF InFlight
  <2>2. Len(InFlight') \in 0..Len(InFlight)
    BY <1>2, <2>1
  <2>3. QED
    BY <2>1, <2>2, LossKeepsCore
<1>4. CASE wire' = <<>>
  <2>1. InFlight' = buffer
    BY <1>1, <1>4, ConcatEmptySeq DEF InFlight
  <2>2. Len(InFlight') \in 0..Len(InFlight)
    BY <1>2, <2>1
  <2>3. \A i \in 1..Len(InFlight') : InFlight'[i].cmd = InFlight[i].cmd
    BY <1>2, <2>1
  <2>4. QED
    BY <2>2, <2>3, LossKeepsCore
<1>5. QED
  BY <1>3, <1>4

\* The debugger quits: what is on its way to it is lost, and it may answer.
LEMMA QuitKeepsCore ==
    ASSUME TypeOK, Core, ObeyQuit
    PROVE  Core'
<1> DEFINE c == Head(toDebugger)
<1>1. CASE UNCHANGED wire
  BY <1>1, DeathKeepsCore DEF ObeyQuit, adapterVars, sessionVars
<1>2. CASE wire' = Append(wire, [cmd |-> c, quotes |-> "escaped"])
  <2>1. /\ Len(calls) \in Nat /\ toDebugger \in Seq(1..Len(calls))
        /\ Increasing(toDebugger) /\ toDebugger # <<>> /\ toDebugger' = <<>>
        /\ UNCHANGED <<calls, settled, pendingCommands, pendingResponses, buffer>>
        /\ alive /\ ~alive' /\ calls[c] = "quit"
    BY QueueElements DEF TypeOK, Core, InOrder, ObeyQuit, adapterVars, sessionVars
  <2>2. /\ c \in 1..Len(calls) /\ Among(c, toDebugger)
        /\ \A m : Among(m, toDebugger) <=> Among(m, Tail(toDebugger)) \/ m = c
        /\ \A j \in 1..Len(Tail(toDebugger)) : c < Tail(toDebugger)[j]
    BY <2>1, Dequeueing
  <2>3. /\ [cmd |-> c, quotes |-> "escaped"] \in [cmd : 0..Len(calls), quotes : Quotes]
        /\ c \in 0..Len(calls)
    BY <2>1, <2>2 DEF Quotes
  <2>4. /\ Len(InFlight') = Len(InFlight) + 1
        /\ \A i \in 1..Len(InFlight) : InFlight'[i].cmd = InFlight[i].cmd
        /\ InFlight'[Len(InFlight) + 1].cmd = c
    BY <1>2, <2>1, <2>3, AppendedElement
  <2>5. ASSUME NEW n \in 1..Len(calls), Awaited(n), Among(n, pendingResponses), n < c
        PROVE  Answering(n)
    <3>1. Answering(n) \/ Among(n, toDebugger)
      BY <2>1, <2>5 DEF Core, Expectations
    <3>2. ~Among(n, toDebugger)
      <4>1. SUFFICES ASSUME Among(n, toDebugger) PROVE FALSE
        OBVIOUS
      <4>2. n # c
        BY <2>1, <2>2, <2>5
      <4>3. PICK j \in 1..Len(Tail(toDebugger)) : Tail(toDebugger)[j] = n
        BY <2>2, <4>1, <4>2 DEF Among
      <4>4. c < n
        BY <2>2, <4>3
      <4>5. QED
        BY <2>1, <2>2, <2>5, <4>4
    <3>3. QED
      BY <3>1, <3>2
  <2>6. Len(toDebugger') = 0 /\ Increasing(toDebugger')
    BY <2>1, EmptySeq DEF Increasing
  <2>7. calls[c] # "run"
    BY <2>1
  <2>8. QED
    BY <2>1, <2>2, <2>3, <2>4, <2>5, <2>6, <2>7, AppendKeepsCore
<1>3. QED
  BY <1>1, <1>2 DEF ObeyQuit

\* Every step keeps the order of the queues and their correspondence with the
\* replies that are on their way.
LEMMA CoreInductive ==
    ASSUME TypeOK, Phases, Core, [Next]_vars
    PROVE  Core'
<1>0. ASSUME UNCHANGED <<calls, settled, pendingCommands, pendingResponses,
                         toDebugger, alive, buffer, wire>>
      PROVE  Core'
  <2>1. Shifted(0) /\ 0 <= Len(InFlight)
    <3>1. InFlight' = InFlight
      BY <1>0 DEF InFlight
    <3>2. QED
      BY <3>1, FlowTypes DEF Shifted
  <2>2. QED
    BY <1>0, <2>1, ShiftKeepsCore
<1>A. (UNCHANGED <<buffer, wire>>) => Shifted(0) /\ 0 <= Len(InFlight)
  <2>1. SUFFICES ASSUME UNCHANGED <<buffer, wire>> PROVE Shifted(0) /\ 0 <= Len(InFlight)
    OBVIOUS
  <2>2. InFlight' = InFlight
    BY <2>1 DEF InFlight
  <2>3. QED
    BY <2>2, FlowTypes DEF Shifted
<1>1. CASE ClientEnqueues
  <2>1. PICK kind \in AwaitedKinds : Enqueue(kind)
    BY <1>1 DEF ClientEnqueues
  <2>2. kind \in Kinds /\ NewCall(kind) /\ ~Quitting
    BY <1>1, <2>1 DEF ClientEnqueues, Kinds, Enqueue
  <2>3. Queued(kind)
    BY <2>1 DEF Enqueue, Postpone, Write, Queued
  <2>4. UNCHANGED <<buffer, wire, alive>>
    BY <2>1 DEF Enqueue
  <2>5. QED
    BY <1>A, <2>2, <2>3, <2>4, IssueKeepsCore
<1>2. CASE ClientRuns
  <2>1. PICK kind \in SilentKinds : Run(kind)
    BY <1>2 DEF ClientRuns, SilentKinds
  <2>2. kind \in Kinds /\ NewCall(kind) /\ ~Quitting
    BY <1>2, <2>1 DEF ClientRuns, Kinds, Run
  <2>3. Queued(kind)
    BY <2>1 DEF Run, Postpone, Write, Queued, SilentKinds, AwaitedKinds
  <2>4. UNCHANGED <<buffer, wire, alive>>
    BY <1>2 DEF ClientRuns
  <2>5. QED
    BY <1>A, <2>2, <2>3, <2>4, IssueKeepsCore
<1>3. CASE Banner
  BY <1>0, <1>3 DEF Banner, sessionVars, debuggerVars
<1>4. CASE Access
  BY <1>0, <1>4 DEF Access, debuggerVars
<1>5. CASE Connect
  BY <1>5, ConnectKeepsCore
<1>6. CASE Refused
  BY <1>0, <1>6 DEF Refused, debuggerVars
<1>7. CASE ReceiveSome
  <2>1. PICK n \in 0..Len(wire), half \in BOOLEAN : Receive(n, half)
    BY <1>7 DEF ReceiveSome
  <2>2. Shifted(0) /\ 0 <= Len(InFlight)
    BY <2>1, ReceiveShift, FlowTypes
  <2>3. UNCHANGED <<calls, settled, pendingCommands, pendingResponses, toDebugger, alive>>
    BY <2>1 DEF Receive, sessionVars
  <2>4. QED
    BY <2>2, <2>3, ShiftKeepsCore
<1>8. CASE FinishCmd
  BY <1>8, FinishKeepsCore
<1>9. CASE EmitStop
  <2>1. /\ Shifted(1) /\ 1 <= Len(InFlight) /\ InFlight[1].cmd = 0 /\ UNCHANGED alive
    BY <1>9, TakeElement DEF EmitStop, NextNode
  <2>2. CASE Run("run")
    <3>1. "run" \in Kinds /\ NewCall("run")
      BY <2>2 DEF Run, Kinds, SilentKinds
    <3>2. Queued("run")
      BY <2>2 DEF Run, Postpone, Write, Queued, AwaitedKinds
    <3>3. QED
      BY <2>1, <3>1, <3>2, IssueKeepsCore
  <2>3. CASE UNCHANGED <<calls, settled, pendingCommands, pendingResponses, toDebugger>>
    BY <2>1, <2>3, ShiftKeepsCore
  <2>4. QED
    BY <1>9, <2>2, <2>3 DEF EmitStop
<1>10. CASE SocketEnd
  BY <1>0, <1>10 DEF SocketEnd, debuggerVars
<1>11. CASE SocketReset
  BY <1>0, <1>11 DEF SocketReset, debuggerVars
<1>12. CASE ChildExit
  BY <1>0, <1>12 DEF ChildExit, adapterVars, debuggerVars
<1>13. CASE SpawnError
  BY <1>13, DeathKeepsCore DEF SpawnError, adapterVars, Phases
<1>14. CASE Answer
  BY <1>14, AnswerKeepsCore
<1>15. CASE Obey
  BY <1>15, ObeyKeepsCore
<1>16. CASE ObeyQuit
  BY <1>16, QuitKeepsCore
<1>17. CASE Stop
  BY <1>17, StopKeepsCore
<1>18. CASE Die
  BY <1>18, DeathKeepsCore DEF Die, adapterVars, sessionVars
<1>19. CASE UNCHANGED vars
  BY <1>0, <1>19 DEF vars, adapterVars, sessionVars, debuggerVars
<1>20. QED
  BY <1>1, <1>2, <1>3, <1>4, <1>5, <1>6, <1>7, <1>8, <1>9, <1>10, <1>11, <1>12,
     <1>13, <1>14, <1>15, <1>16, <1>17, <1>18, <1>19 DEF Next, Adapter, Debugger

\* The inductive invariant holds when the RubyProcess is constructed.
LEMMA InitInv == Init => IInv
<1> SUFFICES ASSUME Init PROVE IInv
  OBVIOUS
<1>1. TypeOK
  BY InitType
<1>2. /\ Len(calls) = 0 /\ Len(pendingCommands) = 0 /\ Len(pendingResponses) = 0
      /\ Len(toDebugger) = 0 /\ Len(InFlight) = 0
  <2>1. Len(buffer) = 0 /\ Len(wire) = 0
    BY EmptySeq DEF Init
  <2>2. QED
    BY <1>1, <2>1, FlowTypes, EmptySeq DEF Init
<1>3. Phases
  BY <1>2 DEF Init, Phases
<1>4. InOrder /\ QuitIsLast /\ Expectations /\ Unsettled /\ RepliesMatch
  BY <1>2 DEF InOrder, Increasing, QuitIsLast, Expectations, Unsettled, RepliesMatch
<1>5. QED
  BY <1>1, <1>3, <1>4 DEF IInv

\* The inductive invariant is preserved by every step.
LEMMA InvInductive == IInv /\ [Next]_vars => IInv'
<1> SUFFICES ASSUME IInv, [Next]_vars PROVE IInv'
  OBVIOUS
<1>1. TypeOK /\ Phases /\ Core
  BY DEF IInv, Core
<1>2. TypeOK' /\ Phases' /\ Core'
  BY <1>1, TypeInductive, PhasesInductive, CoreInductive
<1>3. QED
  BY <1>2 DEF IInv, Core

\* The inductive invariant holds in every reachable state, for every bound.
THEOREM QueuesCorrespond == Spec => []IInv
BY InitInv, InvInductive, PTL DEF Spec

\* A promise returned by Enqueue is only ever resolved with the reply to its
\* own command, whatever the chunking, the interleaving and the moment the
\* debugger dies.
THEOREM RepliesAlwaysMatch == Spec => []RepliesMatch
<1>1. IInv => RepliesMatch
  BY DEF IInv
<1>2. QED
  BY <1>1, QueuesCorrespond, PTL

(***************************************************************************)
(* RubyProcess implements CommandChannel.                                  *)
(***************************************************************************)

\* A step that issues a command is a Call of the channel.
LEMMA ImplementsCall ==
    ASSUME NEW kind \in Kinds, NewCall(kind), state' = state
    PROVE  Channel!Next
<1>1. Channel!Call(kind)
  BY DEF NewCall, Channel!Call
<1>2. kind \in Channel!Kinds
  BY DEF Kinds, AwaitedKinds, SilentKinds, Channel!Kinds, Channel!AwaitedKinds, Channel!SilentKinds
<1>3. QED
  BY <1>1, <1>2 DEF Channel!Next

\* FinishCmd settles the oldest unsettled awaited call, or nothing.
LEMMA ImplementsSettle ==
    ASSUME TypeOK, Core, Phases, FinishCmd
    PROVE  Channel!Next \/ UNCHANGED <<calls, settled, state>>
<1> DEFINE h == Head(pendingResponses)
           r == InFlight[1].cmd
<1>1. /\ state = "connected" /\ pendingCommands = <<>> /\ UNCHANGED <<calls, state>>
      /\ 1 <= Len(InFlight) /\ r # 0 /\ r = Head(buffer).cmd
  BY TakeElement DEF FinishCmd, NextNode, TypeOK, Phases
<1>2. CASE pendingResponses = <<>>
  BY <1>1, <1>2 DEF FinishCmd
<1>3. CASE pendingResponses # <<>> /\ ~Awaited(h)
  <2>1. settled' = settled
    BY <1>3, Zenon DEF FinishCmd
  <2>2. QED
    BY <1>1, <2>1
<1>4. CASE pendingResponses # <<>> /\ Awaited(h)
  <2>1. settled' = [settled EXCEPT ![h] = r]
    BY <1>1, <1>4, Zenon DEF FinishCmd
  <2>2. h \in 1..Len(calls) /\ h = r
    BY <1>1, <1>4, OldestMatches
  <2>3. /\ pendingResponses \in Seq(1..Len(calls)) /\ Increasing(pendingResponses)
        /\ Len(calls) \in Nat
    BY QueueElements DEF TypeOK, Core, InOrder
  <2>4. /\ Among(h, pendingResponses)
        /\ \A m : Among(m, pendingResponses) => Among(m, Tail(pendingResponses)) \/ m = h
        /\ \A j \in 1..Len(Tail(pendingResponses)) : h < Tail(pendingResponses)[j]
    BY <1>4, <2>3, Dequeueing
  <2>5. settled[h] = 0
    BY <1>4, <2>2, <2>4 DEF Core, Unsettled
  <2>6. ASSUME NEW m \in 1..(h - 1), Awaited(m)
        PROVE  settled[m] # 0
    <3>1. SUFFICES ASSUME settled[m] = 0 PROVE FALSE
      OBVIOUS
    <3>2. m \in 1..Len(calls) /\ m < h
      BY <2>2, <2>3
    <3>3. ~Among(m, pendingCommands)
      BY <1>1, EmptySeq DEF Among
    <3>4. Among(m, pendingResponses)
      BY <2>6, <3>1, <3>2, <3>3 DEF Core, Unsettled
    <3>5. m = h \/ h < m
      BY <2>4, <3>4 DEF Among
    <3>6. QED
      BY <2>2, <2>3, <3>2, <3>5
  <2>7. Channel!Settle(h)
    <3>1. \A n : Channel!Awaited(n) <=> Awaited(n)
      BY DEF Channel!Awaited, Awaited, Channel!AwaitedKinds, AwaitedKinds
    <3>2. /\ settled' = [settled EXCEPT ![h] = h]
          /\ UNCHANGED <<calls, state = "closed">> /\ ~(state = "closed")
      BY <1>1, <2>1, <2>2
    <3> HIDE DEF h
    <3>3. QED
      BY <1>4, <2>5, <2>6, <3>1, <3>2 DEF Channel!Settle
  <2>8. QED
    BY <2>2, <2>7 DEF Channel!Next
<1>5. QED
  BY <1>2, <1>3, <1>4

\* Every step of the connection is a step of the channel, or none.
LEMMA ImplementsNext == IInv /\ [Next]_vars => [Channel!Next]_(Channel!vars)
<1> SUFFICES ASSUME IInv, [Next]_vars PROVE [Channel!Next]_(Channel!vars)
  OBVIOUS
<1>0. TypeOK /\ Phases /\ Core
  BY DEF IInv, Core
<1>S. ASSUME UNCHANGED <<calls, settled, state>>
      PROVE  UNCHANGED Channel!vars
  BY <1>S DEF Channel!vars
<1>C. ASSUME UNCHANGED <<calls, settled>>, state' = "closed"
      PROVE  Channel!Next
  BY <1>C DEF Channel!Next, Channel!Close
<1>1. CASE ClientEnqueues
  <2>1. PICK kind \in AwaitedKinds : Enqueue(kind)
    BY <1>1 DEF ClientEnqueues
  <2>2. kind \in Kinds /\ NewCall(kind) /\ state' = state
    BY <2>1 DEF Kinds, Enqueue
  <2>3. QED
    BY <2>2, ImplementsCall
<1>2. CASE ClientRuns
  <2>1. PICK kind \in SilentKinds : Run(kind)
    BY <1>2 DEF ClientRuns, SilentKinds
  <2>2. kind \in Kinds /\ NewCall(kind) /\ state' = state
    BY <1>2, <2>1 DEF Kinds, Run, ClientRuns
  <2>3. QED
    BY <2>2, ImplementsCall
<1>3. CASE Banner
  BY <1>3, <1>S DEF Banner, sessionVars
<1>4. CASE Access
  BY <1>4, <1>S DEF Access
<1>5. CASE Connect
  <2>1. state = "ready" /\ state' = "connected" /\ UNCHANGED <<calls, settled>>
    BY <1>0, <1>5 DEF Connect, Phases
  <2>2. QED
    BY <2>1 DEF Channel!vars
<1>6. CASE Refused
  BY <1>6, <1>C DEF Refused, SocketError
<1>7. CASE ReceiveSome
  BY <1>7, <1>S DEF ReceiveSome, Receive, sessionVars
<1>8. CASE FinishCmd
  BY <1>0, <1>8, <1>S, ImplementsSettle
<1>9. CASE EmitStop
  <2>1. CASE Run("run")
    BY <1>9, <2>1, ImplementsCall DEF EmitStop, NextNode, Run, Kinds, SilentKinds
  <2>2. CASE UNCHANGED <<calls, settled, pendingCommands, pendingResponses, toDebugger>>
    BY <1>9, <1>S, <2>2 DEF EmitStop, NextNode
  <2>3. QED
    BY <1>9, <2>1, <2>2 DEF EmitStop
<1>10. CASE SocketEnd
  BY <1>10, <1>C DEF SocketEnd
<1>11. CASE SocketReset
  BY <1>11, <1>C DEF SocketReset, SocketError
<1>12. CASE ChildExit
  BY <1>12, <1>S DEF ChildExit, adapterVars
<1>13. CASE SpawnError
  BY <1>13, <1>S DEF SpawnError, adapterVars
<1>14. CASE Answer
  BY <1>14, <1>S DEF Answer, adapterVars, sessionVars
<1>15. CASE Obey
  BY <1>15, <1>S DEF Obey, adapterVars, sessionVars
<1>16. CASE ObeyQuit
  BY <1>16, <1>S DEF ObeyQuit, adapterVars, sessionVars
<1>17. CASE Stop
  BY <1>17, <1>S DEF Stop, adapterVars, sessionVars
<1>18. CASE Die
  BY <1>18, <1>S DEF Die, adapterVars, sessionVars
<1>19. CASE UNCHANGED vars
  BY <1>19, <1>S DEF vars, adapterVars, sessionVars
<1>20. QED
  BY <1>1, <1>2, <1>3, <1>4, <1>5, <1>6, <1>7, <1>8, <1>9, <1>10, <1>11, <1>12,
     <1>13, <1>14, <1>15, <1>16, <1>17, <1>18, <1>19 DEF Next, Adapter, Debugger

\* Every behaviour of the connection is one of the abstract channel: promises
\* settle in issue order, at most once, and never after the connection closed.
THEOREM ChannelImplemented == Spec => ImplementsChannel
<1>1. Init => Channel!Init
  BY DEF Init, Channel!Init
<1>2. QED
  BY <1>1, ImplementsNext, QueuesCorrespond, PTL
  DEF Spec, Channel!Spec, ImplementsChannel

(***************************************************************************)
(* What is kept in the buffer.                                             *)
(***************************************************************************)

\* Only the value of an eval holds quotes the debugger did not escape.
QuotedEvals ==
    /\ \A i \in 1..Len(buffer) : buffer[i].quotes # "escaped" => IsEval(buffer[i])
    /\ \A i \in 1..Len(wire) : wire[i].quotes # "escaped" => IsEval(wire[i])

\* A complete buffer that is kept holds quotes beyond repair or two evals.
KeptByItsEvals ==
    (Idle /\ buffer # <<>> /\ ~cut) =>
        \/ \E i \in 1..Len(buffer) : buffer[i].quotes = "beyond"
        \/ \E i, j \in 1..Len(buffer) : i < j /\ IsEval(buffer[i]) /\ IsEval(buffer[j])

KeptInv == QuotedEvals /\ KeptByItsEvals

\* The elements of buffer and wire.
LEMMA KeptElements ==
    ASSUME TypeOK
    PROVE  /\ Len(calls) \in Nat /\ Len(buffer) \in Nat /\ Len(wire) \in Nat
           /\ \A i \in 1..Len(buffer) : buffer[i] \in [cmd : 0..Len(calls), quotes : Quotes]
           /\ \A i \in 1..Len(wire) : wire[i] \in [cmd : 0..Len(calls), quotes : Quotes]
BY LenProperties, ElementOfSeq DEF TypeOK

\* A later call does not change which replies are to evals.
LEMMA EvalsKept ==
    ASSUME TypeOK, UNCHANGED calls \/ \E kind \in Kinds : NewCall(kind)
    PROVE  \A e \in [cmd : 0..Len(calls), quotes : Quotes] : IsEval(e) => IsEval(e)'
<1>1. Len(calls) \in Nat /\ calls \in Seq(Kinds)
  BY LenProperties DEF TypeOK
<1>2. \A n \in 1..Len(calls) : calls'[n] = calls[n]
  <2>1. CASE UNCHANGED calls
    BY <2>1
  <2>2. CASE \E kind \in Kinds : NewCall(kind)
    BY <1>1, <2>2, AppendProperties DEF NewCall
  <2>3. QED
    BY <2>1, <2>2
<1>3. QED
  BY <1>1, <1>2 DEF IsEval

\* What Receive puts into the buffer, and what it leaves on the wire.
LEMMA ReceivedText ==
    ASSUME TypeOK, NEW n \in 0..Len(wire), NEW half \in BOOLEAN, Receive(n, half)
    PROVE  \E s \in Seq([cmd : 0..Len(calls), quotes : Quotes]) :
              /\ buffer' = Repair(s) /\ cut' = half
              /\ dispatching' = (~half /\ ~Quoted(buffer'))
              /\ \A i \in 1..Len(s) : \/ \E k \in 1..Len(buffer) : s[i] = buffer[k]
                                      \/ \E k \in 1..Len(wire) : s[i] = wire[k]
              /\ \A i \in 1..Len(wire') : \E k \in 1..Len(wire) : wire'[i] = wire[k]
<1> DEFINE E == [cmd : 0..Len(calls), quotes : Quotes]
           front == SubSeq(wire, 1, n)
           rest == SubSeq(wire, n + 1, Len(wire))
           s == buffer \o front
<1>1. /\ buffer \in Seq(E) /\ wire \in Seq(E)
      /\ Len(buffer) \in Nat /\ Len(wire) \in Nat
      /\ \A i \in 1..Len(wire) : wire[i] \in E
  BY LenProperties, ElementOfSeq DEF TypeOK
<1>2. /\ buffer' = Repair(s) /\ cut' = half /\ wire' = rest
      /\ dispatching' = (~half /\ ~Quoted(buffer'))
  BY DEF Receive
<1> HIDE DEF E
<1>3. front \in Seq(E) /\ Len(front) = n /\ \A i \in 1..n : front[i] = wire[i]
  <2>1. 1 <= n \/ n = 0
    BY <1>1
  <2>2. QED
    BY <1>1, <2>1, SubSeqProperties
<1>4. /\ Len(rest) = Len(wire) - n
      /\ \A i \in 1..(Len(wire) - n) : rest[i] = wire[n + i]
  <2>1. n + 1 \in Int /\ \A i \in (n + 1)..Len(wire) : wire[i] \in E
    BY <1>1
  <2>2. /\ Len(rest) = IF n + 1 <= Len(wire) THEN Len(wire) - (n + 1) + 1 ELSE 0
        /\ \A i \in 1..(Len(wire) - (n + 1) + 1) : rest[i] = wire[(n + 1) + i - 1]
    BY <1>1, <2>1, SubSeqProperties
  <2>3. QED
    BY <1>1, <2>2
<1>5. /\ s \in Seq(E) /\ Len(s) = Len(buffer) + n
      /\ \A i \in 1..(Len(buffer) + n) :
            s[i] = IF i <= Len(buffer) THEN buffer[i] ELSE front[i - Len(buffer)]
  BY <1>1, <1>3, ConcatProperties
<1> HIDE DEF front, rest, s
<1>6. ASSUME NEW i \in 1..Len(s)
      PROVE  \/ \E k \in 1..Len(buffer) : s[i] = buffer[k]
             \/ \E k \in 1..Len(wire) : s[i] = wire[k]
  <2>1. CASE i <= Len(buffer)
    BY <1>1, <1>5, <2>1
  <2>2. CASE ~(i <= Len(buffer))
    <3>1. i - Len(buffer) \in 1..n /\ i - Len(buffer) \in 1..Len(wire)
      BY <1>1, <1>5, <2>2
    <3>2. s[i] = wire[i - Len(buffer)]
      BY <1>3, <1>5, <2>2, <3>1
    <3>3. QED
      BY <3>1, <3>2
  <2>3. QED
    BY <2>1, <2>2
<1>7. ASSUME NEW i \in 1..Len(wire')
      PROVE  \E k \in 1..Len(wire) : wire'[i] = wire[k]
  <2>1. n + i \in 1..Len(wire) /\ wire'[i] = wire[n + i]
    BY <1>1, <1>2, <1>4
  <2>2. QED
    BY <2>1
<1>8. QED
  BY <1>2, <1>5, <1>6, <1>7 DEF E

LEMMA ReceiveKeeps ==
    ASSUME TypeOK, KeptInv, ReceiveSome
    PROVE  KeptInv'
<1> DEFINE E == [cmd : 0..Len(calls), quotes : Quotes]
<1>1. PICK n \in 0..Len(wire), half \in BOOLEAN : Receive(n, half)
  BY DEF ReceiveSome
<1>2. PICK s \in Seq(E) :
        /\ buffer' = Repair(s) /\ cut' = half
        /\ dispatching' = (~half /\ ~Quoted(buffer'))
        /\ \A i \in 1..Len(s) : \/ \E k \in 1..Len(buffer) : s[i] = buffer[k]
                                \/ \E k \in 1..Len(wire) : s[i] = wire[k]
        /\ \A i \in 1..Len(wire') : \E k \in 1..Len(wire) : wire'[i] = wire[k]
  BY <1>1, ReceivedText
<1>3. UNCHANGED calls
  BY <1>1 DEF Receive, sessionVars
<1>4. \A i \in 1..Len(s) : s[i] \in E /\ (s[i].quotes # "escaped" => IsEval(s[i]))
  BY <1>2, KeptElements DEF KeptInv, QuotedEvals
<1>5. Len(s) \in Nat /\ Len(calls) \in Nat
  BY LenProperties, KeptElements
<1>6. Len(buffer') = Len(s) /\ \A i \in 1..Len(s) : buffer'[i].cmd = s[i].cmd
  BY <1>2, <1>5, RepairKeeps
<1>7. \A i \in 1..Len(s) :
         buffer'[i].quotes # "escaped" =>
            /\ s[i].quotes # "escaped"
            /\ s[i].quotes # "beyond" => i \notin FirstEval(s)
  BY <1>2, <1>4 DEF Repair, Quotes
<1>8. \A i \in 1..Len(s) : IsEval(buffer[i])' <=> IsEval(s[i])
  BY <1>3, <1>6 DEF IsEval
<1>9. QuotedEvals'
  <2>1. \A i \in 1..Len(wire') : wire'[i].quotes # "escaped" => IsEval(wire[i])'
    BY <1>2, <1>3 DEF KeptInv, QuotedEvals, IsEval
  <2>2. \A i \in 1..Len(buffer') : buffer'[i].quotes # "escaped" => IsEval(buffer[i])'
    BY <1>4, <1>6, <1>7, <1>8
  <2>3. QED
    BY <2>1, <2>2 DEF QuotedEvals
<1>10. KeptByItsEvals'
  <2>1. SUFFICES ASSUME ~dispatching', ~cut'
                 PROVE  \/ \E i \in 1..Len(buffer') : buffer'[i].quotes = "beyond"
                        \/ \E i, j \in 1..Len(buffer') :
                              i < j /\ IsEval(buffer[i])' /\ IsEval(buffer[j])'
    BY DEF KeptByItsEvals, Idle
  <2>2. PICK j \in 1..Len(buffer') : buffer'[j].quotes # "escaped"
    BY <1>2, <2>1 DEF Quoted
  <2>3. CASE s[j].quotes = "beyond"
    <3>1. buffer'[j].quotes = "beyond"
      BY <1>2, <1>4, <1>6, <2>2, <2>3 DEF Repair
    <3>2. QED
      BY <2>2, <3>1
  <2>4. CASE s[j].quotes # "beyond"
    <3>1. j \in 1..Len(s) /\ IsEval(s[j]) /\ j \notin FirstEval(s)
      BY <1>4, <1>6, <1>7, <2>2, <2>4
    <3>2. PICK i \in 1..(j - 1) : IsEval(s[i])
      BY <3>1 DEF FirstEval
    <3>3. i \in 1..Len(s) /\ i < j
      BY <1>5, <3>1, <3>2
    <3>4. QED
      BY <1>6, <1>8, <2>2, <3>1, <3>2, <3>3
  <2>5. QED
    BY <2>3, <2>4
<1>11. QED
  BY <1>9, <1>10 DEF KeptInv

\* The loop of 'data' takes the elements of the buffer one after the other.
LEMMA NextNodeKeeps ==
    ASSUME TypeOK, KeptInv, dispatching, NextNode,
           UNCHANGED calls \/ \E kind \in Kinds : NewCall(kind)
    PROVE  KeptInv'
<1> DEFINE E == [cmd : 0..Len(calls), quotes : Quotes]
<1>1. /\ buffer \in Seq(E) /\ buffer # <<>>
      /\ buffer' = Tail(buffer) /\ wire' = wire
      /\ dispatching' = (Tail(buffer) # <<>>)
  BY DEF TypeOK, NextNode
<1>2. \A i \in 1..Len(buffer') : i + 1 \in 1..Len(buffer) /\ buffer'[i] = buffer[i + 1]
  <2> HIDE DEF E
  <2>1. /\ Len(Tail(buffer)) = Len(buffer) - 1 /\ Len(buffer) \in Nat
        /\ \A i \in 1..Len(Tail(buffer)) : Tail(buffer)[i] = buffer[i + 1]
    BY <1>1, HeadTailProperties, LenProperties
  <2>2. QED
    BY <1>1, <2>1
<1>3. QuotedEvals'
  BY <1>1, <1>2, EvalsKept, KeptElements DEF KeptInv, QuotedEvals
<1>4. KeptByItsEvals'
  BY <1>1 DEF KeptByItsEvals, Idle
<1>5. QED
  BY <1>3, <1>4 DEF KeptInv

\* A step that leaves the buffer alone.
LEMMA BufferKeeps ==
    ASSUME TypeOK, KeptInv, UNCHANGED <<buffer, cut, dispatching>>,
           UNCHANGED calls \/ \E kind \in Kinds : NewCall(kind),
           \A i \in 1..Len(wire') :
              wire'[i].quotes # "escaped" =>
                 \/ i \in 1..Len(wire) /\ wire'[i] = wire[i]
                 \/ UNCHANGED calls /\ IsEval(wire'[i])
    PROVE  KeptInv'
<1>1. QuotedEvals'
  BY EvalsKept, KeptElements DEF KeptInv, QuotedEvals, IsEval
<1>2. KeptByItsEvals'
  BY EvalsKept, KeptElements DEF KeptInv, KeptByItsEvals, Idle
<1>3. QED
  BY <1>1, <1>2 DEF KeptInv

LEMMA KeptStep ==
    ASSUME TypeOK, TypeOK', KeptInv, [Next]_vars
    PROVE  KeptInv'
<1> DEFINE E == [cmd : 0..Len(calls), quotes : Quotes]
<1>1. CASE /\ UNCHANGED <<buffer, cut, dispatching, wire>>
           /\ UNCHANGED calls \/ \E kind \in Kinds : NewCall(kind)
  BY <1>1, BufferKeeps
<1>2. CASE ClientEnqueues \/ ClientRuns
  <2>1. PICK kind \in Kinds : Enqueue(kind) \/ (Run(kind) /\ UNCHANGED <<buffer, cut, dispatching, wire>>)
    BY <1>2 DEF ClientEnqueues, ClientRuns, Kinds, SilentKinds
  <2>2. NewCall(kind) /\ UNCHANGED <<buffer, cut, dispatching, wire>>
    BY <2>1 DEF Enqueue, Run
  <2>3. QED
    BY <1>1, <2>2
<1>3. CASE Banner \/ Access \/ Connect \/ Refused \/ SocketEnd \/ SocketReset \/ ChildExit \/ SpawnError
           \/ Obey
  BY <1>1, <1>3 DEF Banner, Access, Connect, Refused, SocketEnd, SocketReset, ChildExit,
     SpawnError, Obey, adapterVars, sessionVars, debuggerVars
<1>4. CASE ReceiveSome
  BY <1>4, ReceiveKeeps
<1>5. CASE FinishCmd \/ EmitStop
  <2>1. /\ dispatching /\ NextNode
        /\ UNCHANGED calls \/ NewCall("run")
    BY <1>5 DEF FinishCmd, EmitStop, Run
  <2>2. "run" \in Kinds
    BY DEF Kinds, SilentKinds
  <2>3. QED
    BY <2>1, <2>2, NextNodeKeeps
<1>6. ASSUME NEW e \in E, wire' = Append(wire, e), e.quotes # "escaped" => IsEval(e),
             UNCHANGED <<buffer, cut, dispatching, calls>>
      PROVE  KeptInv'
  <2>1. \A i \in 1..Len(wire') :
           \/ i \in 1..Len(wire) /\ wire'[i] = wire[i]
           \/ wire'[i] = e
    <3>1. wire \in Seq(E) /\ Len(wire) \in Nat
      BY LenProperties DEF TypeOK
    <3> HIDE DEF E
    <3>2. QED
      BY <1>6, <3>1, AppendProperties
  <2>2. QED
    BY <1>6, <2>1, BufferKeeps
<1>7. CASE Answer
  <2>1. PICK q \in Quotes :
          /\ q # "escaped" => calls[Head(toDebugger)] = "eval"
          /\ wire' = Append(wire, [cmd |-> Head(toDebugger), quotes |-> q])
    BY <1>7 DEF Answer
  <2>2. Head(toDebugger) \in 1..Len(calls) /\ Len(calls) \in Nat
    BY <1>7, HeadTailProperties, LenProperties DEF Answer, TypeOK
  <2>3. UNCHANGED <<buffer, cut, dispatching, calls>>
    BY <1>7 DEF Answer, adapterVars, sessionVars
  <2>4. /\ [cmd |-> Head(toDebugger), quotes |-> q] \in E
        /\ q # "escaped" => IsEval([cmd |-> Head(toDebugger), quotes |-> q])
    BY <2>1, <2>2 DEF IsEval
  <2>5. QED
    BY <1>6, <2>1, <2>3, <2>4
<1>8. CASE ObeyQuit
  <2>1. UNCHANGED <<buffer, cut, dispatching, calls>>
    BY <1>8 DEF ObeyQuit, adapterVars, sessionVars
  <2>2. CASE UNCHANGED wire
    BY <1>1, <2>1, <2>2
  <2>3. CASE wire' = Append(wire, [cmd |-> Head(toDebugger), quotes |-> "escaped"])
    <3>1. Head(toDebugger) \in 1..Len(calls) /\ Len(calls) \in Nat
      BY <1>8, HeadTailProperties, LenProperties DEF ObeyQuit, TypeOK
    <3>2. [cmd |-> Head(toDebugger), quotes |-> "escaped"] \in E
      BY <3>1 DEF Quotes
    <3>3. QED
      BY <1>6, <2>1, <2>3, <3>2
  <2>4. QED
    BY <1>8, <2>2, <2>3 DEF ObeyQuit
<1>9. CASE Stop
  <2>1. [cmd |-> 0, quotes |-> "escaped"] \in E
    BY KeptElements DEF Quotes
  <2>2. QED
    BY <1>6, <1>9, <2>1 DEF Stop, adapterVars, sessionVars
<1>10. CASE Die
  <2>1. UNCHANGED <<buffer, cut, dispatching, calls>>
    BY <1>10 DEF Die, adapterVars, sessionVars
  <2>2. CASE UNCHANGED wire
    BY <1>1, <2>1, <2>2
  <2>3. CASE wire' = <<>>
    BY <2>1, <2>3, BufferKeeps, EmptySeq
  <2>4. QED
    BY <1>10, <2>2, <2>3 DEF Die
<1>11. CASE UNCHANGED vars
  BY <1>1, <1>11 DEF vars, adapterVars, sessionVars, debuggerVars
<1>12. QED
  BY <1>2, <1>3, <1>4, <1>5, <1>7, <1>8, <1>9, <1>10, <1>11 DEF Next, Adapter, Debugger

\* Nothing but evals keeps a complete buffer back.
LEMMA KeptInvariant == Spec => []KeptInv
<1>1. Init => KeptInv
  <2>1. SUFFICES ASSUME Init PROVE KeptInv
    OBVIOUS
  <2>2. Len(buffer) = 0 /\ Len(wire) = 0 /\ buffer = <<>>
    BY <2>1, EmptySeq DEF Init
  <2>3. QED
    BY <2>2 DEF KeptInv, QuotedEvals, KeptByItsEvals
<1>2. TypeOK /\ TypeOK' /\ KeptInv /\ [Next]_vars => KeptInv'
  BY KeptStep
<1>3. QED
  BY <1>1, <1>2, TypeCorrect, PTL DEF Spec

\* An eval in the buffer is one the client waits for.
LEMMA EvalsWaitedFor ==
    ASSUME IInv, NEW i \in 1..Len(buffer), IsEval(buffer[i])
    PROVE  buffer[i].cmd \in 1..Len(calls) /\ Evaluating(buffer[i].cmd)
<1>1. /\ Len(buffer) \in Nat /\ Len(wire) \in Nat /\ Len(calls) \in Nat
      /\ buffer[i] \in [cmd : 0..Len(calls), quotes : Quotes]
  BY KeptElements DEF IInv
<1>2. i \in 1..Len(InFlight) /\ InFlight[i] = buffer[i]
  BY <1>1, ConcatProperties DEF InFlight, IInv, TypeOK
<1>3. buffer[i].cmd \in 1..Len(calls) /\ calls[buffer[i].cmd] = "eval"
  BY <1>1 DEF IsEval
<1>4. Awaited(buffer[i].cmd)
  BY <1>3 DEF Awaited, AwaitedKinds
<1>5. Among(buffer[i].cmd, pendingResponses)
  BY <1>2, <1>3, <1>4 DEF IInv, Expectations
<1>6. QED
  BY <1>3, <1>4, <1>5 DEF IInv, Unsettled, Evaluating

\* ruby.ts:131-163: whatever the chunks of the stream, a complete buffer is
\* kept back only by a reply beyond repair or while the client waits for two
\* evaluations: two replies in the buffer are to two commands it waits for.
THEOREM OneEvalNeverBlocksTheBuffer == Spec => []OneEvalNeverBlocks
<1>1. IInv /\ KeptInv => OneEvalNeverBlocks
  <2>1. SUFFICES ASSUME IInv, KeptInv, Idle, buffer # <<>>, ~cut,
                        \A i \in 1..Len(buffer) : buffer[i].quotes # "beyond"
                 PROVE  \E m, n \in 1..Len(calls) : m < n /\ Evaluating(m) /\ Evaluating(n)
    BY DEF OneEvalNeverBlocks
  <2>2. PICK i, j \in 1..Len(buffer) : i < j /\ IsEval(buffer[i]) /\ IsEval(buffer[j])
    BY <2>1 DEF KeptInv, KeptByItsEvals
  <2>3. /\ buffer[i].cmd \in 1..Len(calls) /\ Evaluating(buffer[i].cmd)
        /\ buffer[j].cmd \in 1..Len(calls) /\ Evaluating(buffer[j].cmd)
    BY <2>1, <2>2, EvalsWaitedFor
  <2>4. /\ i \in 1..Len(InFlight) /\ j \in 1..Len(InFlight)
        /\ InFlight[i] = buffer[i] /\ InFlight[j] = buffer[j]
    <3>1. Len(buffer) \in Nat /\ Len(wire) \in Nat
      BY <2>1, KeptElements DEF IInv
    <3>2. QED
      BY <2>1, <3>1, ConcatProperties DEF InFlight, IInv, TypeOK
  <2>5. buffer[i].cmd < buffer[j].cmd
    BY <2>1, <2>2, <2>4 DEF IInv, InOrder, IsEval
  <2>6. QED
    BY <2>3, <2>5
<1>2. QED
  BY <1>1, QueuesCorrespond, KeptInvariant, PTL

(***************************************************************************)
(* The stop events that are on their way.                                  *)
(***************************************************************************)

StopsInFlight == {i \in 1..Len(InFlight) : InFlight[i].cmd = 0}

\* A connection that has been reset belongs to a debugger that is dead.
StopsInv == StopsConserved /\ (alive => peer = "open")

LEMMA StopsFinite ==
    ASSUME TypeOK
    PROVE  IsFiniteSet(StopsInFlight) /\ Cardinality(StopsInFlight) \in Nat
<1>1. IsFiniteSet(1..Len(InFlight))
  BY FlowTypes, FS_Interval
<1>2. StopsInFlight \subseteq 1..Len(InFlight)
  BY DEF StopsInFlight
<1>3. QED
  BY <1>1, <1>2, FS_Subset, FS_CardinalityType

\* The next element is taken: the others move up by one.
LEMMA StopsMoveUp ==
    ASSUME TypeOK, TypeOK', Shifted(1), 1 <= Len(InFlight)
    PROVE  Cardinality(StopsInFlight') = IF InFlight[1].cmd = 0
                                         THEN Cardinality(StopsInFlight) - 1
                                         ELSE Cardinality(StopsInFlight)
<1> DEFINE S == StopsInFlight'
           T == StopsInFlight \ {1}
           F == [i \in S |-> i + 1]
<1>1. /\ Len(InFlight) \in Nat /\ Len(InFlight') = Len(InFlight) - 1
      /\ \A i \in 1..Len(InFlight') : InFlight'[i].cmd = InFlight[i + 1].cmd
  BY FlowTypes DEF Shifted
<1>2. \A i \in S : i \in Nat /\ i + 1 \in T
  BY <1>1 DEF StopsInFlight
<1>3. \A j \in T : j - 1 \in S /\ (j - 1) + 1 = j
  BY <1>1 DEF StopsInFlight
<1>4. F \in [S -> T] /\ \A a, b \in S : F[a] = F[b] => a = b
  <2> HIDE DEF S, T
  <2> QED
    BY <1>2
<1>5. \A j \in T : \E i \in S : F[i] = j
  <2> HIDE DEF S, T
  <2> QED
    BY <1>3
<1>6. F \in Bijection(S, T)
  <2> HIDE DEF S, T, F
  <2> QED
    BY <1>4, <1>5, Fun_IsBij
<1>7. ExistsBijection(S, T)
  <2> HIDE DEF S, T, F
  <2> QED
    BY <1>6 DEF ExistsBijection
<1>8. IsFiniteSet(S)
  <2>1. S \subseteq 1..Len(InFlight')
    BY DEF StopsInFlight
  <2>2. Len(InFlight') \in Int
    BY <1>1
  <2>3. IsFiniteSet(1..Len(InFlight'))
    BY <2>2, FS_Interval
  <2>4. QED
    BY <2>1, <2>3, FS_Subset
<1>9. Cardinality(S) = Cardinality(T)
  <2> HIDE DEF S, T
  <2> QED
    BY <1>7, <1>8, FS_Bijection
<1>10. Cardinality(T) = IF 1 \in StopsInFlight THEN Cardinality(StopsInFlight) - 1
                        ELSE Cardinality(StopsInFlight)
  BY StopsFinite, FS_RemoveElement
<1>11. 1 \in StopsInFlight <=> InFlight[1].cmd = 0
  BY <1>1 DEF StopsInFlight
<1>12. QED
  BY <1>9, <1>10, <1>11

\* An element is put on the wire.
LEMMA StopsAppended ==
    ASSUME TypeOK, NEW e \in [cmd : 0..Len(calls), quotes : Quotes],
           UNCHANGED buffer, wire' = Append(wire, e)
    PROVE  Cardinality(StopsInFlight') = IF e.cmd = 0
                                         THEN Cardinality(StopsInFlight) + 1
                                         ELSE Cardinality(StopsInFlight)
<1>1. /\ Len(InFlight) \in Nat /\ Len(InFlight') = Len(InFlight) + 1
      /\ \A i \in 1..Len(InFlight) : InFlight'[i].cmd = InFlight[i].cmd
      /\ InFlight'[Len(InFlight) + 1].cmd = e.cmd
  BY AppendedElement, FlowTypes
<1>2. CASE e.cmd = 0
  <2>1. StopsInFlight' = StopsInFlight \cup {Len(InFlight) + 1}
    BY <1>1, <1>2 DEF StopsInFlight
  <2>2. Len(InFlight) + 1 \notin StopsInFlight
    BY <1>1 DEF StopsInFlight
  <2>3. QED
    BY <1>2, <2>1, <2>2, StopsFinite, FS_AddElement
<1>3. CASE e.cmd # 0
  <2>1. StopsInFlight' = StopsInFlight
    BY <1>1, <1>3 DEF StopsInFlight
  <2>2. QED
    BY <1>3, <2>1
<1>4. QED
  BY <1>2, <1>3

LEMMA StopsStep ==
    ASSUME TypeOK, TypeOK', StopsInv, [Next]_vars
    PROVE  StopsInv'
<1>1. ASSUME Cardinality(StopsInFlight') = Cardinality(StopsInFlight),
             UNCHANGED <<stops, emitted, peer>>, alive' => alive
      PROVE  StopsInv'
  BY <1>1 DEF StopsInv, StopsConserved, StopsInFlight
<1>2. ASSUME UNCHANGED <<buffer, wire, stops, emitted, peer>>, alive' => alive
      PROVE  StopsInv'
  <2>1. InFlight' = InFlight
    BY <1>2 DEF InFlight
  <2>2. StopsInFlight' = StopsInFlight
    BY <2>1 DEF StopsInFlight
  <2>3. QED
    BY <1>1, <1>2, <2>2
<1>3. CASE ClientEnqueues \/ ClientRuns \/ Banner \/ Access \/ Connect \/ Refused
           \/ SocketEnd \/ SocketReset \/ ChildExit \/ SpawnError \/ Obey
  BY <1>2, <1>3 DEF ClientEnqueues, Enqueue, ClientRuns, Banner, Access, Connect, Refused,
     SocketEnd, SocketReset, ChildExit, SpawnError, Obey, adapterVars, sessionVars, debuggerVars
<1>4. CASE ReceiveSome
  <2>1. PICK n \in 0..Len(wire), half \in BOOLEAN : Receive(n, half)
    BY <1>4 DEF ReceiveSome
  <2>2. /\ Len(InFlight) \in Nat /\ Len(InFlight') = Len(InFlight)
        /\ \A i \in 1..Len(InFlight) : InFlight'[i].cmd = InFlight[i].cmd
    BY <2>1, ReceiveShift, FlowTypes DEF Shifted
  <2>3. StopsInFlight' = StopsInFlight
    BY <2>2 DEF StopsInFlight
  <2>4. QED
    BY <1>1, <2>1, <2>3 DEF Receive, sessionVars
<1>5. CASE FinishCmd
  <2>1. /\ Shifted(1) /\ 1 <= Len(InFlight) /\ InFlight[1].cmd # 0
        /\ UNCHANGED <<stops, emitted, peer, alive>>
    BY <1>5, TakeElement DEF FinishCmd, NextNode
  <2>2. QED
    BY <1>1, <2>1, StopsMoveUp
<1>6. CASE EmitStop
  <2>1. /\ Shifted(1) /\ 1 <= Len(InFlight) /\ InFlight[1].cmd = 0
        /\ emitted' = emitted + 1 /\ UNCHANGED <<stops, peer, alive>>
    BY <1>6, TakeElement DEF EmitStop, NextNode
  <2>2. Cardinality(StopsInFlight') = Cardinality(StopsInFlight) - 1
    BY <2>1, StopsMoveUp
  <2>3. emitted \in Nat /\ Cardinality(StopsInFlight) \in Nat
    BY StopsFinite DEF TypeOK
  <2>4. QED
    BY <2>1, <2>2, <2>3 DEF StopsInv, StopsConserved, StopsInFlight
<1>7. CASE Answer
  <2>1. PICK q \in Quotes : wire' = Append(wire, [cmd |-> Head(toDebugger), quotes |-> q])
    BY <1>7 DEF Answer
  <2>2. Head(toDebugger) \in 1..Len(calls) /\ Len(calls) \in Nat
    BY <1>7, HeadTailProperties, LenProperties DEF Answer, TypeOK
  <2>3. UNCHANGED <<buffer, stops, emitted, peer, alive>>
    BY <1>7 DEF Answer, adapterVars, sessionVars
  <2>4. /\ [cmd |-> Head(toDebugger), quotes |-> q] \in [cmd : 0..Len(calls), quotes : Quotes]
        /\ [cmd |-> Head(toDebugger), quotes |-> q].cmd # 0
    BY <2>2
  <2>5. Cardinality(StopsInFlight') = Cardinality(StopsInFlight)
    BY <2>1, <2>3, <2>4, StopsAppended
  <2>6. QED
    BY <1>1, <2>3, <2>5
<1>8. CASE ObeyQuit
  <2>1. UNCHANGED <<buffer, stops, emitted>> /\ peer' = "fin" /\ alive' = FALSE /\ peer = "open"
    BY <1>8 DEF ObeyQuit, adapterVars, sessionVars, StopsInv
  <2>2. Cardinality(StopsInFlight') = Cardinality(StopsInFlight)
    <3>1. CASE UNCHANGED wire
      <4>1. InFlight' = InFlight
        BY <2>1, <3>1 DEF InFlight
      <4>2. QED
        BY <4>1 DEF StopsInFlight
    <3>2. CASE wire' = Append(wire, [cmd |-> Head(toDebugger), quotes |-> "escaped"])
      <4>1. Head(toDebugger) \in 1..Len(calls) /\ Len(calls) \in Nat
        BY <1>8, HeadTailProperties, LenProperties DEF ObeyQuit, TypeOK
      <4>2. /\ [cmd |-> Head(toDebugger), quotes |-> "escaped"] \in [cmd : 0..Len(calls), quotes : Quotes]
            /\ [cmd |-> Head(toDebugger), quotes |-> "escaped"].cmd # 0
        BY <4>1 DEF Quotes
      <4>3. QED
        BY <2>1, <3>2, <4>2, StopsAppended
    <3>3. QED
      BY <1>8, <3>1, <3>2 DEF ObeyQuit
  <2>3. QED
    BY <2>1, <2>2 DEF StopsInv, StopsConserved, StopsInFlight
<1>9. CASE Stop
  <2>1. /\ UNCHANGED <<buffer, emitted, peer, alive>> /\ stops' = stops + 1
        /\ wire' = Append(wire, [cmd |-> 0, quotes |-> "escaped"])
    BY <1>9 DEF Stop, adapterVars, sessionVars
  <2>2. [cmd |-> 0, quotes |-> "escaped"] \in [cmd : 0..Len(calls), quotes : Quotes]
    BY KeptElements DEF Quotes
  <2>3. Cardinality(StopsInFlight') = Cardinality(StopsInFlight) + 1
    BY <2>1, <2>2, StopsAppended
  <2>4. emitted \in Nat /\ stops \in Nat /\ Cardinality(StopsInFlight) \in Nat
    BY StopsFinite DEF TypeOK
  <2>5. QED
    BY SMTT(30), <2>1, <2>3, <2>4 DEF StopsInv, StopsConserved, StopsInFlight
<1>10. CASE Die
  <2>1. CASE peer' = "rst"
    BY <1>10, <2>1 DEF Die, StopsInv, StopsConserved
  <2>2. CASE peer' = "fin" /\ UNCHANGED wire
    <3>1. /\ UNCHANGED <<buffer, wire, stops, emitted>> /\ peer = "open" /\ alive' = FALSE
      BY <1>10, <2>2 DEF Die, adapterVars, sessionVars, StopsInv
    <3>2. InFlight' = InFlight
      BY <3>1 DEF InFlight
    <3>3. QED
      BY <3>1, <3>2 DEF StopsInv, StopsConserved
  <2>3. QED
    BY <1>10, <2>1, <2>2 DEF Die
<1>11. CASE UNCHANGED vars
  BY <1>2, <1>11 DEF vars, adapterVars, sessionVars, debuggerVars
<1>12. QED
  BY <1>3, <1>4, <1>5, <1>6, <1>7, <1>8, <1>9, <1>10, <1>11 DEF Next, Adapter, Debugger

\* ruby.ts:190-196: no stop event is lost, handled twice or dropped with a kept
\* buffer, unless the connection is reset.
THEOREM StopsAlwaysConserved == Spec => []StopsConserved
<1>1. Init => StopsInv
  <2>1. SUFFICES ASSUME Init PROVE StopsInv
    OBVIOUS
  <2>2. Len(InFlight) = 0
    <3>1. Len(buffer) = 0 /\ Len(wire) = 0
      BY <2>1, EmptySeq DEF Init
    <3>2. QED
      BY <2>1, <3>1, InitType, FlowTypes
  <2>3. {i \in 1..Len(InFlight) : InFlight[i].cmd = 0} = {}
    BY <2>2
  <2>4. Cardinality({i \in 1..Len(InFlight) : InFlight[i].cmd = 0}) = 0
    BY <2>3, FS_EmptySet
  <2>5. QED
    BY <2>1, <2>4 DEF Init, StopsInv, StopsConserved
<1>2. TypeOK /\ TypeOK' /\ StopsInv /\ [Next]_vars => StopsInv'
  BY StopsStep
<1>3. StopsInv => StopsConserved
  BY DEF StopsInv
<1>4. QED
  BY <1>1, <1>2, <1>3, TypeCorrect, PTL DEF Spec

=============================================================================
