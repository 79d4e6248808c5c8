-------------------------- MODULE DebugSession_proofs --------------------------
(***************************************************************************)
(* Proofs about DebugSession for all programs, kinds of files and bounds:  *)
(* who is in control of the program, which frames are meant, and types.    *)
(***************************************************************************)
EXTENDS DebugSession, Integers, SequenceTheorems, FiniteSetTheorems, FunctionTheorems, TLAPS

(***************************************************************************)
(* FIFO channels.                                                          *)
(***************************************************************************)

\* A channel after a message has been put into it.
LEMMA Appended ==
    ASSUME NEW S, NEW s \in Seq(S), NEW m \in S
    PROVE  /\ Append(s, m) \in Seq(S)
           /\ Len(s) \in Nat /\ Len(Append(s, m)) = Len(s) + 1
           /\ Append(s, m)[Len(s) + 1] = m
           /\ \A i \in 1..Len(s) : Append(s, m)[i] = s[i]
           /\ \A i \in 1..Len(Append(s, m)) : i \in 1..Len(s) \/ i = Len(s) + 1
BY AppendProperties, LenProperties

\* A channel after a message has been taken out of it.
LEMMA Dropped ==
    ASSUME NEW S, NEW s \in Seq(S), s # <<>>
    PROVE  /\ Tail(s) \in Seq(S)
           /\ Head(s) \in S /\ Head(s) = s[1] /\ 1 \in 1..Len(s)
           /\ Len(s) \in Nat /\ Len(Tail(s)) = Len(s) - 1
           /\ \A i \in 1..Len(Tail(s)) : i + 1 \in 1..Len(s) /\ Tail(s)[i] = s[i + 1]
BY HeadTailProperties, LenProperties, EmptySeq

(***************************************************************************)
(* The inductive invariant.  One thing at a time may set the program going *)
(* or report its stop: the program itself, a stop on its way to the        *)
(* adapter, a command that resumes it, or the client.                      *)
(***************************************************************************)

StopEvents == {"suspended", "breakpoint"}

Cmds == [op : Resumes \cup {"where", "frame", "locals", "eval", "quit"}, tag : Nat]

Msgs == [op : StopEvents, tag : Nat, frame : Nat, stack : [1..1 -> Files]]
        \cup [op : Replies \cup {"end"}, tag : Nat, frame : Nat, stack : Seq(Files)]

Reports == [reason : {"entry", "step", "breakpoint"}, event : StopEvents, file : Files]

\* The types of what the argument depends on.
Shape ==
    /\ cmds \in Seq(Cmds) /\ msgs \in Seq(Msgs)
    /\ reported \in Seq(Reports) /\ stack \in Seq(Files)
    /\ frames \subseteq Nat /\ selected \in Nat /\ frameId \in Nat
    /\ view \in {"starting", "running", "stopped", "terminated", "left"}
    /\ run \in {"waiting", "running", "stopped", "gone"}

IsStop(i)   == msgs[i].op \in StopEvents
IsResume(i) == cmds[i].op \in Resumes

NoStops   == \A i \in 1..Len(msgs) : ~IsStop(i)
NoResumes == \A i \in 1..Len(cmds) : ~IsResume(i)

OneStop   == \A i, j \in 1..Len(msgs) : IsStop(i) /\ IsStop(j) => i = j
OneResume == \A i, j \in 1..Len(cmds) : IsResume(i) /\ IsResume(j) => i = j

EndIsTheEnd ==
    /\ \A i \in 1..Len(msgs) : msgs[i].op = "end" => run = "gone"
    /\ closed => run = "gone"
    /\ run = "gone" => cmds = <<>>

\* A stop on its way is where the program is.
StopsAreOfNow ==
    \A i \in 1..Len(msgs) :
        IsStop(i) /\ run # "gone" => run = "stopped" /\ msgs[i].stack[1] = stack[1]

InControl ==
    /\ NoStops \/ NoResumes
    /\ view = "starting" => NoStops /\ NoResumes /\ run \in {"waiting", "gone"}
    /\ run = "waiting" => NoStops /\ view # "stopped"
    /\ run = "running" => NoStops /\ NoResumes /\ view # "stopped"
    /\ view = "stopped" /\ run # "gone" =>
          /\ NoStops /\ NoResumes /\ run = "stopped"
          /\ stack[1] = reported[Len(reported)].file
    /\ view = "running" /\ run = "stopped" => ~NoStops \/ ~NoResumes

ControlInv == Shape /\ OneStop /\ OneResume /\ EndIsTheEnd /\ StopsAreOfNow /\ InControl

(***************************************************************************)
(* The two channels.                                                       *)
(***************************************************************************)

LEMMA MsgFields ==
    \A m \in Msgs :
        /\ m.op \in StopEvents \cup Replies \cup {"end"}
        /\ m.tag \in Nat /\ m.frame \in Nat /\ m.stack \in Seq(Files)
        /\ m.op \in StopEvents => m.stack[1] \in Files
<1>1. [1..1 -> Files] \subseteq Seq(Files)
  BY SeqDef
<1>2. \A m \in [op : StopEvents, tag : Nat, frame : Nat, stack : [1..1 -> Files]] :
         /\ m.op \in StopEvents /\ m.tag \in Nat /\ m.frame \in Nat
         /\ m.stack \in Seq(Files) /\ m.stack[1] \in Files
  BY <1>1
<1>3. \A m \in [op : Replies \cup {"end"}, tag : Nat, frame : Nat, stack : Seq(Files)] :
         /\ m.op \in Replies \cup {"end"} /\ m.tag \in Nat /\ m.frame \in Nat
         /\ m.stack \in Seq(Files) /\ m.op \notin StopEvents
  BY DEF Replies, StopEvents
<1>4. QED
  BY <1>2, <1>3 DEF Msgs

\* The message that is handled.
LEMMA Received ==
    ASSUME Shape, OneStop, NEW ops, Receive(ops)
    PROVE  /\ msgs' \in Seq(Msgs) /\ UNCHANGED debuggerVars
           /\ Head(msgs) \in Msgs /\ Head(msgs).op \in ops
           /\ Head(msgs) = msgs[1] /\ 1 \in 1..Len(msgs)
           /\ OneStop'
           /\ \A i \in 1..Len(msgs') : \E j \in 1..Len(msgs) : msgs'[i] = msgs[j]
           /\ Head(msgs).op \in StopEvents => NoStops' /\ ~NoStops
           /\ Head(msgs).op \notin StopEvents => (NoStops' <=> NoStops)
<1>1. /\ msgs' = Tail(msgs) /\ msgs \in Seq(Msgs) /\ msgs # <<>>
      /\ Head(msgs).op \in ops /\ UNCHANGED debuggerVars
  BY DEF Receive, Shape
<1>2. /\ msgs' \in Seq(Msgs) /\ Head(msgs) \in Msgs /\ Head(msgs) = msgs[1]
      /\ 1 \in 1..Len(msgs) /\ Len(msgs) \in Nat /\ Len(msgs') = Len(msgs) - 1
      /\ \A i \in 1..Len(msgs') : i + 1 \in 1..Len(msgs) /\ msgs'[i] = msgs[i + 1]
  BY <1>1, Dropped
<1>3. OneStop'
  <2>1. SUFFICES ASSUME NEW i \in 1..Len(msgs'), NEW j \in 1..Len(msgs'),
                        msgs'[i].op \in StopEvents, msgs'[j].op \in StopEvents
                 PROVE  i = j
    BY DEF OneStop, IsStop
  <2>2. i + 1 = j + 1
    BY <1>2, <2>1, Zenon DEF OneStop, IsStop
  <2>3. QED
    BY <2>2
<1>4. Head(msgs).op \in StopEvents => NoStops' /\ ~NoStops
  <2>1. SUFFICES ASSUME Head(msgs).op \in StopEvents PROVE NoStops' /\ ~NoStops
    OBVIOUS
  <2>2. \A i \in 1..Len(msgs') : msgs'[i].op \notin StopEvents
    <3>1. SUFFICES ASSUME NEW i \in 1..Len(msgs'), msgs'[i].op \in StopEvents PROVE FALSE
      OBVIOUS
    <3>2. i + 1 = 1
      BY <1>2, <2>1, <3>1 DEF OneStop, IsStop
    <3>3. QED
      BY <1>2, <3>2
  <2>3. QED
    BY <1>2, <2>1, <2>2 DEF NoStops, IsStop
<1>5. Head(msgs).op \notin StopEvents => (NoStops' <=> NoStops)
  <2>1. SUFFICES ASSUME Head(msgs).op \notin StopEvents PROVE NoStops' <=> NoStops
    OBVIOUS
  <2>2. ASSUME NoStops', NEW i \in 1..Len(msgs) PROVE msgs[i].op \notin StopEvents
    <3>1. CASE i = 1
      BY <1>2, <2>1, <3>1
    <3>2. CASE i # 1
      <4>1. i - 1 \in 1..Len(msgs') /\ (i - 1) + 1 = i
        BY <1>2, <3>2
      <4>2. msgs'[i - 1] = msgs[i]
        BY <1>2, <4>1
      <4>3. QED
        BY <2>2, <4>1, <4>2 DEF NoStops, IsStop
    <3>3. QED
      BY <3>1, <3>2
  <2>3. NoStops => NoStops'
    BY <1>2 DEF NoStops, IsStop
  <2>4. QED
    BY <2>2, <2>3 DEF NoStops, IsStop
<1>6. \A i \in 1..Len(msgs') : \E j \in 1..Len(msgs) : msgs'[i] = msgs[j]
  BY <1>2
<1>7. QED
  BY <1>1, <1>2, <1>3, <1>4, <1>5, <1>6

\* A message that is sent.
LEMMA Emitted ==
    ASSUME Shape, NEW m \in Msgs, msgs' = Append(msgs, m)
    PROVE  /\ msgs' \in Seq(Msgs)
           /\ \A i \in 1..Len(msgs') : msgs'[i] = m \/ \E j \in 1..Len(msgs) : msgs'[i] = msgs[j]
           /\ m.op \notin StopEvents => (NoStops' <=> NoStops) /\ (OneStop => OneStop')
           /\ m.op \in StopEvents => ~NoStops' /\ (NoStops => OneStop')
<1>1. /\ msgs' \in Seq(Msgs) /\ Len(msgs) \in Nat /\ Len(msgs') = Len(msgs) + 1
      /\ msgs'[Len(msgs) + 1] = m
      /\ \A i \in 1..Len(msgs) : msgs'[i] = msgs[i]
      /\ \A i \in 1..Len(msgs') : i \in 1..Len(msgs) \/ i = Len(msgs) + 1
  BY Appended DEF Shape
<1>2. /\ \A i \in 1..Len(msgs) : i \in 1..Len(msgs')
      /\ Len(msgs) + 1 \in 1..Len(msgs')
  BY <1>1
<1>3. m.op \notin StopEvents => (NoStops' <=> NoStops) /\ (OneStop => OneStop')
  BY <1>1, <1>2, Zenon DEF NoStops, OneStop, IsStop
<1>4. m.op \in StopEvents => ~NoStops' /\ (NoStops => OneStop')
  BY <1>1, <1>2, Zenon DEF NoStops, OneStop, IsStop
<1>5. QED
  BY <1>1, <1>3, <1>4, Zenon

\* The command that is taken.
LEMMA TakenCommand ==
    ASSUME Shape, OneResume, cmds # <<>>, cmds' = Tail(cmds)
    PROVE  /\ cmds' \in Seq(Cmds) /\ Head(cmds) \in Cmds
           /\ OneResume'
           /\ Head(cmds).op \in Resumes => NoResumes' /\ ~NoResumes
           /\ Head(cmds).op \notin Resumes => (NoResumes' <=> NoResumes)
<1>1. cmds \in Seq(Cmds)
  BY DEF Shape
<1>2. /\ cmds' \in Seq(Cmds) /\ Head(cmds) \in Cmds /\ Head(cmds) = cmds[1]
      /\ 1 \in 1..Len(cmds) /\ Len(cmds) \in Nat /\ Len(cmds') = Len(cmds) - 1
      /\ \A i \in 1..Len(cmds') : i + 1 \in 1..Len(cmds) /\ cmds'[i] = cmds[i + 1]
  BY <1>1, Dropped
<1>3. OneResume'
  <2>1. SUFFICES ASSUME NEW i \in 1..Len(cmds'), NEW j \in 1..Len(cmds'),
                        cmds'[i].op \in Resumes, cmds'[j].op \in Resumes
                 PROVE  i = j
    BY DEF OneResume, IsResume
  <2>2. i + 1 = j + 1
    BY <1>2, <2>1, Zenon DEF OneResume, IsResume
  <2>3. QED
    BY <2>2
<1>4. Head(cmds).op \in Resumes => NoResumes' /\ ~NoResumes
  <2>1. SUFFICES ASSUME Head(cmds).op \in Resumes PROVE NoResumes' /\ ~NoResumes
    OBVIOUS
  <2>2. \A i \in 1..Len(cmds') : cmds'[i].op \notin Resumes
    <3>1. SUFFICES ASSUME NEW i \in 1..Len(cmds'), cmds'[i].op \in Resumes PROVE FALSE
      OBVIOUS
    <3>2. i + 1 = 1
      BY <1>2, <2>1, <3>1 DEF OneResume, IsResume
    <3>3. QED
      BY <1>2, <3>2
  <2>3. QED
    BY <1>2, <2>1, <2>2 DEF NoResumes, IsResume
<1>5. Head(cmds).op \notin Resumes => (NoResumes' <=> NoResumes)
  <2>1. SUFFICES ASSUME Head(cmds).op \notin Resumes PROVE NoResumes' <=> NoResumes
    OBVIOUS
  <2>2. ASSUME NoResumes', NEW i \in 1..Len(cmds) PROVE cmds[i].op \notin Resumes
    <3>1. CASE i = 1
      BY <1>2, <2>1, <3>1
    <3>2. CASE i # 1
      <4>1. i - 1 \in 1..Len(cmds') /\ (i - 1) + 1 = i
        BY <1>2, <3>2
      <4>2. cmds'[i - 1] = cmds[i]
        BY <1>2, <4>1
      <4>3. QED
        BY <2>2, <4>1, <4>2 DEF NoResumes, IsResume
    <3>3. QED
      BY <3>1, <3>2
  <2>3. NoResumes => NoResumes'
    BY <1>2 DEF NoResumes, IsResume
  <2>4. QED
    BY <2>2, <2>3 DEF NoResumes, IsResume
<1>6. QED
  BY <1>2, <1>3, <1>4, <1>5

\* A command that is put behind the others.
LEMMA PutCommand ==
    ASSUME Shape, NEW c \in Cmds, NEW s, s = Append(cmds, c)
    PROVE  /\ s \in Seq(Cmds)
           /\ c.op \notin Resumes => /\ (\A i \in 1..Len(s) : s[i].op \notin Resumes) <=> NoResumes
                                     /\ OneResume => \A i, j \in 1..Len(s) :
                                           s[i].op \in Resumes /\ s[j].op \in Resumes => i = j
           /\ c.op \in Resumes => /\ \E i \in 1..Len(s) : s[i].op \in Resumes
                                  /\ NoResumes => \A i, j \in 1..Len(s) :
                                           s[i].op \in Resumes /\ s[j].op \in Resumes => i = j
<1>1. /\ s \in Seq(Cmds) /\ Len(cmds) \in Nat /\ Len(s) = Len(cmds) + 1
      /\ s[Len(cmds) + 1] = c
      /\ \A i \in 1..Len(cmds) : s[i] = cmds[i]
      /\ \A i \in 1..Len(s) : i \in 1..Len(cmds) \/ i = Len(cmds) + 1
  BY Appended DEF Shape
<1>2. /\ \A i \in 1..Len(cmds) : i \in 1..Len(s)
      /\ Len(cmds) + 1 \in 1..Len(s)
  BY <1>1
<1>3. QED
  BY <1>1, <1>2, Zenon DEF NoResumes, OneResume, IsResume

\* What Send does with one command.
LEMMA SentOne ==
    ASSUME Shape, OneResume, EndIsTheEnd, NEW op, NEW tag \in Nat,
           op \in Resumes \cup {"where", "frame", "locals", "eval", "quit"},
           Send(Cmd(op, tag))
    PROVE  /\ cmds' \in Seq(Cmds)
           /\ run = "gone" => cmds' = cmds
           /\ op \notin Resumes => OneResume' /\ (NoResumes' <=> NoResumes)
           /\ op \in Resumes /\ NoResumes /\ run # "gone" => OneResume' /\ ~NoResumes'
<1>1. PICK c : c = [op |-> op, tag |-> tag]
  OBVIOUS
<1>2. c \in Cmds /\ c.op = op
  BY <1>1 DEF Cmds
<1>3. CASE run = "gone" \/ closed
  <2>1. cmds' = cmds /\ run = "gone"
    BY <1>3 DEF Send, EndIsTheEnd
  <2>2. QED
    BY <2>1 DEF Shape, OneResume, NoResumes, IsResume
<1>4. CASE ~(run = "gone" \/ closed)
  <2>1. cmds' = cmds \o <<c>> /\ cmds \in Seq(Cmds)
    BY <1>1, <1>4 DEF Send, Cmd, Shape
  <2>2. cmds' = Append(cmds, c)
    BY <1>2, <2>1, AppendIsConcat
  <2>3. QED
    BY <1>2, <1>4, <2>2, PutCommand DEF NoResumes, OneResume, IsResume
<1>5. QED
  BY <1>3, <1>4

(***************************************************************************)
(* Every action preserves the invariant.                                   *)
(***************************************************************************)

\* What the client does without resuming: nothing changes hands.
LEMMA NothingChangesHands ==
    ASSUME ControlInv, Shape', OneResume', NoResumes' <=> NoResumes,
           run = "gone" => cmds' = cmds,
           UNCHANGED <<msgs, run, stack, reported, closed>>,
           view' = view \/ view' \in {"terminated", "left"}
    PROVE  ControlInv'
<1>1. OneStop' /\ (NoStops' <=> NoStops)
  BY DEF ControlInv, OneStop, NoStops, IsStop
<1>2. EndIsTheEnd' /\ StopsAreOfNow'
  BY DEF ControlInv, EndIsTheEnd, StopsAreOfNow, IsStop
<1>3. InControl'
  BY <1>1 DEF ControlInv, InControl
<1>4. QED
  BY <1>1, <1>2, <1>3 DEF ControlInv

LEMMA ConfigurationDoneKeepsControl ==
    ASSUME ControlInv, ConfigurationDone
    PROVE  ControlInv'
<1>1. /\ view = "starting" /\ view' = "running" /\ Send(Cmd("start", 0))
      /\ UNCHANGED <<adapterVars, frames, reported, msgs, debuggerVars>>
  BY DEF ConfigurationDone
<1>2. NoStops /\ NoResumes /\ run \in {"waiting", "gone"}
  BY <1>1 DEF ControlInv, InControl
<1>3. "start" \in Resumes
  BY DEF Resumes
<1>4. /\ cmds' \in Seq(Cmds)
      /\ run = "gone" => cmds' = cmds
      /\ run # "gone" => OneResume'
  BY <1>1, <1>2, <1>3, SentOne DEF ControlInv
<1>5. OneResume'
  BY <1>4 DEF ControlInv, OneResume, IsResume
<1>6. Shape' /\ OneStop' /\ NoStops'
  BY <1>1, <1>2, <1>4 DEF ControlInv, Shape, OneStop, NoStops, IsStop, adapterVars, debuggerVars
<1>7. EndIsTheEnd' /\ StopsAreOfNow'
  BY <1>1, <1>4 DEF ControlInv, EndIsTheEnd, StopsAreOfNow, IsStop, adapterVars, debuggerVars
<1>8. InControl'
  BY <1>1, <1>2, <1>6 DEF InControl, debuggerVars
<1>9. QED
  BY <1>5, <1>6, <1>7, <1>8 DEF ControlInv

LEMMA AskingKeepsControl ==
    ASSUME ControlInv, StackTrace \/ Evaluate \/ (\E f \in frames : Scopes(f))
    PROVE  ControlInv'
<1>1. Ask /\ frameId' \in Nat
  BY DEF StackTrace, Evaluate, Scopes, ControlInv, Shape
<1>2. UNCHANGED <<msgs, run, stack, selected, reported, closed, view, frames>>
  BY <1>1 DEF Ask, debuggerVars
<1>3. /\ cmds' \in Seq(Cmds) /\ OneResume' /\ (NoResumes' <=> NoResumes)
      /\ run = "gone" => cmds' = cmds
  <2>1. ASSUME NEW op \in {"where", "locals", "eval"}, NEW tag \in Nat, Send(Cmd(op, tag))
        PROVE  /\ cmds' \in Seq(Cmds) /\ OneResume' /\ (NoResumes' <=> NoResumes)
               /\ run = "gone" => cmds' = cmds
    <3>1. op \notin Resumes
      BY <2>1 DEF Resumes
    <3>2. QED
      BY <2>1, <3>1, SentOne DEF ControlInv
  <2>2. CASE StackTrace
    <3>1. Len(reported) \in Nat
      BY LenProperties DEF ControlInv, Shape
    <3>2. QED
      BY <2>1, <2>2, <3>1 DEF StackTrace
  <2>3. CASE Evaluate
    BY <2>1, <2>3 DEF Evaluate
  <2>4. ASSUME NEW f \in frames, Scopes(f)
        PROVE  /\ cmds' \in Seq(Cmds) /\ OneResume' /\ (NoResumes' <=> NoResumes)
               /\ run = "gone" => cmds' = cmds
    <3>1. f \in Nat
      BY DEF ControlInv, Shape
    <3>2. CASE Send(Cmd("locals", f))
      BY <2>1, <3>1, <3>2
    <3>3. CASE Send(Cmd("frame", f) \o Cmd("locals", f))
      <4>1. CASE run = "gone" \/ closed
        <5>1. cmds' = cmds
          BY <3>3, <4>1 DEF Send
        <5>2. QED
          BY <5>1 DEF ControlInv, Shape, OneResume, NoResumes, IsResume
      <4>2. CASE ~(run = "gone" \/ closed)
        <5>1. PICK c : c = [op |-> "frame", tag |-> f]
          OBVIOUS
        <5>2. PICK d : d = [op |-> "locals", tag |-> f]
          OBVIOUS
        <5>3. c \in Cmds /\ d \in Cmds /\ c.op \notin Resumes /\ d.op \notin Resumes
          BY <3>1, <5>1, <5>2 DEF Cmds, Resumes
        <5>4. cmds' = cmds \o (<<c>> \o <<d>>) /\ cmds \in Seq(Cmds)
          BY <3>3, <4>2, <5>1, <5>2 DEF Send, Cmd, ControlInv, Shape
        <5>5. cmds' = Append(Append(cmds, c), d)
          BY <5>3, <5>4, AppendIsConcat, ConcatAssociative
        <5>6. PICK s : s = Append(cmds, c)
          OBVIOUS
        <5>7. /\ s \in Seq(Cmds) /\ Len(s) \in Nat
              /\ (\A i \in 1..Len(s) : s[i].op \notin Resumes) <=> NoResumes
              /\ \A i, j \in 1..Len(s) : s[i].op \in Resumes /\ s[j].op \in Resumes => i = j
          BY <5>3, <5>6, PutCommand, LenProperties DEF ControlInv
        <5>8. /\ cmds' \in Seq(Cmds) /\ Len(cmds') = Len(s) + 1 /\ cmds'[Len(s) + 1] = d
              /\ \A i \in 1..Len(s) : cmds'[i] = s[i] /\ i \in 1..Len(cmds')
              /\ \A i \in 1..Len(cmds') : i \in 1..Len(s) \/ i = Len(s) + 1
          BY <5>3, <5>5, <5>6, <5>7, Appended
        <5>9. OneResume' /\ (NoResumes' <=> NoResumes)
          BY <5>3, <5>7, <5>8, Zenon DEF OneResume, NoResumes, IsResume
        <5>10. QED
          BY <4>2, <5>8, <5>9
      <4>3. QED
        BY <4>1, <4>2
    <3>4. QED
      BY <2>4, <3>2, <3>3 DEF Scopes
  <2>5. QED
    BY <2>2, <2>3, <2>4
<1>4. Shape'
  BY <1>1, <1>2, <1>3 DEF ControlInv, Shape
<1>5. QED
  BY <1>2, <1>3, <1>4, NothingChangesHands

LEMMA ResumeKeepsControl ==
    ASSUME ControlInv, Resume
    PROVE  ControlInv'
<1>1. /\ view = "stopped" /\ view' = "running" /\ frames' = {} /\ Send(Cmd("go", 0))
      /\ UNCHANGED <<frameId, closed, reported, msgs, run, stack, selected>>
  BY DEF Resume, adapterVars, debuggerVars
<1>2. "go" \in Resumes
  BY DEF Resumes
<1>3. run # "gone" => NoStops /\ NoResumes /\ run = "stopped"
  BY <1>1 DEF ControlInv, InControl
<1>4. /\ cmds' \in Seq(Cmds)
      /\ run = "gone" => cmds' = cmds
      /\ run # "gone" => OneResume' /\ ~NoResumes'
  BY <1>1, <1>2, <1>3, SentOne DEF ControlInv
<1>5. OneResume' /\ (run = "gone" => (NoResumes' <=> NoResumes))
  BY <1>4 DEF ControlInv, OneResume, NoResumes, IsResume
<1>6. Shape' /\ OneStop' /\ (NoStops' <=> NoStops)
  BY <1>1, <1>4 DEF ControlInv, Shape, OneStop, NoStops, IsStop
<1>7. EndIsTheEnd' /\ StopsAreOfNow'
  BY <1>1, <1>4 DEF ControlInv, EndIsTheEnd, StopsAreOfNow, IsStop
<1>8. InControl'
  BY <1>1, <1>3, <1>4, <1>5, <1>6 DEF ControlInv, InControl
<1>9. QED
  BY <1>5, <1>6, <1>7, <1>8 DEF ControlInv

LEMMA DisconnectKeepsControl ==
    ASSUME ControlInv, Disconnect
    PROVE  ControlInv'
<1>1. /\ view' = "left" /\ frames' = {}
      /\ Send(Cmd("quit", 0)) \/ cmds' = cmds
      /\ UNCHANGED <<frameId, closed, reported, msgs, run, stack, selected>>
  BY DEF Disconnect, adapterVars, debuggerVars
<1>2. "quit" \notin Resumes
  BY DEF Resumes
<1>3. /\ cmds' \in Seq(Cmds) /\ OneResume' /\ (NoResumes' <=> NoResumes)
      /\ run = "gone" => cmds' = cmds
  <2>1. CASE Send(Cmd("quit", 0))
    BY <1>2, <2>1, SentOne DEF ControlInv
  <2>2. CASE cmds' = cmds
    BY <2>2 DEF ControlInv, Shape, OneResume, NoResumes, IsResume
  <2>3. QED
    BY <1>1, <2>1, <2>2
<1>4. Shape'
  BY <1>1, <1>3 DEF ControlInv, Shape
<1>5. QED
  BY <1>1, <1>3, <1>4, NothingChangesHands

\* A message is handled: what is left of those before it.
LEMMA AfterMessage ==
    ASSUME ControlInv, NEW ops, Receive(ops), cmds' \in Seq(Cmds),
           run = "gone" => cmds' = cmds, closed' => run = "gone"
    PROVE  EndIsTheEnd' /\ StopsAreOfNow'
<1>1. /\ UNCHANGED debuggerVars
      /\ \A i \in 1..Len(msgs') : \E j \in 1..Len(msgs) : msgs'[i] = msgs[j]
  BY Received DEF ControlInv
<1>2. \A i \in 1..Len(msgs') : msgs'[i].op = "end" => run = "gone"
  BY <1>1 DEF ControlInv, EndIsTheEnd
<1>3. \A i \in 1..Len(msgs') :
         msgs'[i].op \in StopEvents /\ run # "gone" =>
            run = "stopped" /\ msgs'[i].stack[1] = stack[1]
  BY <1>1 DEF ControlInv, StopsAreOfNow, IsStop
<1>4. QED
  BY <1>1, <1>2, <1>3 DEF EndIsTheEnd, StopsAreOfNow, IsStop, debuggerVars, ControlInv

\* A StoppedEvent hands the program to the client.
LEMMA ReportKeepsControl ==
    ASSUME ControlInv, NEW ops, Receive(ops), ops \subseteq StopEvents,
           NEW reason \in {"entry", "step", "breakpoint"}, Report(reason),
           UNCHANGED <<frameId, closed, frames, cmds>>
    PROVE  ControlInv'
<1>1. /\ msgs' \in Seq(Msgs) /\ UNCHANGED <<run, stack, selected>>
      /\ Head(msgs) \in Msgs /\ Head(msgs).op \in StopEvents
      /\ Head(msgs) = msgs[1] /\ 1 \in 1..Len(msgs)
      /\ OneStop' /\ NoStops' /\ ~NoStops
  BY Received DEF ControlInv, debuggerVars
<1>2. PICK x : x = [reason |-> reason, event |-> Head(msgs).op, file |-> Head(msgs).stack[1]]
  OBVIOUS
<1>3. x \in Reports /\ x.file = msgs[1].stack[1]
  BY <1>1, <1>2, MsgFields DEF Reports
<1>4. reported' = Append(reported, x) /\ reported \in Seq(Reports)
  BY <1>2 DEF Report, ControlInv, Shape
<1>5. /\ reported' \in Seq(Reports) /\ Len(reported) \in Nat
      /\ reported'[Len(reported')] = x
  BY <1>3, <1>4, Appended
<1>6. NoResumes /\ (run # "gone" => run = "stopped" /\ stack[1] = x.file) /\ view # "starting"
  BY <1>1, <1>3 DEF ControlInv, InControl, StopsAreOfNow, IsStop
<1>7. (view = "running" /\ view' = "stopped") \/ (view # "running" /\ view' = view)
  BY DEF Report
<1>8. Shape' /\ OneResume' /\ (NoResumes' <=> NoResumes)
  BY <1>1, <1>5, <1>7 DEF ControlInv, Shape, OneResume, NoResumes, IsResume
<1>9. EndIsTheEnd' /\ StopsAreOfNow'
  BY AfterMessage DEF ControlInv, Shape, EndIsTheEnd
<1>10. run = "waiting" => NoStops
  BY DEF ControlInv, InControl
<1>11. InControl'
  BY <1>1, <1>5, <1>6, <1>7, <1>8, <1>10 DEF ControlInv, InControl
<1>12. QED
  BY <1>1, <1>8, <1>9, <1>11 DEF ControlInv

LEMMA SuspendedKeepsControl ==
    ASSUME ControlInv, Suspended
    PROVE  ControlInv'
<1>1. Receive({"suspended"}) /\ UNCHANGED <<frameId, closed, frames>> /\ {"suspended"} \subseteq StopEvents
  BY DEF Suspended, StopEvents
<1>2. ASSUME NEW reason \in {"entry", "step", "breakpoint"}, Report(reason), UNCHANGED cmds
      PROVE  ControlInv'
  BY <1>1, <1>2, ReportKeepsControl
<1>3. ASSUME NEW op \in {"step", "finish"}, Send(Cmd(op, 0)), UNCHANGED <<view, reported>>
      PROVE  ControlInv'
  <2>1. /\ msgs' \in Seq(Msgs) /\ UNCHANGED <<run, stack, selected>>
        /\ Head(msgs) = msgs[1] /\ 1 \in 1..Len(msgs) /\ msgs[1].op \in StopEvents
        /\ OneStop' /\ NoStops' /\ ~NoStops
    BY <1>1, Received DEF ControlInv, debuggerVars
  <2>2. NoResumes /\ (run # "gone" => run = "stopped") /\ view # "starting"
        /\ (run # "gone" => view # "stopped")
    BY <2>1 DEF ControlInv, InControl, StopsAreOfNow, IsStop
  <2>3. op \in Resumes
    BY <1>3 DEF Resumes
  <2>4. /\ cmds' \in Seq(Cmds)
        /\ run = "gone" => cmds' = cmds
        /\ run # "gone" => OneResume' /\ ~NoResumes'
    BY <1>3, <2>2, <2>3, SentOne DEF ControlInv
  <2>5. OneResume' /\ (run = "gone" => (NoResumes' <=> NoResumes))
    BY <2>4 DEF ControlInv, OneResume, NoResumes, IsResume
  <2>6. Shape'
    BY <1>1, <1>3, <2>1, <2>4 DEF ControlInv, Shape
  <2>7. EndIsTheEnd' /\ StopsAreOfNow'
    BY <1>1, <2>4, AfterMessage DEF ControlInv, EndIsTheEnd
  <2>8. InControl'
    BY <1>3, <2>1, <2>2, <2>4, <2>5 DEF ControlInv, InControl
  <2>9. QED
    BY <2>1, <2>5, <2>6, <2>7, <2>8 DEF ControlInv
<1>4. QED
  BY <1>2, <1>3 DEF Suspended, OnSuspended

LEMMA BreakpointKeepsControl ==
    ASSUME ControlInv, Breakpoint
    PROVE  ControlInv'
<1>1. {"breakpoint"} \subseteq StopEvents
  BY DEF StopEvents
<1>2. QED
  BY <1>1, ReportKeepsControl DEF Breakpoint, adapterVars

\* Another message is handled.
LEMMA ReplyKeepsControl ==
    ASSUME ControlInv, NEW ops, Receive(ops), ops \cap StopEvents = {},
           Shape', UNCHANGED <<cmds, reported>>, closed' => run = "gone",
           view' = view \/ view' \in {"terminated", "left"}
    PROVE  ControlInv'
<1>1. /\ UNCHANGED <<run, stack, selected>> /\ OneStop' /\ (NoStops' <=> NoStops)
  BY Received DEF ControlInv, debuggerVars
<1>2. OneResume' /\ (NoResumes' <=> NoResumes)
  BY DEF ControlInv, OneResume, NoResumes, IsResume
<1>3. EndIsTheEnd' /\ StopsAreOfNow'
  BY AfterMessage DEF ControlInv, Shape
<1>4. InControl'
  BY <1>1, <1>2 DEF ControlInv, InControl
<1>5. QED
  BY <1>1, <1>2, <1>3, <1>4 DEF ControlInv

LEMMA RepliesKeepControl ==
    ASSUME ControlInv, WhereReply \/ ValueReply \/ Ended
    PROVE  ControlInv'
<1>1. CASE WhereReply
  <2>1. Receive({"where"}) /\ {"where"} \cap StopEvents = {}
    BY <1>1 DEF WhereReply, StopEvents
  <2>2. /\ msgs' \in Seq(Msgs) /\ UNCHANGED <<run, stack, selected>> /\ Head(msgs) \in Msgs
    BY <2>1, Received DEF ControlInv, debuggerVars
  <2>3. UNCHANGED <<first, closed, reported, cmds>>
    BY <1>1 DEF WhereReply
  <2>4. frameId' \in Nat /\ frames' \subseteq Nat
    <3>1. Head(msgs).frame \in Nat /\ Shown(Head(msgs).stack) \subseteq Nat
          /\ Offered(Head(msgs).stack) \subseteq Nat
      BY <2>2, MsgFields, LenProperties DEF Shown, Offered
    <3>2. QED
      BY <1>1, <3>1 DEF WhereReply, ControlInv, Shape
  <2>5. view' = view \/ view' \in {"terminated", "left"}
    BY <1>1 DEF WhereReply
  <2>6. Shape'
    BY <2>2, <2>3, <2>4, <2>5 DEF ControlInv, Shape
  <2>7. QED
    BY <2>1, <2>3, <2>5, <2>6, ReplyKeepsControl DEF ControlInv, EndIsTheEnd
<1>2. CASE ValueReply
  <2>1. Receive({"locals", "eval"}) /\ {"locals", "eval"} \cap StopEvents = {}
    BY <1>2 DEF ValueReply, StopEvents
  <2>2. /\ msgs' \in Seq(Msgs) /\ UNCHANGED <<run, stack, selected>>
    BY <2>1, Received DEF ControlInv, debuggerVars
  <2>3. UNCHANGED <<frameId, closed, reported, cmds, view, frames>>
    BY <1>2 DEF ValueReply, adapterVars
  <2>4. Shape'
    BY <2>2, <2>3 DEF ControlInv, Shape
  <2>5. QED
    BY <2>1, <2>3, <2>4, ReplyKeepsControl DEF ControlInv, EndIsTheEnd
<1>3. CASE Ended
  <2>1. Receive({"end"}) /\ {"end"} \cap StopEvents = {}
    BY <1>3 DEF Ended, StopEvents
  <2>2. /\ msgs' \in Seq(Msgs) /\ UNCHANGED <<run, stack, selected>>
        /\ Head(msgs).op = "end" /\ Head(msgs) = msgs[1] /\ 1 \in 1..Len(msgs)
    BY <2>1, Received DEF ControlInv, debuggerVars
  <2>3. run = "gone"
    BY <2>2 DEF ControlInv, EndIsTheEnd
  <2>4. /\ UNCHANGED <<frameId, reported, cmds>> /\ frames' = {}
        /\ view' = view \/ view' \in {"terminated", "left"}
    BY <1>3 DEF Ended
  <2>5. Shape'
    BY <2>2, <2>4 DEF ControlInv, Shape
  <2>6. QED
    BY <2>1, <2>3, <2>4, <2>5, ReplyKeepsControl
<1>4. QED
  BY <1>1, <1>2, <1>3

LEMMA HaltKeepsControl ==
    ASSUME ControlInv, Halt
    PROVE  ControlInv'
<1>1. PICK files \in Stacks, event \in StopEvents :
         stack' = files /\ Emit(event, 0, 1, <<files[1]>>)
  BY DEF Halt, StopEvents
<1>2. /\ run = "running" /\ run' = "stopped" /\ selected' = 1
      /\ UNCHANGED <<frameId, closed, view, frames, reported, cmds>>
  BY DEF Halt, adapterVars, clientVars
<1>3. files \in Seq(Files) /\ files[1] \in Files
  <2>1. PICK n \in 1..MaxDepth : files \in [1..n -> Files]
    BY DEF Stacks
  <2>2. n \in Nat /\ 1 \in 1..n
    BY BoundAssumption, <2>1
  <2>3. QED
    BY <2>1, <2>2, SeqDef
<1>4. PICK m : m = [op |-> event, tag |-> 0, frame |-> 1, stack |-> <<files[1]>>]
  OBVIOUS
<1>5. /\ m \in Msgs /\ m.op \in StopEvents /\ m.stack[1] = files[1]
      /\ msgs' = Append(msgs, m)
  <2>1. <<files[1]>> \in [1..1 -> Files] /\ <<files[1]>>[1] = files[1]
    BY <1>3
  <2>2. QED
    BY <1>1, <1>4, <2>1 DEF Msgs, Emit
<1>6. NoStops /\ NoResumes /\ view \notin {"stopped", "starting"}
  BY <1>2 DEF ControlInv, InControl
<1>7. /\ msgs' \in Seq(Msgs) /\ ~NoStops' /\ OneStop'
      /\ \A i \in 1..Len(msgs') : msgs'[i] = m \/ \E j \in 1..Len(msgs) : msgs'[i] = msgs[j]
  BY <1>5, <1>6, Emitted DEF ControlInv
<1>8. Shape' /\ OneResume' /\ NoResumes'
  BY <1>1, <1>2, <1>3, <1>6, <1>7 DEF ControlInv, Shape, OneResume, NoResumes, IsResume
<1>9. EndIsTheEnd'
  <2>1. m.op # "end"
    BY <1>5 DEF StopEvents
  <2>2. \A i \in 1..Len(msgs') : msgs'[i].op # "end"
    BY <1>2, <1>7, <2>1 DEF ControlInv, EndIsTheEnd
  <2>3. QED
    BY <1>2, <2>2 DEF ControlInv, EndIsTheEnd
<1>10. StopsAreOfNow'
  <2>1. \A i \in 1..Len(msgs') : msgs'[i].op \in StopEvents => msgs'[i] = m
    BY <1>6, <1>7 DEF NoStops, IsStop
  <2>2. QED
    BY <1>1, <1>2, <1>5, <2>1 DEF StopsAreOfNow, IsStop
<1>11. InControl'
  BY <1>2, <1>6, <1>7, <1>8 DEF InControl
<1>12. QED
  BY <1>7, <1>8, <1>9, <1>10, <1>11 DEF ControlInv

LEMMA ExitKeepsControl ==
    ASSUME ControlInv, Exit
    PROVE  ControlInv'
<1>1. /\ run' = "gone" /\ cmds' = <<>> /\ Emit("end", 0, 0, <<>>)
      /\ UNCHANGED <<frameId, closed, view, frames, reported, stack, selected>>
  BY DEF Exit, adapterVars, clientVars
<1>2. PICK m : m = [op |-> "end", tag |-> 0, frame |-> 0, stack |-> <<>>]
  OBVIOUS
<1>3. m \in Msgs /\ m.op \notin StopEvents /\ msgs' = Append(msgs, m)
  <2>1. <<>> \in Seq(Files)
    BY EmptySeq
  <2>2. QED
    BY <1>1, <1>2, <2>1 DEF Msgs, Emit, StopEvents
<1>4. msgs' \in Seq(Msgs) /\ (NoStops' <=> NoStops) /\ OneStop'
  BY <1>3, Emitted DEF ControlInv
<1>5. cmds' \in Seq(Cmds) /\ NoResumes' /\ OneResume'
  BY <1>1, EmptySeq DEF NoResumes, OneResume
<1>6. Shape' /\ EndIsTheEnd' /\ StopsAreOfNow'
  BY <1>1, <1>4, <1>5 DEF ControlInv, Shape, EndIsTheEnd, StopsAreOfNow
<1>7. InControl'
  BY <1>1, <1>4, <1>5 DEF ControlInv, InControl
<1>8. QED
  BY <1>4, <1>5, <1>6, <1>7 DEF ControlInv

LEMMA GoOnKeepsControl ==
    ASSUME ControlInv, GoOn
    PROVE  ControlInv'
<1>1. /\ cmds # <<>> /\ Head(cmds).op \in Resumes /\ cmds' = Tail(cmds)
      /\ run \in {"waiting", "stopped"} /\ run' = "running"
      /\ UNCHANGED <<frameId, closed, view, frames, reported, msgs, stack, selected>>
  BY DEF GoOn, adapterVars, clientVars
<1>2. cmds' \in Seq(Cmds) /\ NoResumes' /\ ~NoResumes /\ OneResume'
  BY <1>1, TakenCommand DEF ControlInv
<1>3. NoStops /\ view \notin {"stopped", "starting"}
  BY <1>1, <1>2 DEF ControlInv, InControl
<1>4. Shape' /\ OneStop' /\ NoStops'
  BY <1>1, <1>2, <1>3 DEF ControlInv, Shape, OneStop, NoStops, IsStop
<1>5. EndIsTheEnd' /\ StopsAreOfNow'
  BY <1>1, <1>4 DEF ControlInv, EndIsTheEnd, StopsAreOfNow, NoStops
<1>6. InControl'
  BY <1>1, <1>2, <1>3, <1>4 DEF InControl
<1>7. QED
  BY <1>2, <1>4, <1>5, <1>6 DEF ControlInv

LEMMA ServingKeepsControl ==
    ASSUME ControlInv, SelectFrame \/ Answer
    PROVE  ControlInv'
<1>1. /\ cmds # <<>> /\ Head(cmds).op \in {"frame", "where", "locals", "eval"} /\ cmds' = Tail(cmds)
      /\ run = "stopped" /\ run' = run /\ stack' = stack
      /\ UNCHANGED <<frameId, closed, view, frames, reported>>
  BY DEF SelectFrame, Answer, Take, adapterVars, clientVars
<1>2. Head(cmds).op \notin Resumes
  BY <1>1 DEF Resumes
<1>3. /\ cmds' \in Seq(Cmds) /\ (NoResumes' <=> NoResumes) /\ OneResume'
      /\ Head(cmds).tag \in Nat
  BY <1>1, <1>2, TakenCommand DEF ControlInv, Cmds
<1>4. /\ msgs' \in Seq(Msgs) /\ (NoStops' <=> NoStops) /\ OneStop' /\ selected' \in Nat
      /\ \A i \in 1..Len(msgs') :
            msgs'[i].op \in Replies \/ \E j \in 1..Len(msgs) : msgs'[i] = msgs[j]
  <2>1. CASE SelectFrame
    <3>1. Len(stack) \in Nat
      BY LenProperties DEF ControlInv, Shape
    <3>2. selected' \in Nat
      BY <1>3, <2>1, <3>1 DEF SelectFrame
    <3>3. QED
      BY <2>1, <3>2 DEF SelectFrame, ControlInv, Shape, NoStops, OneStop, IsStop
  <2>2. CASE Answer
    <3>1. selected' = selected
      BY <2>2 DEF Answer
    <3>2. PICK op \in Replies, files \in Seq(Files) : Emit(op, Head(cmds).tag, selected, files)
      <4>1. <<>> \in Seq(Files) /\ stack \in Seq(Files)
        BY EmptySeq DEF ControlInv, Shape
      <4>2. QED
        BY <2>2, <4>1 DEF Answer, Replies
    <3>3. PICK m : m = [op |-> op, tag |-> Head(cmds).tag, frame |-> selected, stack |-> files]
      OBVIOUS
    <3>4. m \in Msgs /\ m.op \in Replies /\ m.op \notin StopEvents /\ msgs' = Append(msgs, m)
      BY <1>3, <3>2, <3>3 DEF Msgs, Emit, Replies, StopEvents, ControlInv, Shape
    <3>5. QED
      BY <3>1, <3>4, Emitted DEF ControlInv, Shape
  <2>3. QED
    BY <2>1, <2>2
<1>5. Shape'
  BY <1>1, <1>3, <1>4 DEF ControlInv, Shape
<1>6. EndIsTheEnd' /\ StopsAreOfNow'
  <2>1. \A op \in Replies : op # "end" /\ op \notin StopEvents
    BY DEF Replies, StopEvents
  <2>2. \A i \in 1..Len(msgs') : msgs'[i].op # "end"
    BY <1>1, <1>4, <2>1 DEF ControlInv, EndIsTheEnd
  <2>3. \A i \in 1..Len(msgs') : msgs'[i].op \in StopEvents => msgs'[i].stack[1] = stack[1]
    BY <1>1, <1>4, <2>1 DEF ControlInv, StopsAreOfNow, IsStop
  <2>4. QED
    BY <1>1, <2>2, <2>3 DEF ControlInv, EndIsTheEnd, StopsAreOfNow, IsStop
<1>7. InControl'
  BY <1>1, <1>3, <1>4 DEF ControlInv, InControl
<1>8. QED
  BY <1>3, <1>4, <1>5, <1>6, <1>7 DEF ControlInv

LEMMA ControlStep ==
    ASSUME ControlInv, [Next]_vars
    PROVE  ControlInv'
<1>2. CASE Client
  BY <1>2, ConfigurationDoneKeepsControl, AskingKeepsControl, ResumeKeepsControl,
     DisconnectKeepsControl DEF Client
<1>3. CASE Handlers
  BY <1>3, SuspendedKeepsControl, BreakpointKeepsControl, RepliesKeepControl DEF Handlers
<1>4. CASE Debugger
  BY <1>4, HaltKeepsControl, ExitKeepsControl, GoOnKeepsControl, ServingKeepsControl
     DEF Debugger, Finish, Quit
<1>5. CASE UNCHANGED vars
  <2>1. UNCHANGED <<msgs, cmds, run, stack, selected, reported, closed, view, frames, frameId>>
    BY <1>5 DEF vars, adapterVars, clientVars, debuggerVars
  <2>2. QED
    BY <2>1 DEF ControlInv, Shape, OneStop, OneResume, NoStops, NoResumes, IsStop,
       IsResume, EndIsTheEnd, StopsAreOfNow, InControl
<1>6. QED
  BY <1>2, <1>3, <1>4, <1>5 DEF Next

(***************************************************************************)
(* The theorems.                                                           *)
(***************************************************************************)

\* ControlInv holds in every state: the program is in one hand at a time.
THEOREM ControlInvariant == Spec => []ControlInv
<1>1. Init => ControlInv
  <2>1. SUFFICES ASSUME Init PROVE ControlInv
    OBVIOUS
  <2>2. /\ cmds = <<>> /\ msgs = <<>> /\ reported = <<>> /\ stack = <<>>
        /\ frames = {} /\ selected = 0 /\ frameId = 0 /\ closed = FALSE
        /\ view = "starting" /\ run = "waiting"
    BY <2>1 DEF Init
  <2>3. Shape
    BY <2>2, EmptySeq DEF Shape
  <2>4. QED
    BY <2>2, <2>3 DEF ControlInv, OneStop, OneResume, NoStops, NoResumes, EndIsTheEnd,
                      StopsAreOfNow, InControl
<1>2. ControlInv /\ [Next]_vars => ControlInv'
  BY ControlStep
<1>3. QED
  BY <1>1, <1>2, PTL DEF Spec

\* While the client shows the program as stopped, it is stopped where the last
\* StoppedEvent said, and no automatic step is on its way.
THEOREM StoppedAlwaysMeansStopped == Spec => []StoppedMeansStopped
<1>1. ControlInv => StoppedMeansStopped
  BY DEF ControlInv, InControl, NoResumes, IsResume, StoppedMeansStopped
<1>2. QED
  BY <1>1, ControlInvariant, PTL

\* No stop is swallowed: it was reported or stepped away from.
THEOREM NeverASilentStop == Spec => []NoSilentStop
<1>1. ControlInv => NoSilentStop
  <2>1. SUFFICES ASSUME ControlInv, run = "stopped", cmds = <<>>, msgs = <<>>
                 PROVE  view # "running"
    BY DEF NoSilentStop
  <2>2. NoStops /\ NoResumes
    BY <2>1 DEF NoStops, NoResumes
  <2>3. QED
    BY <2>1, <2>2 DEF ControlInv, InControl
<1>2. QED
  BY <1>1, ControlInvariant, PTL

(***************************************************************************)
(* The selected frame.  Of a client that waits for its answers, one thing  *)
(* at most is on its way, and nothing else happens to the program then.    *)
(***************************************************************************)

Waits == ~overlapped /\ ~hidden

Asked(i)    == cmds[i].op \in Replies      \* a command with an answer
Answering(i) == msgs[i].op \in Replies     \* the answer

NothingAsked     == \A i \in 1..Len(cmds) : ~Asked(i)
NothingAnswering == \A i \in 1..Len(msgs) : ~Answering(i)

\* One request at a time.
OneAsked ==
    /\ \A i, j \in 1..Len(cmds) : Asked(i) /\ Asked(j) => i = j
    /\ \A i, j \in 1..Len(msgs) : Answering(i) /\ Answering(j) => i = j
    /\ NothingAsked \/ NothingAnswering

\* It is open, and nothing else happens to the program.
AskedWhileStopped ==
    /\ ~NothingAsked \/ ~NothingAnswering => open = 1 /\ view \notin {"starting", "running"}
    /\ ~NothingAsked => run = "stopped" /\ NoStops /\ NoResumes

\* The selection of a frame is followed by the question about it, and a
\* question about a frame is put when that frame is selected.
FrameFirst ==
    /\ \A i \in 1..Len(cmds) : cmds[i].op = "frame" =>
          i = 1 /\ Len(cmds) >= 2 /\ cmds[2].op = "locals" /\ cmds[2].tag = cmds[1].tag
    /\ \A i \in 1..Len(cmds) : cmds[i].op = "locals" =>
          \/ i = 1 /\ selected = cmds[1].tag
          \/ i = 2 /\ cmds[1].op = "frame"

\* Answers are about the frame that was meant, or that is selected.
AnswersFit ==
    /\ ScopesAreRight
    /\ \A i \in 1..Len(msgs) : msgs[i].op = "locals" => msgs[i].frame = msgs[i].tag
    /\ \A i \in 1..Len(msgs) :
          msgs[i].op = "where" /\ view = "stopped" /\ run # "gone" => msgs[i].frame = selected

\* _frameId is the frame that is selected when what was sent has been done.
FrameToCome == IF cmds # <<>> /\ cmds[1].op = "frame" THEN cmds[1].tag ELSE selected

FrameTracked == frames # {} /\ run # "gone" => frameId = FrameToCome

QuitIsLast == \A i \in 1..Len(cmds) : cmds[i].op = "quit" => view = "left"

FramesOfAStop == frames # {} => view = "stopped"

OfAWaitingClient ==
    open \in {0, 1} /\ OneAsked /\ AskedWhileStopped /\ FrameFirst /\ AnswersFit /\ FrameTracked

FrameInv == QuitIsLast /\ FramesOfAStop /\ (Waits => OfAWaitingClient)

\* The synthetic frame is only offered by a stack trace that hides the current
\* one, so until then nobody selects it.
Selectable(s) == \A i \in 1..Len(s) : s[i].op = "frame" => s[i].tag # 0

SyntheticInv == ~hidden => 0 \notin frames /\ Selectable(cmds)

LEMMA SelectablePut ==
    ASSUME NEW s \in Seq(Cmds), NEW t \in Seq(Cmds), Selectable(s), Selectable(t)
    PROVE  Selectable(s \o t)
<1>1. PICK u : u = s \o t
  OBVIOUS
<1>2. /\ Len(s) \in Nat /\ Len(t) \in Nat /\ Len(u) = Len(s) + Len(t)
      /\ \A i \in 1..(Len(s) + Len(t)) : u[i] = IF i <= Len(s) THEN s[i] ELSE t[i - Len(s)]
  BY <1>1, ConcatProperties, LenProperties
<1>3. ASSUME NEW i \in 1..Len(u), u[i].op = "frame" PROVE u[i].tag # 0
  <2>1. CASE i <= Len(s)
    BY <1>2, <1>3, <2>1 DEF Selectable
  <2>2. CASE ~(i <= Len(s))
    <3>1. i - Len(s) \in 1..Len(t) /\ u[i] = t[i - Len(s)]
      BY <1>2, <2>2
    <3>2. QED
      BY <1>3, <3>1 DEF Selectable
  <2>3. QED
    BY <2>1, <2>2
<1>4. QED
  BY <1>1, <1>3 DEF Selectable

LEMMA SelectableSent ==
    ASSUME Shape, Selectable(cmds),
           \/ \E op \in Resumes \cup {"where", "locals", "eval", "quit"}, tag \in Nat : Send(Cmd(op, tag))
           \/ \E f \in Nat \ {0} : Send(Cmd("frame", f) \o Cmd("locals", f))
           \/ cmds' = cmds
    PROVE  Selectable(cmds')
<1>1. cmds \in Seq(Cmds)
  BY DEF Shape
<1>2. ASSUME NEW c \in Cmds, c.op = "frame" => c.tag # 0
      PROVE  <<c>> \in Seq(Cmds) /\ Selectable(<<c>>)
  BY <1>2 DEF Selectable
<1>3. CASE cmds' = cmds
  BY <1>3
<1>4. ASSUME NEW op \in Resumes \cup {"where", "locals", "eval", "quit"}, NEW tag \in Nat,
             cmds' = cmds \o Cmd(op, tag)
      PROVE  Selectable(cmds')
  <2>1. PICK c : c = [op |-> op, tag |-> tag]
    OBVIOUS
  <2>2. c \in Cmds /\ c.op # "frame"
    BY <2>1 DEF Cmds, Resumes
  <2>3. cmds' = cmds \o <<c>>
    BY <1>4, <2>1 DEF Cmd
  <2>4. QED
    BY <1>1, <1>2, <2>2, <2>3, SelectablePut
<1>5. ASSUME NEW f \in Nat \ {0}, cmds' = cmds \o (Cmd("frame", f) \o Cmd("locals", f))
      PROVE  Selectable(cmds')
  <2>1. PICK c : c = [op |-> "frame", tag |-> f]
    OBVIOUS
  <2>2. PICK d : d = [op |-> "locals", tag |-> f]
    OBVIOUS
  <2>3. c \in Cmds /\ c.tag # 0 /\ d \in Cmds /\ d.op # "frame"
    BY <2>1, <2>2 DEF Cmds
  <2>4. cmds' = cmds \o (<<c>> \o <<d>>)
    BY <1>5, <2>1, <2>2 DEF Cmd
  <2>5. <<c>> \o <<d>> \in Seq(Cmds) /\ Selectable(<<c>> \o <<d>>)
    BY <1>2, <2>3, SelectablePut, ConcatProperties
  <2>6. QED
    BY <1>1, <2>4, <2>5, SelectablePut
<1>6. QED
  BY <1>3, <1>4, <1>5 DEF Send

LEMMA SyntheticStep ==
    ASSUME ControlInv, SyntheticInv, [Next]_vars
    PROVE  SyntheticInv'
<1>1. SUFFICES ASSUME ~hidden' PROVE 0 \notin frames' /\ Selectable(cmds')
  BY DEF SyntheticInv
<1>2. Shape
  BY DEF ControlInv
<1>3. CASE UNCHANGED vars
  BY <1>1, <1>3 DEF vars, clientVars, SyntheticInv
<1>4. CASE Client
  <2>1. ~hidden /\ (frames' = frames \/ frames' = {})
    BY <1>1, <1>4 DEF Client, ConfigurationDone, StackTrace, Evaluate, Scopes, Ask, Resume, Disconnect
  <2>2. 0 \notin frames /\ Selectable(cmds)
    BY <2>1 DEF SyntheticInv
  <2>3. \/ \E op \in Resumes \cup {"where", "locals", "eval", "quit"}, tag \in Nat : Send(Cmd(op, tag))
        \/ \E f \in Nat \ {0} : Send(Cmd("frame", f) \o Cmd("locals", f))
        \/ cmds' = cmds
    <3>1. /\ 0 \in Nat /\ 1 \in Nat /\ Len(reported) \in Nat /\ frames \subseteq Nat
          /\ "start" \in Resumes /\ "go" \in Resumes
      BY <1>2, LenProperties DEF Shape, Resumes
    <3>2. CASE ConfigurationDone \/ Resume \/ Disconnect
      BY <3>1, <3>2 DEF ConfigurationDone, Resume, Disconnect
    <3>3. CASE StackTrace \/ Evaluate
      BY <3>1, <3>3 DEF StackTrace, Evaluate
    <3>4. CASE \E f \in frames : Scopes(f)
      BY <2>2, <3>1, <3>4 DEF Scopes
    <3>5. QED
      BY <1>4, <3>2, <3>3, <3>4 DEF Client
  <2>4. QED
    BY <1>2, <2>1, <2>2, <2>3, SelectableSent
<1>5. CASE Suspended \/ Breakpoint
  <2>1. /\ ~hidden /\ frames' = frames
        /\ \/ \E op \in {"step", "finish"} : Send(Cmd(op, 0))
           \/ cmds' = cmds
    BY <1>1, <1>5 DEF Suspended, Breakpoint, OnSuspended
  <2>2. {"step", "finish"} \subseteq Resumes /\ 0 \in Nat
    BY DEF Resumes
  <2>3. 0 \notin frames /\ Selectable(cmds)
    BY <2>1 DEF SyntheticInv
  <2>4. Selectable(cmds')
    BY <1>2, <2>1, <2>2, <2>3, SelectableSent
  <2>5. QED
    BY <2>1, <2>3, <2>4
<1>6. CASE WhereReply \/ ValueReply \/ Ended
  <2>1. cmds' = cmds /\ ~hidden
    <3>1. WhereReply => ~hidden
      BY <1>1, Zenon DEF WhereReply
    <3>2. ValueReply \/ Ended => ~hidden
      BY <1>1 DEF ValueReply, Ended
    <3>3. QED
      BY <1>6, <3>1, <3>2 DEF WhereReply, ValueReply, Ended
  <2>2. 0 \notin frames /\ Selectable(cmds)
    BY <2>1 DEF SyntheticInv
  <2>3. CASE WhereReply
    <3>1. Head(msgs).frame \in Shown(Head(msgs).stack)
      BY <1>1, <2>3, Zenon DEF WhereReply
    <3>2. frames' \in {frames, {}, Shown(Head(msgs).stack)}
      BY <2>3, <3>1 DEF WhereReply, Offered
    <3>3. 0 \notin Shown(Head(msgs).stack)
      BY DEF Shown
    <3>4. QED
      BY <2>1, <2>2, <3>2, <3>3
  <2>4. CASE ValueReply \/ Ended
    BY <2>1, <2>2, <2>4 DEF ValueReply, Ended
  <2>5. QED
    BY <1>6, <2>3, <2>4
<1>7. CASE Debugger
  <2>1. /\ ~hidden /\ frames' = frames
        /\ cmds' = cmds \/ cmds' = <<>> \/ (cmds # <<>> /\ cmds' = Tail(cmds))
    BY <1>1, <1>7 DEF Debugger, Halt, Finish, Quit, Exit, GoOn, SelectFrame, Answer, Take, clientVars
  <2>2. 0 \notin frames /\ Selectable(cmds)
    BY <2>1 DEF SyntheticInv
  <2>3. cmds \in Seq(Cmds)
    BY <1>2 DEF Shape
  <2>4. CASE cmds' = <<>>
    BY <2>1, <2>2, <2>4 DEF Selectable
  <2>5. CASE cmds # <<>> /\ cmds' = Tail(cmds)
    <3>1. \A i \in 1..Len(cmds') : i + 1 \in 1..Len(cmds) /\ cmds'[i] = cmds[i + 1]
      BY <2>3, <2>5, Dropped
    <3>2. QED
      BY <2>1, <2>2, <3>1 DEF Selectable
  <2>6. QED
    BY <2>1, <2>2, <2>4, <2>5
<1>8. QED
  BY <1>3, <1>4, <1>5, <1>6, <1>7 DEF Next, Handlers

LEMMA CmdFields ==
    \A c \in Cmds : c.tag \in Nat /\ c.op \in Resumes \cup Replies \cup {"frame", "quit"}
BY DEF Cmds, Replies

LEMMA OpsDiffer ==
    /\ \A op \in Resumes \cup {"quit", "frame"} : op \notin Replies
    /\ \A op \in Resumes : op \notin {"frame", "quit"}
    /\ "locals" \in Replies /\ "where" \in Replies /\ "eval" \in Replies
    /\ \A op \in StopEvents \cup {"end"} : op \notin Replies
BY DEF Resumes, Replies, StopEvents

\* With nothing asked no frame is to be selected.
LEMMA NoFrameToSelect ==
    ASSUME Shape, FrameFirst, NothingAsked
    PROVE  \A i \in 1..Len(cmds) : cmds[i].op \notin {"frame", "locals"}
<1>1. \A i \in 1..Len(cmds) : cmds[i].op # "locals"
  BY OpsDiffer DEF NothingAsked, Asked
<1>2. Len(cmds) \in Nat
  BY LenProperties DEF Shape
<1>3. ASSUME NEW i \in 1..Len(cmds), cmds[i].op = "frame" PROVE FALSE
  <2>1. Len(cmds) >= 2 /\ cmds[2].op = "locals"
    BY <1>3 DEF FrameFirst
  <2>2. 2 \in 1..Len(cmds)
    BY <1>2, <2>1
  <2>3. QED
    BY <1>1, <2>1, <2>2
<1>4. QED
  BY <1>1, <1>3

\* An open client that is not waiting for anything has left no command behind.
LEMMA NothingLeft ==
    ASSUME ControlInv, FrameInv, Waits, view = "stopped", ~(open > 0)
    PROVE  /\ NothingAsked /\ NothingAnswering /\ cmds = <<>>
           /\ run # "gone" => run = "stopped" /\ NoStops
<1>1. NothingAsked /\ NothingAnswering
  <2>1. open # 1
    OBVIOUS
  <2>2. QED
    BY <2>1 DEF FrameInv, OfAWaitingClient, AskedWhileStopped
<1>2. run # "gone" => run = "stopped" /\ NoStops /\ NoResumes
  BY DEF ControlInv, InControl
<1>3. run # "gone" => cmds = <<>>
  <2>1. SUFFICES ASSUME run # "gone" PROVE cmds = <<>>
    OBVIOUS
  <2>2. cmds \in Seq(Cmds) /\ Len(cmds) \in Nat
    BY LenProperties DEF ControlInv, Shape
  <2>3. ASSUME NEW i \in 1..Len(cmds) PROVE FALSE
    <3>1. cmds[i] \in Cmds
      BY <2>2, ElementOfSeq
    <3>2. cmds[i].op \in Resumes \cup Replies \cup {"frame", "quit"}
      BY <3>1, CmdFields
    <3>3. cmds[i].op \notin Resumes
      BY <1>2, <2>1 DEF NoResumes, IsResume
    <3>4. cmds[i].op \notin Replies
      BY <1>1 DEF NothingAsked, Asked
    <3>5. cmds[i].op # "quit"
      BY DEF FrameInv, QuitIsLast
    <3>6. cmds[i].op # "frame"
      BY <1>1, NoFrameToSelect DEF FrameInv, OfAWaitingClient, ControlInv
    <3>7. QED
      BY <3>2, <3>3, <3>4, <3>5, <3>6
  <2>4. QED
    BY <2>2, <2>3, EmptySeq
<1>4. QED
  BY <1>1, <1>2, <1>3 DEF ControlInv, EndIsTheEnd

\* A command that asks nothing is sent: what was asked stays.
LEMMA SentOther ==
    ASSUME ControlInv, NEW op \in Resumes \cup {"quit"}, Send(Cmd(op, 0)) \/ cmds' = cmds,
           selected' = selected
    PROVE  /\ (\A i, j \in 1..Len(cmds) : Asked(i) /\ Asked(j) => i = j)
              => (\A i, j \in 1..Len(cmds) : Asked(i) /\ Asked(j) => i = j)'
           /\ NothingAsked' <=> NothingAsked
           /\ FrameFirst => FrameFirst'
           /\ FrameToCome' = FrameToCome
           /\ \A i \in 1..Len(cmds') : cmds'[i].op = "quit" =>
                 op = "quit" \/ \E j \in 1..Len(cmds) : cmds[j].op = "quit"
<1>1. CASE cmds' = cmds
  BY <1>1 DEF NothingAsked, Asked, FrameFirst, FrameToCome
<1>2. CASE cmds' # cmds
  <2>1. PICK c : c = [op |-> op, tag |-> 0]
    OBVIOUS
  <2>2. c \in Cmds /\ c.op = op
    BY <2>1 DEF Cmds
  <2>3. op \notin Replies /\ op # "frame" /\ op # "locals"
    BY OpsDiffer
  <2>4. cmds' = cmds \o <<c>> /\ cmds \in Seq(Cmds)
    BY <1>2, <2>1 DEF Send, Cmd, ControlInv, Shape
  <2>5. cmds' = Append(cmds, c)
    BY <2>2, <2>4, AppendIsConcat
  <2>6. /\ Len(cmds) \in Nat /\ Len(cmds') = Len(cmds) + 1 /\ cmds'[Len(cmds) + 1] = c
        /\ \A i \in 1..Len(cmds) : cmds'[i] = cmds[i]
        /\ \A i \in 1..Len(cmds') : i \in 1..Len(cmds) \/ i = Len(cmds) + 1
    BY <2>2, <2>4, <2>5, Appended
  <2>7. \A i \in 1..Len(cmds) : i \in 1..Len(cmds')
    BY <2>6
  <2>8. \A i \in 1..Len(cmds') :
           cmds'[i].op \in Replies \cup {"frame", "locals"} => i \in 1..Len(cmds) /\ cmds'[i] = cmds[i]
    BY <2>2, <2>3, <2>6
  <2>9. NothingAsked' <=> NothingAsked
    BY <2>6, <2>7, <2>8, Zenon DEF NothingAsked, Asked
  <2>10. FrameFirst => FrameFirst'
    <3>1. SUFFICES ASSUME FrameFirst PROVE FrameFirst'
      OBVIOUS
    <3>2. ASSUME NEW i \in 1..Len(cmds'), cmds'[i].op = "frame"
          PROVE  i = 1 /\ Len(cmds') >= 2 /\ cmds'[2].op = "locals" /\ cmds'[2].tag = cmds'[1].tag
      <4>1. i \in 1..Len(cmds) /\ cmds[i].op = "frame"
        BY <2>8, <3>2
      <4>2. i = 1 /\ Len(cmds) >= 2 /\ cmds[2].op = "locals" /\ cmds[2].tag = cmds[1].tag
        BY <3>1, <4>1 DEF FrameFirst
      <4>3. 1 \in 1..Len(cmds) /\ 2 \in 1..Len(cmds)
        BY <2>6, <4>2
      <4>4. QED
        BY <2>6, <4>2, <4>3
    <3>3. ASSUME NEW i \in 1..Len(cmds'), cmds'[i].op = "locals"
          PROVE  \/ i = 1 /\ selected = cmds'[1].tag
                 \/ i = 2 /\ cmds'[1].op = "frame"
      <4>1. i \in 1..Len(cmds) /\ cmds[i].op = "locals"
        BY <2>8, <3>3
      <4>2. 1 \in 1..Len(cmds)
        BY <2>6, <4>1
      <4>3. QED
        BY <2>6, <3>1, <4>1, <4>2 DEF FrameFirst
    <3>4. QED
      BY <3>2, <3>3 DEF FrameFirst
  <2>11. FrameToCome' = FrameToCome
    <3>1. CASE cmds = <<>>
      <4>1. cmds'[1] = c
        BY <2>6, <3>1
      <4>2. QED
        BY <2>2, <2>3, <3>1, <4>1 DEF FrameToCome
    <3>2. CASE cmds # <<>>
      <4>1. 1 \in 1..Len(cmds) /\ cmds'[1] = cmds[1] /\ cmds' # <<>>
        BY <2>4, <2>6, <3>2, EmptySeq
      <4>2. QED
        BY <3>2, <4>1 DEF FrameToCome
    <3>3. QED
      BY <3>1, <3>2
  <2>12. (\A i, j \in 1..Len(cmds) : Asked(i) /\ Asked(j) => i = j)
            => (\A i, j \in 1..Len(cmds) : Asked(i) /\ Asked(j) => i = j)'
    BY <2>8 DEF Asked
  <2>13. QED
    BY <2>2, <2>6, <2>9, <2>10, <2>11, <2>12
<1>3. QED
  BY <1>1, <1>2

\* A message is handled: the answers that are left.
LEMMA ReceivedAnswer ==
    ASSUME ControlInv, NEW ops, Receive(ops),
           \A i, j \in 1..Len(msgs) : Answering(i) /\ Answering(j) => i = j
    PROVE  /\ (\A i, j \in 1..Len(msgs) : Answering(i) /\ Answering(j) => i = j)'
           /\ Head(msgs).op \in Replies => NothingAnswering' /\ ~NothingAnswering
           /\ Head(msgs).op \notin Replies /\ ~NothingAnswering' => ~NothingAnswering
<1>1. /\ msgs' = Tail(msgs) /\ msgs \in Seq(Msgs) /\ msgs # <<>>
  BY DEF Receive, ControlInv, Shape
<1>2. /\ Head(msgs) = msgs[1] /\ 1 \in 1..Len(msgs) /\ Len(msgs) \in Nat
      /\ Len(msgs') = Len(msgs) - 1
      /\ \A i \in 1..Len(msgs') : i + 1 \in 1..Len(msgs) /\ msgs'[i] = msgs[i + 1]
  BY <1>1, Dropped
<1>3. ASSUME NEW i \in 1..Len(msgs'), NEW j \in 1..Len(msgs'),
             msgs'[i].op \in Replies, msgs'[j].op \in Replies
      PROVE  i = j
  <2>1. i + 1 = j + 1
    BY <1>2, <1>3, Zenon DEF Answering
  <2>2. QED
    BY <2>1
<1>4. ASSUME NEW i \in 1..Len(msgs'), msgs'[i].op \in Replies, msgs[1].op \in Replies
      PROVE  FALSE
  <2>1. i + 1 = 1
    BY <1>2, <1>4, Zenon DEF Answering
  <2>2. QED
    BY <1>2, <2>1
<1>5. QED
  BY <1>2, <1>3, <1>4 DEF Answering, NothingAnswering

\* The client resumes the program only when nothing is open.
LEMMA ClientMoveKeepsFrames ==
    ASSUME ControlInv, FrameInv, ConfigurationDone \/ Resume \/ Disconnect
    PROVE  FrameInv'
<1>1. PICK op \in Resumes \cup {"quit"} :
         /\ Send(Cmd(op, 0)) \/ cmds' = cmds
         /\ op = "quit" => view' = "left"
         /\ op # "quit" => view' = "running" /\ view # "left"
  BY DEF ConfigurationDone, Resume, Disconnect, Resumes
<1>2. /\ UNCHANGED <<frameId, open, answers, hidden, msgs, run, stack, selected>>
      /\ frames' = {}
      /\ (overlapped' = overlapped) \/ (overlapped' = (overlapped \/ open > 0))
  BY DEF ConfigurationDone, Resume, Disconnect, adapterVars, debuggerVars, FrameInv, FramesOfAStop
<1>3. view \in {"starting", "stopped"} \/ view' = "left"
  BY DEF ConfigurationDone, Resume, Disconnect
<1>4. /\ (\A i, j \in 1..Len(cmds) : Asked(i) /\ Asked(j) => i = j)
            => (\A i, j \in 1..Len(cmds) : Asked(i) /\ Asked(j) => i = j)'
      /\ NothingAsked' <=> NothingAsked
      /\ FrameFirst => FrameFirst'
      /\ \A i \in 1..Len(cmds') : cmds'[i].op = "quit" =>
            op = "quit" \/ \E j \in 1..Len(cmds) : cmds[j].op = "quit"
  BY <1>1, <1>2, SentOther
<1>5. QuitIsLast'
  BY <1>1, <1>4 DEF FrameInv, QuitIsLast
<1>6. ASSUME Waits' PROVE OfAWaitingClient'
  <2>1. Waits
    <3>1. ~overlapped' /\ ~hidden'
      BY <1>6 DEF Waits
    <3>2. ~hidden
      BY <1>2, <3>1
    <3>3. ~overlapped
      BY <1>2, <3>1, Zenon
    <3>4. QED
      BY <3>2, <3>3 DEF Waits
  <2>2. OfAWaitingClient
    BY <2>1 DEF FrameInv
  <2>3. NothingAnswering' <=> NothingAnswering
    BY <1>2 DEF NothingAnswering, Answering
  <2>4. OneAsked'
    BY <1>2, <1>4, <2>2 DEF OfAWaitingClient, OneAsked, Answering, NothingAnswering
  <2>5. view' # "left" => NothingAsked /\ NothingAnswering
    <3>1. CASE view = "starting"
      BY <2>2, <3>1 DEF OfAWaitingClient, AskedWhileStopped
    <3>2. CASE view = "stopped" /\ view' # "left"
      <4>1. Resume
        BY <3>2 DEF ConfigurationDone, Disconnect
      <4>2. ~(open > 0)
        BY <1>6, <4>1, Zenon DEF Resume, Waits
      <4>3. QED
        BY <2>1, <3>2, <4>2, NothingLeft
    <3>3. QED
      BY <1>3, <3>1, <3>2
  <2>6. AskedWhileStopped'
    <3>1. NoStops' <=> NoStops
      BY <1>2 DEF NoStops, IsStop
    <3>2. CASE view' # "left"
      BY <1>4, <2>3, <2>5, <3>2 DEF AskedWhileStopped
    <3>3. CASE view' = "left"
      <4>1. NoResumes => NoResumes'
        <5>1. op = "quit"
          BY <1>1, <3>3
        <5>2. "quit" \notin Resumes
          BY DEF Resumes
        <5>3. CASE Send(Cmd("quit", 0))
          BY <5>2, <5>3, SentOne DEF ControlInv
        <5>4. CASE cmds' = cmds
          BY <5>4 DEF NoResumes, IsResume
        <5>5. QED
          BY <1>1, <5>1, <5>3, <5>4
      <4>2. QED
        BY <1>2, <1>4, <2>2, <2>3, <3>1, <3>3, <4>1 DEF OfAWaitingClient, AskedWhileStopped
    <3>4. QED
      BY <3>2, <3>3
  <2>7. AnswersFit'
    <3>1. view' = "left" \/ view' = "running"
      BY <1>1
    <3>2. QED
      BY <1>2, <2>2, <3>1 DEF OfAWaitingClient, AnswersFit, ScopesAreRight
  <2>8. FrameTracked'
    BY <1>2 DEF FrameTracked
  <2>9. QED
    BY <1>2, <1>4, <2>2, <2>4, <2>6, <2>7, <2>8 DEF OfAWaitingClient
<1>7. QED
  BY <1>2, <1>5, <1>6 DEF FrameInv, FramesOfAStop

\* The commands of a request about the stopped program, and the frame that is
\* noted for them.
Question(s) ==
    \/ /\ Len(s) = 1 /\ s[1].op \in Replies
       /\ s[1].op = "locals" => s[1].tag = frameId /\ frames # {}
       /\ frameId' = frameId
    \/ /\ Len(s) = 2 /\ s[1].op = "frame" /\ s[2].op = "locals" /\ s[2].tag = s[1].tag
       /\ frameId' = s[1].tag

LEMMA Questions ==
    ASSUME ControlInv, StackTrace \/ Evaluate \/ (\E f \in frames : Scopes(f))
    PROVE  \E s \in Seq(Cmds) : Send(s) /\ Question(s)
<1>1. ASSUME NEW op \in Replies, NEW tag \in Nat, Send(Cmd(op, tag)), frameId' = frameId,
             op = "locals" => tag = frameId /\ frames # {}
      PROVE  \E s \in Seq(Cmds) : Send(s) /\ Question(s)
  <2>1. PICK c : c = [op |-> op, tag |-> tag]
    OBVIOUS
  <2>2. c \in Cmds /\ c.op = op /\ c.tag = tag
    BY <2>1 DEF Cmds, Replies
  <2>3. PICK s : s = <<c>>
    OBVIOUS
  <2>4. s \in Seq(Cmds) /\ Len(s) = 1 /\ s[1] = c
    BY <2>2, <2>3
  <2>5. Send(s)
    BY <1>1, <2>1, <2>3 DEF Cmd
  <2>6. Question(s)
    BY <1>1, <2>2, <2>4 DEF Question
  <2>7. QED
    BY <2>4, <2>5, <2>6
<1>2. ASSUME NEW f \in Nat, Send(Cmd("frame", f) \o Cmd("locals", f)), frameId' = f
      PROVE  \E s \in Seq(Cmds) : Send(s) /\ Question(s)
  <2>1. PICK c : c = [op |-> "frame", tag |-> f]
    OBVIOUS
  <2>2. PICK d : d = [op |-> "locals", tag |-> f]
    OBVIOUS
  <2>3. /\ c \in Cmds /\ c.op = "frame" /\ c.tag = f
        /\ d \in Cmds /\ d.op = "locals" /\ d.tag = f
    BY <2>1, <2>2 DEF Cmds
  <2>4. PICK s : s = <<c>> \o <<d>>
    OBVIOUS
  <2>5. PICK b : b = <<c>>
    OBVIOUS
  <2>6. b \in Seq(Cmds) /\ Len(b) = 1 /\ b[1] = c
    BY <2>3, <2>5
  <2>7. s = Append(b, d)
    BY <2>3, <2>4, <2>5, <2>6, AppendIsConcat
  <2>8. s \in Seq(Cmds) /\ Len(s) = 2 /\ s[1] = c /\ s[2] = d
    <3>1. /\ s \in Seq(Cmds) /\ Len(s) = Len(b) + 1 /\ s[Len(b) + 1] = d
          /\ \A i \in 1..Len(b) : s[i] = b[i]
      <4>1. b \in Seq(Cmds) /\ d \in Cmds
        BY <2>3, <2>6
      <4>2. QED
        BY <2>7, <4>1, Appended
    <3>2. 1 \in 1..Len(b)
      BY <2>6
    <3>3. QED
      BY <2>6, <3>1, <3>2
  <2>9. Send(s)
    BY <1>2, <2>1, <2>2, <2>4 DEF Cmd
  <2>10. Question(s)
    BY <1>2, <2>3, <2>8 DEF Question
  <2>11. QED
    BY <2>8, <2>9, <2>10
<1>3. /\ "where" \in Replies /\ "locals" \in Replies /\ "eval" \in Replies
      /\ 1 \in Nat /\ Len(reported) \in Nat /\ frames \subseteq Nat
  BY LenProperties DEF Replies, ControlInv, Shape
<1>4. QED
  BY <1>1, <1>2, <1>3 DEF StackTrace, Evaluate, Scopes

LEMMA AskingKeepsFrames ==
    ASSUME ControlInv, FrameInv, StackTrace \/ Evaluate \/ (\E f \in frames : Scopes(f))
    PROVE  FrameInv'
<1>1. /\ view = "stopped" /\ open' = open + 1 /\ overlapped' = (overlapped \/ open > 0)
      /\ UNCHANGED <<closed, view, frames, reported, answers, hidden, msgs, run, stack, selected>>
  BY DEF StackTrace, Evaluate, Scopes, Ask, debuggerVars
<1>2. PICK s \in Seq(Cmds) : Send(s) /\ Question(s)
  BY Questions
<1>3. QuitIsLast'
  <2>1. \A i \in 1..Len(s) : s[i].op # "quit"
    BY <1>2 DEF Question, Replies
  <2>2. CASE cmds' = cmds
    BY <1>1, <2>2 DEF FrameInv, QuitIsLast
  <2>3. CASE cmds' = cmds \o s
    <3>1. \A i \in 1..Len(cmds') : \/ i \in 1..Len(cmds) /\ cmds'[i] = cmds[i]
                                   \/ i - Len(cmds) \in 1..Len(s) /\ cmds'[i] = s[i - Len(cmds)]
      BY <2>3, ConcatProperties, LenProperties DEF ControlInv, Shape
    <3>2. QED
      BY <1>1, <2>1, <3>1 DEF FrameInv, QuitIsLast
  <2>4. QED
    BY <1>2, <2>2, <2>3 DEF Send
<1>4. ASSUME Waits' PROVE OfAWaitingClient'
  <2>1. Waits /\ ~(open > 0)
    BY <1>1, <1>4, Zenon DEF Waits
  <2>2. /\ NothingAsked /\ NothingAnswering /\ cmds = <<>> /\ OfAWaitingClient
        /\ run # "gone" => run = "stopped" /\ NoStops
    BY <1>1, <2>1, NothingLeft DEF FrameInv
  <2>3. NothingAnswering' /\ (NoStops' <=> NoStops)
    BY <1>1, <2>2 DEF NothingAnswering, Answering, NoStops, IsStop
  <2>4. AnswersFit'
    <3>1. ScopesAreRight'
      BY <1>1, <2>2 DEF OfAWaitingClient, AnswersFit, ScopesAreRight
    <3>2. QED
      BY <2>3, <3>1, OpsDiffer DEF AnswersFit, NothingAnswering, Answering
  <2>5. CASE cmds' = cmds
    <3>1. cmds' = <<>> /\ Len(cmds') = 0
      BY <2>2, <2>5
    <3>2. run = "gone" \/ cmds' = s
      BY <1>2, <2>2, <2>5, ConcatEmptySeq DEF Send, ControlInv, EndIsTheEnd
    <3>3. run = "gone"
      BY <1>2, <3>1, <3>2 DEF Question
    <3>4. NothingAsked' /\ FrameFirst'
      BY <3>1 DEF NothingAsked, FrameFirst
    <3>5. OneAsked' /\ AskedWhileStopped'
      BY <2>3, <3>1, <3>4 DEF OneAsked, NothingAnswering, AskedWhileStopped
    <3>6. FrameTracked'
      BY <1>1, <3>3 DEF FrameTracked
    <3>7. open' \in {0, 1}
      BY <1>1, <2>1, <2>2 DEF OfAWaitingClient
    <3>8. QED
      BY <2>4, <3>4, <3>5, <3>6, <3>7 DEF OfAWaitingClient
  <2>6. CASE cmds' # cmds
    <3>1. cmds' = s /\ run = "stopped" /\ NoStops'
      BY <1>2, <2>2, <2>3, <2>6, ConcatEmptySeq DEF Send
    <3>2. open' = 1
      BY <1>1, <2>1, <2>2 DEF OfAWaitingClient
    <3>3. /\ Len(s) \in {1, 2}
          /\ Len(s) = 2 => s[1].op = "frame" /\ s[2].op = "locals" /\ s[2].tag = s[1].tag
          /\ Len(s) = 1 => s[1].op \in Replies
      BY <1>2 DEF Question
    <3>4. \A i \in 1..Len(s) : s[i].op \in Replies \cup {"frame"} /\ (s[i].op \in Replies => i = Len(s))
      <4>1. CASE Len(s) = 1
        BY <3>3, <4>1
      <4>2. CASE Len(s) = 2
        <5>1. s[1].op \notin Replies
          BY <3>3, <4>2, OpsDiffer
        <5>2. \A i \in 1..Len(s) : i = 1 \/ i = 2
          BY <4>2
        <5>3. QED
          BY <3>3, <4>2, <5>1, <5>2, OpsDiffer
      <4>3. QED
        BY <3>3, <4>1, <4>2
    <3>5. NoResumes'
      BY <3>1, <3>4, OpsDiffer DEF NoResumes, IsResume
    <3>6. OneAsked'
      BY <2>3, <3>1, <3>4 DEF OneAsked, Asked, NothingAnswering
    <3>7. AskedWhileStopped'
      BY <1>1, <3>1, <3>2, <3>5 DEF AskedWhileStopped
    <3>8. FrameTracked /\ (run # "gone" /\ frames # {} => frameId = selected)
      BY <2>2 DEF OfAWaitingClient, FrameTracked, FrameToCome
    <3>9. FrameFirst' /\ FrameTracked'
      <4>1. CASE Len(s) = 1
        <5>1. s[1].op \in Replies /\ s[1].op # "frame" /\ frameId' = frameId
          BY <1>2, <3>3, <4>1, OpsDiffer DEF Question
        <5>2. s[1].op = "locals" => s[1].tag = selected
          BY <1>2, <3>1, <3>3, <3>8, <4>1 DEF Question
        <5>3. FrameFirst'
          BY <1>1, <3>1, <4>1, <5>1, <5>2 DEF FrameFirst
        <5>4. FrameToCome' = selected
          BY <1>1, <3>1, <5>1 DEF FrameToCome
        <5>5. QED
          BY <1>1, <3>8, <5>1, <5>3, <5>4 DEF FrameTracked
      <4>2. CASE Len(s) = 2
        <5>1. frameId' = s[1].tag
          BY <1>2, <4>2 DEF Question
        <5>2. s # <<>>
          BY <4>2
        <5>3. FrameFirst'
          BY <3>1, <3>3, <4>2 DEF FrameFirst
        <5>4. FrameToCome' = s[1].tag
          BY <3>1, <3>3, <4>2, <5>2 DEF FrameToCome
        <5>5. QED
          BY <5>1, <5>3, <5>4 DEF FrameTracked
      <4>3. QED
        BY <3>3, <4>1, <4>2
    <3>10. QED
      BY <2>4, <3>2, <3>6, <3>7, <3>9 DEF OfAWaitingClient
  <2>7. QED
    BY <2>5, <2>6
<1>5. QED
  BY <1>1, <1>3, <1>4 DEF FrameInv, FramesOfAStop

\* What is left of the commands when the first is taken.
LEMMA TakenQuestion ==
    ASSUME ControlInv, cmds # <<>>, cmds' = Tail(cmds)
    PROVE  /\ Head(cmds) = cmds[1] /\ 1 \in 1..Len(cmds) /\ Len(cmds) \in Nat
           /\ Len(cmds') = Len(cmds) - 1
           /\ \A i \in 1..Len(cmds') : i + 1 \in 1..Len(cmds) /\ cmds'[i] = cmds[i + 1]
           /\ NothingAsked => NothingAsked'
           /\ OneAsked => /\ (\A i, j \in 1..Len(cmds) : Asked(i) /\ Asked(j) => i = j)'
                          /\ cmds[1].op \in Replies => NothingAsked' /\ ~NothingAsked
           /\ FrameFirst => \A i \in 1..Len(cmds') : cmds'[i].op # "frame"
           /\ QuitIsLast /\ (view = "left" => view' = "left") => QuitIsLast'
<1>1. cmds \in Seq(Cmds)
  BY DEF ControlInv, Shape
<1>2. /\ Head(cmds) = cmds[1] /\ 1 \in 1..Len(cmds) /\ Len(cmds) \in Nat
      /\ Len(cmds') = Len(cmds) - 1
      /\ \A i \in 1..Len(cmds') : i + 1 \in 1..Len(cmds) /\ cmds'[i] = cmds[i + 1]
  BY <1>1, Dropped
<1>3. NothingAsked => NothingAsked'
  BY <1>2 DEF NothingAsked, Asked
<1>4. ASSUME OneAsked, NEW i \in 1..Len(cmds'), NEW j \in 1..Len(cmds'),
             cmds'[i].op \in Replies, cmds'[j].op \in Replies
      PROVE  i = j
  <2>1. i + 1 = j + 1
    BY <1>2, <1>4, Zenon DEF OneAsked, Asked
  <2>2. QED
    BY <2>1
<1>5. ASSUME OneAsked, NEW i \in 1..Len(cmds'), cmds'[i].op \in Replies, cmds[1].op \in Replies
      PROVE  FALSE
  <2>1. i + 1 = 1
    BY <1>2, <1>5, Zenon DEF OneAsked, Asked
  <2>2. QED
    BY <1>2, <2>1
<1>6. ASSUME FrameFirst, NEW i \in 1..Len(cmds'), cmds'[i].op = "frame" PROVE FALSE
  <2>1. i + 1 = 1
    BY <1>2, <1>6 DEF FrameFirst
  <2>2. QED
    BY <1>2, <2>1
<1>7. QuitIsLast /\ (view = "left" => view' = "left") => QuitIsLast'
  BY <1>2 DEF QuitIsLast
<1>8. QED
  BY <1>2, <1>3, <1>4, <1>5, <1>6, <1>7 DEF NothingAsked, Asked

\* What is on its way back when the debugger has sent something.
LEMMA EmittedAnswer ==
    ASSUME ControlInv, NEW m, msgs' = Append(msgs, m)
    PROVE  /\ \A i \in 1..Len(msgs') :
                 \/ i \in 1..Len(msgs) /\ msgs'[i] = msgs[i]
                 \/ i = Len(msgs) + 1 /\ msgs'[i] = m
           /\ \A i \in 1..Len(msgs) : i \in 1..Len(msgs') /\ msgs'[i] = msgs[i]
           /\ m.op \notin Replies =>
                 /\ NothingAnswering' <=> NothingAnswering
                 /\ (\A i, j \in 1..Len(msgs) : Answering(i) /\ Answering(j) => i = j)
                       => (\A i, j \in 1..Len(msgs) : Answering(i) /\ Answering(j) => i = j)'
           /\ m.op \in Replies /\ NothingAnswering =>
                 (\A i, j \in 1..Len(msgs) : Answering(i) /\ Answering(j) => i = j)'
<1>1. msgs \in Seq(Msgs \cup {m})
  BY SeqMonotonic DEF ControlInv, Shape
<1>2. /\ Len(msgs) \in Nat /\ Len(msgs') = Len(msgs) + 1 /\ msgs'[Len(msgs) + 1] = m
      /\ \A i \in 1..Len(msgs) : msgs'[i] = msgs[i]
      /\ \A i \in 1..Len(msgs') : i \in 1..Len(msgs) \/ i = Len(msgs) + 1
  BY <1>1, Appended
<1>3. \A i \in 1..Len(msgs) : i \in 1..Len(msgs') /\ msgs'[i] = msgs[i]
  BY <1>2
<1>4. \A i \in 1..Len(msgs') : \/ i \in 1..Len(msgs) /\ msgs'[i] = msgs[i]
                               \/ i = Len(msgs) + 1 /\ msgs'[i] = m
  BY <1>2
<1>5. m.op \notin Replies =>
         /\ NothingAnswering' <=> NothingAnswering
         /\ (\A i, j \in 1..Len(msgs) : Answering(i) /\ Answering(j) => i = j)
               => (\A i, j \in 1..Len(msgs) : Answering(i) /\ Answering(j) => i = j)'
  BY <1>3, <1>4, Zenon DEF NothingAnswering, Answering
<1>6. m.op \in Replies /\ NothingAnswering =>
         (\A i, j \in 1..Len(msgs) : Answering(i) /\ Answering(j) => i = j)'
  <2>1. SUFFICES ASSUME NothingAnswering, NEW i \in 1..Len(msgs'), NEW j \in 1..Len(msgs'),
                        Answering(i)', Answering(j)'
                 PROVE  i = j
    OBVIOUS
  <2>2. \A k \in 1..Len(msgs') : Answering(k)' => k = Len(msgs) + 1
    BY <1>4, <2>1, Zenon DEF NothingAnswering, Answering
  <2>3. QED
    BY <2>1, <2>2
<1>7. QED
  BY <1>3, <1>4, <1>5, <1>6

\* A stop is handled: nothing was asked while it was on its way.
LEMMA StopKeepsFrames ==
    ASSUME ControlInv, FrameInv, Suspended \/ Breakpoint
    PROVE  FrameInv'
<1>1. PICK op \in {"step", "finish"} : Send(Cmd(op, 0)) \/ cmds' = cmds
  BY DEF Suspended, Breakpoint, OnSuspended
<1>2. /\ Receive({"suspended", "breakpoint"})
      /\ UNCHANGED <<frameId, closed, frames, open, answers, hidden, overlapped, run, stack, selected>>
      /\ view' = view \/ (view = "running" /\ view' = "stopped")
  BY DEF Suspended, Breakpoint, OnSuspended, Report, Receive, debuggerVars, adapterVars
<1>3. op \in Resumes /\ op # "quit"
  BY DEF Resumes
<1>4. Head(msgs).op \in StopEvents /\ Head(msgs).op \notin Replies
  BY <1>2, OpsDiffer DEF Receive, StopEvents
<1>5. /\ ~NoStops
      /\ \A i \in 1..Len(msgs') : \E j \in 1..Len(msgs) : msgs'[i] = msgs[j]
  BY <1>2, <1>4, Received DEF ControlInv
<1>6. frames # {} => run = "gone"
  BY <1>5 DEF FrameInv, FramesOfAStop, ControlInv, InControl
<1>7. /\ (\A i, j \in 1..Len(cmds) : Asked(i) /\ Asked(j) => i = j)
            => (\A i, j \in 1..Len(cmds) : Asked(i) /\ Asked(j) => i = j)'
      /\ NothingAsked' <=> NothingAsked
      /\ FrameFirst => FrameFirst'
      /\ \A i \in 1..Len(cmds') : cmds'[i].op = "quit" => \E j \in 1..Len(cmds) : cmds[j].op = "quit"
  BY <1>1, <1>2, <1>3, SentOther
<1>8. QuitIsLast' /\ FramesOfAStop'
  BY <1>2, <1>7 DEF FrameInv, QuitIsLast, FramesOfAStop
<1>9. ASSUME Waits' PROVE OfAWaitingClient'
  <2>1. OfAWaitingClient
    BY <1>2, <1>9 DEF FrameInv, Waits
  <2>2. NothingAsked /\ NothingAsked'
    BY <1>5, <1>7, <2>1 DEF OfAWaitingClient, AskedWhileStopped
  <2>3. /\ (\A i, j \in 1..Len(msgs) : Answering(i) /\ Answering(j) => i = j)'
        /\ ~NothingAnswering' => ~NothingAnswering
    BY <1>2, <1>4, <2>1, ReceivedAnswer DEF OfAWaitingClient, OneAsked
  <2>4. OneAsked'
    BY <1>7, <2>1, <2>2, <2>3 DEF OfAWaitingClient, OneAsked
  <2>5. ~NothingAnswering' => open' = 1 /\ view' = view /\ view \notin {"starting", "running"}
    BY <1>2, <2>1, <2>3 DEF OfAWaitingClient, AskedWhileStopped
  <2>6. AskedWhileStopped'
    BY <2>2, <2>5 DEF AskedWhileStopped
  <2>7. AnswersFit'
    <3>1. ASSUME NEW i \in 1..Len(msgs'), msgs'[i].op \in Replies
          PROVE  /\ msgs'[i].op = "locals" => msgs'[i].frame = msgs'[i].tag
                 /\ msgs'[i].op = "where" /\ view' = "stopped" /\ run' # "gone" => msgs'[i].frame = selected'
      <4>1. PICK j \in 1..Len(msgs) : msgs'[i] = msgs[j]
        BY <1>5
      <4>2. view' = view
        BY <2>5, <3>1 DEF NothingAnswering, Answering
      <4>3. QED
        BY <1>2, <2>1, <4>1, <4>2 DEF OfAWaitingClient, AnswersFit
    <3>2. ScopesAreRight'
      BY <1>2, <2>1 DEF OfAWaitingClient, AnswersFit, ScopesAreRight
    <3>3. QED
      BY <3>1, <3>2, OpsDiffer DEF AnswersFit
  <2>8. FrameTracked'
    BY <1>2, <1>6 DEF FrameTracked
  <2>9. QED
    BY <1>2, <1>7, <2>1, <2>4, <2>6, <2>7, <2>8 DEF OfAWaitingClient
<1>10. QED
  BY <1>8, <1>9 DEF FrameInv

\* An answer that is handled was the only thing on its way.
LEMMA AnswerAlone ==
    ASSUME ControlInv, OfAWaitingClient, Receive(Replies), cmds' = cmds
    PROVE  /\ NothingAsked /\ NothingAsked' /\ NothingAnswering' /\ OneAsked'
           /\ open = 1 /\ view \notin {"starting", "running"}
           /\ UNCHANGED <<overlapped, run, stack, selected>>
           /\ Head(msgs) = msgs[1] /\ 1 \in 1..Len(msgs)
           /\ FrameFirst' /\ FrameToCome' = selected
           /\ ScopesAreRight' => AnswersFit'
           /\ AskedWhileStopped'
<1>1. /\ Head(msgs).op \in Replies
      /\ UNCHANGED <<overlapped, run, stack, selected>>
  BY DEF Receive, debuggerVars
<1>2. /\ (\A i, j \in 1..Len(msgs) : Answering(i) /\ Answering(j) => i = j)'
      /\ NothingAnswering' /\ ~NothingAnswering
  BY <1>1, ReceivedAnswer DEF OfAWaitingClient, OneAsked
<1>3. NothingAsked /\ open = 1 /\ view \notin {"starting", "running"}
  BY <1>2 DEF OfAWaitingClient, OneAsked, AskedWhileStopped
<1>4. NothingAsked'
  BY <1>3 DEF NothingAsked, Asked
<1>5. OneAsked' /\ AskedWhileStopped'
  BY <1>2, <1>4 DEF OneAsked, AskedWhileStopped, NothingAsked
<1>6. FrameFirst'
  BY <1>1 DEF OfAWaitingClient, FrameFirst
<1>7. FrameToCome' = selected
  <2>1. cmds # <<>> => 1 \in 1..Len(cmds)
    BY LenProperties, EmptySeq DEF ControlInv, Shape
  <2>2. cmds # <<>> => cmds[1].op # "frame"
    BY <1>3, <2>1, NoFrameToSelect DEF OfAWaitingClient, ControlInv
  <2>3. QED
    BY <1>1, <2>2 DEF FrameToCome
<1>8. ScopesAreRight' => AnswersFit'
  BY <1>2, OpsDiffer DEF AnswersFit, NothingAnswering, Answering
<1>9. Head(msgs) = msgs[1] /\ 1 \in 1..Len(msgs)
  BY Received DEF ControlInv
<1>10. QED
  BY <1>1, <1>2, <1>3, <1>4, <1>5, <1>6, <1>7, <1>8, <1>9

\* A stack trace makes the frame that is selected the current one, when it
\* is among those that are shown.
LEMMA WhereReplyKeepsFrames ==
    ASSUME ControlInv, FrameInv, WhereReply
    PROVE  FrameInv'
<1>1. PICK r : r = Head(msgs)
  OBVIOUS
<1>2. /\ Receive(Replies) /\ r.op = "where"
      /\ frameId' = IF r.frame \in Shown(r.stack) THEN r.frame ELSE frameId
      /\ hidden' = (hidden \/ r.frame \notin Shown(r.stack))
      /\ UNCHANGED <<answers, cmds>>
      /\ \/ /\ open' = open - 1 /\ view' = view
            /\ frames' = frames \/ view = "stopped"
         \/ /\ open' = open /\ frames' = {}
            /\ view' \in {"left", "terminated"} /\ (view = "left" => view' = "left")
  BY <1>1 DEF WhereReply, Receive, Replies
<1>3. overlapped' = overlapped
  BY <1>2 DEF Receive
<1>4. QuitIsLast' /\ FramesOfAStop'
  BY <1>2 DEF FrameInv, QuitIsLast, FramesOfAStop
<1>5. ASSUME Waits' PROVE OfAWaitingClient'
  <2>1. ~hidden /\ r.frame \in Shown(r.stack)
    BY <1>2, <1>5, Zenon DEF Waits
  <2>2. OfAWaitingClient
    BY <1>3, <1>5, <2>1 DEF Waits, FrameInv
  <2>3. /\ NothingAsked' /\ NothingAnswering' /\ OneAsked' /\ open = 1 /\ AskedWhileStopped'
        /\ UNCHANGED <<run, selected>>
        /\ Head(msgs) = msgs[1] /\ 1 \in 1..Len(msgs)
        /\ FrameFirst' /\ FrameToCome' = selected
        /\ ScopesAreRight' => AnswersFit'
    BY <1>2, <2>2, AnswerAlone
  <2>4. open' \in {0, 1}
    BY <1>2, <2>3
  <2>5. AnswersFit'
    BY <1>2, <2>2, <2>3 DEF OfAWaitingClient, AnswersFit, ScopesAreRight
  <2>6. FrameTracked'
    <3>1. SUFFICES ASSUME frames' # {}, run # "gone" PROVE r.frame = selected
      BY <1>2, <2>1, <2>3 DEF FrameTracked
    <3>2. view = "stopped"
      BY <1>2, <3>1 DEF FrameInv, FramesOfAStop
    <3>3. QED
      BY <1>1, <1>2, <2>2, <2>3, <3>1, <3>2 DEF OfAWaitingClient, AnswersFit
  <2>7. QED
    BY <2>3, <2>4, <2>5, <2>6 DEF OfAWaitingClient
<1>6. QED
  BY <1>4, <1>5 DEF FrameInv

LEMMA ValueReplyKeepsFrames ==
    ASSUME ControlInv, FrameInv, ValueReply
    PROVE  FrameInv'
<1>1. PICK r : r = Head(msgs)
  OBVIOUS
<1>2. /\ Receive(Replies)
      /\ open' = open - 1
      /\ answers' = answers \cup {[op |-> r.op, want |-> r.tag, got |-> r.frame]}
      /\ UNCHANGED <<frameId, view, frames, hidden, cmds>>
  BY <1>1 DEF ValueReply, Receive, Replies, adapterVars
<1>3. overlapped' = overlapped
  BY <1>2 DEF Receive
<1>4. QuitIsLast' /\ FramesOfAStop'
  BY <1>2 DEF FrameInv, QuitIsLast, FramesOfAStop
<1>5. ASSUME Waits' PROVE OfAWaitingClient'
  <2>1. OfAWaitingClient
    BY <1>2, <1>3, <1>5 DEF Waits, FrameInv
  <2>2. /\ NothingAsked /\ NothingAsked' /\ NothingAnswering' /\ OneAsked' /\ open = 1 /\ AskedWhileStopped'
        /\ UNCHANGED <<run, selected>>
        /\ Head(msgs) = msgs[1] /\ 1 \in 1..Len(msgs)
        /\ FrameFirst' /\ FrameToCome' = selected
        /\ ScopesAreRight' => AnswersFit'
    BY <1>2, <2>1, AnswerAlone
  <2>3. r.op = "locals" => r.frame = r.tag
    BY <1>1, <2>1, <2>2 DEF OfAWaitingClient, AnswersFit
  <2>4. PICK a : a = [op |-> r.op, want |-> r.tag, got |-> r.frame]
    OBVIOUS
  <2>5. a.op = "locals" => a.got = a.want
    BY <2>3, <2>4
  <2>6. ScopesAreRight'
    BY <1>2, <2>1, <2>4, <2>5 DEF OfAWaitingClient, AnswersFit, ScopesAreRight
  <2>7. FrameTracked'
    <3>1. FrameToCome' = FrameToCome
      BY <1>2, <2>2 DEF FrameToCome
    <3>2. QED
      BY <1>2, <2>1, <2>2, <3>1 DEF OfAWaitingClient, FrameTracked
  <2>8. open' \in {0, 1}
    BY <1>2, <2>2
  <2>9. QED
    BY <2>2, <2>6, <2>7, <2>8 DEF OfAWaitingClient
<1>6. QED
  BY <1>4, <1>5 DEF FrameInv

LEMMA EndedKeepsFrames ==
    ASSUME ControlInv, FrameInv, Ended
    PROVE  FrameInv'
<1>1. /\ Receive({"end"}) /\ frames' = {}
      /\ view' \in {"left", "terminated"} /\ (view = "left" => view' = "left")
      /\ UNCHANGED <<frameId, open, answers, hidden, cmds, overlapped, run, selected>>
  BY DEF Ended, Receive, debuggerVars
<1>2. Head(msgs).op \notin Replies
  BY <1>1, OpsDiffer DEF Receive
<1>3. \A i \in 1..Len(msgs') : \E j \in 1..Len(msgs) : msgs'[i] = msgs[j]
  BY <1>1, Received DEF ControlInv
<1>4. QuitIsLast' /\ FramesOfAStop'
  BY <1>1 DEF FrameInv, QuitIsLast, FramesOfAStop
<1>5. ASSUME Waits' PROVE OfAWaitingClient'
  <2>1. OfAWaitingClient
    BY <1>1, <1>5 DEF FrameInv, Waits
  <2>2. /\ (\A i, j \in 1..Len(msgs) : Answering(i) /\ Answering(j) => i = j)'
        /\ ~NothingAnswering' => ~NothingAnswering
    BY <1>1, <1>2, <2>1, ReceivedAnswer DEF OfAWaitingClient, OneAsked
  <2>3. run = "gone" /\ cmds = <<>>
    <3>1. Head(msgs) = msgs[1] /\ 1 \in 1..Len(msgs) /\ Head(msgs).op = "end"
      BY <1>1, Received DEF ControlInv
    <3>2. QED
      BY <3>1 DEF ControlInv, EndIsTheEnd
  <2>4. NothingAsked'
    BY <1>1, <2>3 DEF NothingAsked
  <2>5. OneAsked' /\ FrameFirst'
    BY <1>1, <2>2, <2>3, <2>4 DEF OneAsked, FrameFirst
  <2>6. AskedWhileStopped'
    BY <1>1, <2>1, <2>2, <2>4 DEF OfAWaitingClient, AskedWhileStopped
  <2>7. AnswersFit'
    BY <1>1, <1>3, <2>1 DEF OfAWaitingClient, AnswersFit, ScopesAreRight
  <2>8. FrameTracked'
    BY <1>1 DEF FrameTracked
  <2>9. QED
    BY <1>1, <2>1, <2>5, <2>6, <2>7, <2>8 DEF OfAWaitingClient
<1>6. QED
  BY <1>4, <1>5 DEF FrameInv

\* The program stops or ends: what was asked before is nothing, or is over.
LEMMA ProgramKeepsFrames ==
    ASSUME ControlInv, FrameInv, Halt \/ Finish \/ Quit
    PROVE  FrameInv'
<1>1. PICK m : /\ msgs' = Append(msgs, m) /\ m.op \notin Replies
               /\ UNCHANGED <<frameId, view, frames, open, answers, hidden, overlapped>>
               /\ \/ run = "running" /\ run' = "stopped" /\ cmds' = cmds
                  \/ run' = "gone" /\ cmds' = <<>>
  <2>1. CASE Halt
    <3>1. PICK files \in Stacks, event \in {"suspended", "breakpoint"} : Emit(event, 0, 1, <<files[1]>>)
      BY <2>1 DEF Halt
    <3>2. PICK m : m = [op |-> event, tag |-> 0, frame |-> 1, stack |-> <<files[1]>>]
      OBVIOUS
    <3>3. msgs' = Append(msgs, m) /\ m.op \notin Replies
      BY <3>1, <3>2 DEF Emit, Replies
    <3>4. QED
      BY <2>1, <3>3 DEF Halt, adapterVars, clientVars
  <2>2. CASE Finish \/ Quit
    <3>1. PICK m : m = [op |-> "end", tag |-> 0, frame |-> 0, stack |-> <<>>]
      OBVIOUS
    <3>2. m.op \notin Replies
      BY <3>1 DEF Replies
    <3>3. Exit
      BY <2>2 DEF Finish, Quit
    <3>4. QED
      BY <3>1, <3>2, <3>3 DEF Exit, Emit, adapterVars, clientVars
  <2>3. QED
    BY <2>1, <2>2
<1>2. /\ \A i \in 1..Len(msgs') :
           \/ i \in 1..Len(msgs) /\ msgs'[i] = msgs[i]
           \/ i = Len(msgs) + 1 /\ msgs'[i] = m
      /\ NothingAnswering' <=> NothingAnswering
      /\ (\A i, j \in 1..Len(msgs) : Answering(i) /\ Answering(j) => i = j)
             => (\A i, j \in 1..Len(msgs) : Answering(i) /\ Answering(j) => i = j)'
  BY <1>1, EmittedAnswer
<1>3. QuitIsLast' /\ FramesOfAStop'
  BY <1>1 DEF FrameInv, QuitIsLast, FramesOfAStop
<1>4. ASSUME Waits' PROVE OfAWaitingClient'
  <2>1. OfAWaitingClient
    BY <1>1, <1>4 DEF FrameInv, Waits
  <2>2. NothingAsked'
    BY <1>1, <2>1 DEF OfAWaitingClient, AskedWhileStopped, NothingAsked, Asked
  <2>3. OneAsked'
    BY <1>2, <2>1, <2>2 DEF OfAWaitingClient, OneAsked, NothingAsked
  <2>4. AskedWhileStopped'
    BY <1>1, <1>2, <2>1, <2>2 DEF OfAWaitingClient, AskedWhileStopped
  <2>5. view = "stopped" => run' = "gone"
    BY <1>1 DEF ControlInv, InControl
  <2>6. FrameFirst'
    <3>1. CASE cmds' = <<>>
      BY <3>1 DEF FrameFirst
    <3>2. CASE cmds' = cmds
      <4>1. NothingAsked
        BY <2>2, <3>2 DEF NothingAsked, Asked
      <4>2. \A i \in 1..Len(cmds) : cmds[i].op \notin {"frame", "locals"}
        BY <2>1, <4>1, NoFrameToSelect DEF OfAWaitingClient, ControlInv
      <4>3. QED
        BY <3>2, <4>2 DEF FrameFirst
    <3>3. QED
      BY <1>1, <3>1, <3>2
  <2>7. AnswersFit'
    <3>1. \A i \in 1..Len(msgs') : msgs'[i].op \in Replies => i \in 1..Len(msgs) /\ msgs'[i] = msgs[i]
      BY <1>1, <1>2
    <3>2. \A i \in 1..Len(msgs') : msgs'[i].op = "locals" => msgs'[i].frame = msgs'[i].tag
      BY <2>1, <3>1, OpsDiffer DEF OfAWaitingClient, AnswersFit
    <3>3. ScopesAreRight'
      BY <1>1, <2>1 DEF OfAWaitingClient, AnswersFit, ScopesAreRight
    <3>4. QED
      BY <1>1, <2>5, <3>2, <3>3 DEF AnswersFit
  <2>8. FrameTracked'
    BY <1>1, <2>5 DEF FrameInv, FramesOfAStop, FrameTracked
  <2>9. QED
    BY <1>1, <2>1, <2>3, <2>4, <2>6, <2>7, <2>8 DEF OfAWaitingClient
<1>5. QED
  BY <1>3, <1>4 DEF FrameInv

LEMMA GoOnKeepsFrames ==
    ASSUME ControlInv, FrameInv, GoOn
    PROVE  FrameInv'
<1>1. /\ cmds # <<>> /\ Head(cmds).op \in Resumes /\ cmds' = Tail(cmds) /\ run' = "running"
      /\ run \in {"waiting", "stopped"}
      /\ UNCHANGED <<frameId, view, frames, open, answers, hidden, overlapped, msgs, selected>>
  BY DEF GoOn, adapterVars, clientVars
<1>2. ~NoResumes
  BY <1>1, TakenCommand DEF ControlInv
<1>3. view # "stopped"
  BY <1>1, <1>2 DEF ControlInv, InControl
<1>4. /\ NothingAsked => NothingAsked'
      /\ OneAsked => (\A i, j \in 1..Len(cmds) : Asked(i) /\ Asked(j) => i = j)'
      /\ FrameFirst => \A i \in 1..Len(cmds') : cmds'[i].op # "frame"
      /\ QuitIsLast'
  BY <1>1, TakenQuestion DEF FrameInv
<1>5. FramesOfAStop'
  BY <1>1 DEF FrameInv, FramesOfAStop
<1>6. ASSUME Waits' PROVE OfAWaitingClient'
  <2>1. OfAWaitingClient
    BY <1>1, <1>6 DEF FrameInv, Waits
  <2>2. NothingAsked'
    BY <1>2, <1>4, <2>1 DEF OfAWaitingClient, AskedWhileStopped
  <2>3. NothingAnswering' <=> NothingAnswering
    BY <1>1 DEF NothingAnswering, Answering
  <2>4. OneAsked'
    BY <1>1, <1>4, <2>1, <2>2 DEF OfAWaitingClient, OneAsked, Answering
  <2>5. AskedWhileStopped'
    BY <1>1, <2>1, <2>2, <2>3 DEF OfAWaitingClient, AskedWhileStopped
  <2>6. FrameFirst'
    BY <1>4, <2>1, <2>2, OpsDiffer DEF OfAWaitingClient, FrameFirst, NothingAsked, Asked
  <2>7. AnswersFit'
    BY <1>1, <1>3, <2>1 DEF OfAWaitingClient, AnswersFit, ScopesAreRight
  <2>8. FrameTracked'
    BY <1>1, <1>3 DEF FrameInv, FramesOfAStop, FrameTracked
  <2>9. QED
    BY <1>1, <2>1, <2>4, <2>5, <2>6, <2>7, <2>8 DEF OfAWaitingClient
<1>7. QED
  BY <1>4, <1>5, <1>6 DEF FrameInv

LEMMA SelectFrameKeepsFrames ==
    ASSUME ControlInv, SyntheticInv, FrameInv, SelectFrame
    PROVE  FrameInv'
<1>1. /\ cmds # <<>> /\ Head(cmds).op = "frame" /\ cmds' = Tail(cmds) /\ run = "stopped"
      /\ Head(cmds).tag # 0 => selected' = Head(cmds).tag
      /\ UNCHANGED <<frameId, view, frames, open, answers, hidden, overlapped, msgs, run>>
  BY DEF SelectFrame, Take, adapterVars, clientVars
<1>2. /\ Head(cmds) = cmds[1] /\ 1 \in 1..Len(cmds) /\ Len(cmds) \in Nat
      /\ Len(cmds') = Len(cmds) - 1
      /\ \A i \in 1..Len(cmds') : i + 1 \in 1..Len(cmds) /\ cmds'[i] = cmds[i + 1]
      /\ OneAsked => (\A i, j \in 1..Len(cmds) : Asked(i) /\ Asked(j) => i = j)'
      /\ FrameFirst => \A i \in 1..Len(cmds') : cmds'[i].op # "frame"
      /\ QuitIsLast'
  BY <1>1, TakenQuestion DEF FrameInv
<1>3. FramesOfAStop'
  BY <1>1 DEF FrameInv, FramesOfAStop
<1>4. ASSUME Waits' PROVE OfAWaitingClient'
  <2>1. OfAWaitingClient
    BY <1>1, <1>4 DEF FrameInv, Waits
  <2>2. Len(cmds) >= 2 /\ cmds[2].op = "locals" /\ cmds[2].tag = cmds[1].tag
    BY <1>1, <1>2, <2>1 DEF OfAWaitingClient, FrameFirst
  <2>14. selected' = cmds[1].tag
    <3>1. ~hidden
      BY <1>1, <1>4 DEF Waits
    <3>2. Selectable(cmds)
      BY <3>1 DEF SyntheticInv
    <3>3. QED
      BY <1>1, <1>2, <3>2 DEF Selectable
  <2>3. 2 \in 1..Len(cmds) /\ 1 \in 1..Len(cmds') /\ cmds'[1] = cmds[2]
    BY <1>2, <2>2
  <2>4. ~NothingAsked
    BY <2>2, <2>3, OpsDiffer DEF NothingAsked, Asked
  <2>5. NothingAnswering /\ open = 1 /\ view \notin {"starting", "running"} /\ NoStops /\ NoResumes
    BY <2>1, <2>4 DEF OfAWaitingClient, OneAsked, AskedWhileStopped
  <2>6. NothingAnswering' /\ NoStops'
    BY <1>1, <2>5 DEF NothingAnswering, Answering, NoStops, IsStop
  <2>7. NoResumes'
    BY <1>2, <2>5 DEF NoResumes, IsResume
  <2>8. OneAsked'
    BY <1>2, <2>1, <2>6 DEF OfAWaitingClient, OneAsked, NothingAnswering
  <2>9. AskedWhileStopped'
    BY <1>1, <2>5, <2>6, <2>7 DEF AskedWhileStopped
  <2>10. FrameFirst'
    <3>1. ASSUME NEW i \in 1..Len(cmds'), cmds'[i].op = "locals"
          PROVE  i = 1 /\ selected' = cmds'[1].tag
      <4>1. cmds'[i].op \in Replies /\ cmds'[1].op \in Replies
        BY <2>2, <2>3, <3>1, OpsDiffer
      <4>2. i = 1
        BY <1>2, <2>1, <2>3, <4>1 DEF OfAWaitingClient, Asked
      <4>3. QED
        BY <2>2, <2>3, <2>14, <4>2
    <3>2. QED
      BY <1>2, <2>1, <3>1 DEF OfAWaitingClient, FrameFirst
  <2>11. AnswersFit'
    <3>1. ScopesAreRight'
      BY <1>1, <2>1 DEF OfAWaitingClient, AnswersFit, ScopesAreRight
    <3>2. QED
      BY <2>6, <3>1, OpsDiffer DEF AnswersFit, NothingAnswering, Answering
  <2>12. FrameTracked'
    <3>1. FrameToCome = cmds[1].tag
      BY <1>1, <1>2 DEF FrameToCome
    <3>2. FrameToCome' = selected'
      BY <2>2, <2>3 DEF FrameToCome
    <3>3. QED
      BY <1>1, <2>1, <2>14, <3>1, <3>2 DEF OfAWaitingClient, FrameTracked
  <2>13. QED
    BY <1>1, <2>1, <2>8, <2>9, <2>10, <2>11, <2>12 DEF OfAWaitingClient
<1>5. QED
  BY <1>2, <1>3, <1>4 DEF FrameInv

LEMMA AnswerKeepsFrames ==
    ASSUME ControlInv, FrameInv, Answer
    PROVE  FrameInv'
<1>1. PICK op, files :
         /\ op \in Replies /\ cmds # <<>> /\ Head(cmds).op = op /\ cmds' = Tail(cmds) /\ run = "stopped"
         /\ Emit(op, Head(cmds).tag, selected, files)
         /\ UNCHANGED <<frameId, view, frames, open, answers, hidden, overlapped, run, selected>>
  BY OpsDiffer DEF Answer, Take, adapterVars, clientVars
<1>2. PICK m : m = [op |-> op, tag |-> Head(cmds).tag, frame |-> selected, stack |-> files]
  OBVIOUS
<1>3. /\ msgs' = Append(msgs, m) /\ m.op = op /\ m.tag = Head(cmds).tag /\ m.frame = selected
      /\ m.op \in Replies
  BY <1>1, <1>2 DEF Emit
<1>4. /\ Head(cmds) = cmds[1] /\ 1 \in 1..Len(cmds)
      /\ OneAsked => NothingAsked' /\ ~NothingAsked
      /\ FrameFirst => \A i \in 1..Len(cmds') : cmds'[i].op # "frame"
      /\ QuitIsLast'
  BY <1>1, TakenQuestion DEF FrameInv
<1>5. FramesOfAStop'
  BY <1>1 DEF FrameInv, FramesOfAStop
<1>6. ASSUME Waits' PROVE OfAWaitingClient'
  <2>1. OfAWaitingClient
    BY <1>1, <1>6 DEF FrameInv, Waits
  <2>2. NothingAsked' /\ ~NothingAsked /\ NothingAnswering
    BY <1>4, <2>1 DEF OfAWaitingClient, OneAsked
  <2>3. open = 1 /\ view \notin {"starting", "running"}
    BY <2>1, <2>2 DEF OfAWaitingClient, AskedWhileStopped
  <2>4. /\ \A i \in 1..Len(msgs') :
             \/ i \in 1..Len(msgs) /\ msgs'[i] = msgs[i]
             \/ i = Len(msgs) + 1 /\ msgs'[i] = m
        /\ (\A i, j \in 1..Len(msgs) : Answering(i) /\ Answering(j) => i = j)'
    BY <1>3, <2>2, EmittedAnswer
  <2>5. OneAsked'
    BY <2>2, <2>4 DEF OneAsked, NothingAsked
  <2>6. AskedWhileStopped'
    BY <1>1, <2>2, <2>3 DEF AskedWhileStopped
  <2>7. FrameFirst'
    BY <1>4, <2>1, <2>2, OpsDiffer DEF OfAWaitingClient, FrameFirst, NothingAsked, Asked
  <2>8. m.op = "locals" => m.frame = m.tag
    <3>1. SUFFICES ASSUME op = "locals" PROVE selected = cmds[1].tag
      BY <1>3, <1>4
    <3>2. QED
      BY <1>1, <1>4, <2>1, <3>1 DEF OfAWaitingClient, FrameFirst
  <2>9. AnswersFit'
    <3>1. ScopesAreRight'
      BY <1>1, <2>1 DEF OfAWaitingClient, AnswersFit, ScopesAreRight
    <3>2. \A i \in 1..Len(msgs') : msgs'[i].op \in Replies => msgs'[i] = m
      BY <2>2, <2>4 DEF NothingAnswering, Answering
    <3>3. QED
      BY <1>1, <1>3, <2>8, <3>1, <3>2, OpsDiffer DEF AnswersFit
  <2>10. FrameTracked'
    <3>1. FrameToCome = selected
      BY <1>1, <1>4, OpsDiffer DEF FrameToCome
    <3>2. cmds' # <<>> => 1 \in 1..Len(cmds')
      <4>1. cmds' \in Seq(Cmds)
        BY <1>1, TakenCommand DEF ControlInv
      <4>2. QED
        BY <4>1, LenProperties, EmptySeq
    <3>3. FrameToCome' = selected
      BY <1>1, <1>4, <2>1, <3>2 DEF OfAWaitingClient, FrameToCome
    <3>4. QED
      BY <1>1, <2>1, <3>1, <3>3 DEF OfAWaitingClient, FrameTracked
  <2>11. QED
    BY <1>1, <2>1, <2>5, <2>6, <2>7, <2>9, <2>10 DEF OfAWaitingClient
<1>7. QED
  BY <1>4, <1>5, <1>6 DEF FrameInv

LEMMA FrameStep ==
    ASSUME ControlInv, SyntheticInv, FrameInv, [Next]_vars
    PROVE  FrameInv'
<1>1. CASE ConfigurationDone \/ Resume \/ Disconnect
  BY <1>1, ClientMoveKeepsFrames
<1>2. CASE StackTrace \/ Evaluate \/ (\E f \in frames : Scopes(f))
  BY <1>2, AskingKeepsFrames
<1>3. CASE Suspended \/ Breakpoint
  BY <1>3, StopKeepsFrames
<1>4. CASE WhereReply
  BY <1>4, WhereReplyKeepsFrames
<1>5. CASE ValueReply
  BY <1>5, ValueReplyKeepsFrames
<1>6. CASE Ended
  BY <1>6, EndedKeepsFrames
<1>7. CASE Halt \/ Finish \/ Quit
  BY <1>7, ProgramKeepsFrames
<1>8. CASE GoOn
  BY <1>8, GoOnKeepsFrames
<1>9. CASE SelectFrame
  BY <1>9, SelectFrameKeepsFrames
<1>10. CASE Answer
  BY <1>10, AnswerKeepsFrames
<1>11. CASE UNCHANGED vars
  BY <1>11 DEF vars, adapterVars, clientVars, debuggerVars, FrameInv, QuitIsLast, FramesOfAStop,
     Waits, OfAWaitingClient, OneAsked, Asked, Answering, NothingAsked, NothingAnswering,
     AskedWhileStopped, NoStops, IsStop, NoResumes, IsResume, FrameFirst, AnswersFit,
     ScopesAreRight, FrameTracked, FrameToCome
<1>12. QED
  BY <1>1, <1>2, <1>3, <1>4, <1>5, <1>6, <1>7, <1>8, <1>9, <1>10, <1>11
     DEF Next, Client, Handlers, Debugger

\* What is on its way for a client that waits, and the frame that _frameId
\* names.
THEOREM FrameInvariant == Spec => []FrameInv
<1>1. Init => FrameInv /\ SyntheticInv
  BY DEF Init, FrameInv, QuitIsLast, FramesOfAStop, OfAWaitingClient, OneAsked, NothingAsked,
     NothingAnswering, AskedWhileStopped, FrameFirst, AnswersFit, ScopesAreRight, FrameTracked,
     SyntheticInv, Selectable
<1>2. ControlInv /\ SyntheticInv /\ FrameInv /\ [Next]_vars => SyntheticInv' /\ FrameInv'
  BY FrameStep, SyntheticStep
<1>3. QED
  BY <1>1, <1>2, ControlInvariant, PTL DEF Spec

\* The variables a waiting client is shown are those of the frame it asked
\* for, unless a stack trace has hidden the current one.
THEOREM ScopesAlwaysUnlessHidden == Spec => []ScopesUnlessHidden
<1>1. FrameInv => ScopesUnlessHidden
  BY DEF FrameInv, Waits, OfAWaitingClient, AnswersFit, ScopesUnlessHidden
<1>2. QED
  BY <1>1, FrameInvariant, PTL

(***************************************************************************)
(* Types.  That an answer is only sent to a request which is open, and a   *)
(* stop is only reported once, takes counting: the questions and answers   *)
(* on their way, each of an open request, and the stop on its way.         *)
(***************************************************************************)

\* The questions, or the answers, among what is on its way.
Places(s) == {i \in 1..Len(s) : s[i].op \in Replies}

LEMMA PlacesFinite ==
    ASSUME NEW S, NEW s \in Seq(S)
    PROVE  IsFiniteSet(Places(s)) /\ Cardinality(Places(s)) \in Nat
<1>1. Len(s) \in Int /\ Places(s) \subseteq 1..Len(s)
  BY LenProperties DEF Places
<1>2. IsFiniteSet(1..Len(s))
  BY <1>1, FS_Interval
<1>3. IsFiniteSet(Places(s))
  BY <1>1, <1>2, FS_Subset
<1>4. QED
  BY <1>3, FS_CardinalityType

LEMMA PlacesAdded ==
    ASSUME NEW S, NEW s \in Seq(S), NEW m \in S
    PROVE  Cardinality(Places(Append(s, m))) =
             IF m.op \in Replies THEN Cardinality(Places(s)) + 1 ELSE Cardinality(Places(s))
<1> DEFINE t == Append(s, m)
<1>1. /\ Len(s) \in Nat /\ Len(t) = Len(s) + 1 /\ t[Len(s) + 1] = m
      /\ \A i \in 1..Len(s) : t[i] = s[i]
  BY Appended
<1> HIDE DEF t
<1>2. CASE m.op \in Replies
  <2>1. Places(t) = Places(s) \cup {Len(s) + 1} /\ Len(s) + 1 \notin Places(s)
    BY <1>1, <1>2 DEF Places
  <2>2. Cardinality(Places(s) \cup {Len(s) + 1}) = Cardinality(Places(s)) + 1
    BY <2>1, PlacesFinite, FS_AddElement
  <2>3. QED
    BY <1>2, <2>1, <2>2 DEF t
<1>3. CASE m.op \notin Replies
  <2>1. Places(t) = Places(s)
    BY <1>1, <1>3 DEF Places
  <2>2. QED
    BY <1>3, <2>1 DEF t
<1>4. QED
  BY <1>2, <1>3

LEMMA PlacesDropped ==
    ASSUME NEW S, NEW s \in Seq(S), s # <<>>
    PROVE  Cardinality(Places(Tail(s))) =
             IF Head(s).op \in Replies THEN Cardinality(Places(s)) - 1 ELSE Cardinality(Places(s))
<1> DEFINE t == Tail(s)
<1>1. /\ t \in Seq(S) /\ Len(s) \in Nat /\ Len(t) = Len(s) - 1 /\ Head(s) = s[1] /\ 1 \in 1..Len(s)
      /\ \A i \in 1..Len(t) : t[i] = s[i + 1]
  BY Dropped
<1> HIDE DEF t
<1> DEFINE P == Places(t)
           Q == Places(s) \ {1}
           F == [i \in P |-> i + 1]
<1>2. \A i \in P : i \in Nat /\ i + 1 \in Q
  BY <1>1 DEF Places
<1>3. \A j \in Q : j - 1 \in P /\ (j - 1) + 1 = j
  BY <1>1 DEF Places
<1>4. F \in [P -> Q] /\ \A a, b \in P : F[a] = F[b] => a = b
  <2> HIDE DEF P, Q
  <2> QED
    BY <1>2
<1>5. \A j \in Q : \E i \in P : F[i] = j
  <2> HIDE DEF P, Q
  <2> QED
    BY <1>3
<1>6. F \in Bijection(P, Q)
  <2> HIDE DEF P, Q, F
  <2> QED
    BY <1>4, <1>5, Fun_IsBij
<1>7. ExistsBijection(P, Q)
  <2> HIDE DEF P, Q, F
  <2> QED
    BY <1>6 DEF ExistsBijection
<1>8. Cardinality(P) = Cardinality(Q)
  <2>1. IsFiniteSet(P)
    BY <1>1, PlacesFinite
  <2> HIDE DEF P, Q
  <2>2. QED
    BY <1>7, <2>1, FS_Bijection
<1>9. Cardinality(Q) = IF 1 \in Places(s) THEN Cardinality(Places(s)) - 1 ELSE Cardinality(Places(s))
  BY PlacesFinite, FS_RemoveElement
<1>10. 1 \in Places(s) <=> Head(s).op \in Replies
  BY <1>1 DEF Places
<1>11. QED
  BY <1>8, <1>9, <1>10 DEF t

\* How deep the stack is, and so what can be asked about.
CommandsReach(s) == \A i \in 1..Len(s) : s[i].op = "frame" => s[i].tag \in 0..MaxDepth

DepthInv ==
    /\ frames \subseteq 0..MaxDepth /\ frameId \in 0..MaxDepth /\ selected \in 0..MaxDepth
    /\ Len(stack) <= MaxDepth
    /\ CommandsReach(cmds)
    /\ \A i \in 1..Len(msgs) : Len(msgs[i].stack) <= MaxDepth

\* Whoever is answered has asked, and what was reported has happened.
CountInv ==
    /\ issued \in 0..MaxRequests /\ stops \in 0..MaxStops
    /\ open \in Int /\ lost \in Nat /\ open + lost <= issued
    /\ Cardinality(Places(cmds)) + Cardinality(Places(msgs)) <= open
    /\ Len(reported) + (IF NoStops THEN 0 ELSE 1) <= stops
    /\ first \in BOOLEAN /\ closed \in BOOLEAN


LEMMA CommandPut ==
    ASSUME NEW s \in Seq(Cmds), CommandsReach(s), NEW c \in Cmds, c.op = "frame" => c.tag \in 0..MaxDepth
    PROVE  CommandsReach(Append(s, c))
<1>1. /\ Append(s, c)[Len(s) + 1] = c
      /\ \A i \in 1..Len(s) : Append(s, c)[i] = s[i]
      /\ \A i \in 1..Len(Append(s, c)) : i \in 1..Len(s) \/ i = Len(s) + 1
  BY Appended
<1>2. QED
  BY <1>1 DEF CommandsReach

\* What is sent is put behind the other commands, or lost.
LEMMA SentCounts ==
    ASSUME Shape, DepthInv,
           NEW op \in Resumes \cup {"where", "locals", "eval", "quit"}, NEW tag \in Nat, Send(Cmd(op, tag))
    PROVE  /\ CommandsReach(cmds')
           /\ Cardinality(Places(cmds)) \in Nat
           /\ Cardinality(Places(cmds')) <=
                IF op \in Replies THEN Cardinality(Places(cmds)) + 1 ELSE Cardinality(Places(cmds))
<1>1. cmds \in Seq(Cmds) /\ Cardinality(Places(cmds)) \in Nat
  BY PlacesFinite DEF Shape
<1>2. CommandsReach(cmds)
  BY DEF DepthInv
<1>3. CASE cmds' = cmds
  BY <1>1, <1>2, <1>3
<1>4. CASE cmds' = cmds \o Cmd(op, tag)
  <2>1. PICK c : c = [op |-> op, tag |-> tag]
    OBVIOUS
  <2>2. c \in Cmds /\ c.op = op /\ c.op # "frame"
    BY <2>1 DEF Cmds, Resumes
  <2>3. cmds' = Append(cmds, c)
    <3>1. Append(cmds, c) = cmds \o <<c>>
      BY <1>1, <2>2, AppendIsConcat
    <3>2. QED
      BY <1>4, <2>1, <3>1 DEF Cmd
  <2>4. CommandsReach(cmds')
    BY <1>1, <1>2, <2>2, <2>3, CommandPut
  <2>5. Cardinality(Places(cmds')) = IF op \in Replies THEN Cardinality(Places(cmds)) + 1
                                                       ELSE Cardinality(Places(cmds))
    BY <1>1, <2>2, <2>3, PlacesAdded
  <2>6. QED
    BY <1>1, <2>4, <2>5
<1>5. QED
  BY <1>3, <1>4 DEF Send

\* A frame that is selected before its variables are asked for.
LEMMA SentBothCounts ==
    ASSUME Shape, DepthInv, NEW f \in frames, Send(Cmd("frame", f) \o Cmd("locals", f))
    PROVE  /\ CommandsReach(cmds')
           /\ Cardinality(Places(cmds)) \in Nat
           /\ Cardinality(Places(cmds')) <= Cardinality(Places(cmds)) + 1
<1>1. cmds \in Seq(Cmds) /\ Cardinality(Places(cmds)) \in Nat
  BY PlacesFinite DEF Shape
<1>2. CommandsReach(cmds) /\ f \in 0..MaxDepth /\ f \in Nat
  BY BoundAssumption DEF DepthInv
<1>3. CASE cmds' = cmds
  BY <1>1, <1>2, <1>3
<1>4. CASE cmds' = cmds \o (Cmd("frame", f) \o Cmd("locals", f))
  <2>1. PICK c : c = [op |-> "frame", tag |-> f]
    OBVIOUS
  <2>2. PICK d : d = [op |-> "locals", tag |-> f]
    OBVIOUS
  <2>3. /\ c \in Cmds /\ c.tag \in 0..MaxDepth /\ c.op = "frame" /\ c.op \notin Replies
        /\ d \in Cmds /\ d.op = "locals" /\ d.op \in Replies
    BY <1>2, <2>1, <2>2, BoundAssumption DEF Cmds, Replies
  <2>4. cmds' = cmds \o (<<c>> \o <<d>>)
    BY <1>4, <2>1, <2>2 DEF Cmd
  <2>5. cmds' = Append(Append(cmds, c), d)
    BY <1>1, <2>3, <2>4, AppendIsConcat, ConcatAssociative
  <2>6. PICK s : s = Append(cmds, c)
    OBVIOUS
  <2>7. s \in Seq(Cmds) /\ CommandsReach(s) /\ Cardinality(Places(s)) = Cardinality(Places(cmds))
    BY <1>1, <1>2, <2>3, <2>6, Appended, CommandPut, PlacesAdded
  <2>8. cmds' = Append(s, d)
    BY <2>5, <2>6
  <2>9. CommandsReach(cmds')
    BY <2>3, <2>7, <2>8, CommandPut
  <2>10. Cardinality(Places(cmds')) = Cardinality(Places(s)) + 1
    BY <2>3, <2>7, <2>8, PlacesAdded
  <2>11. QED
    BY <1>1, <2>7, <2>9, <2>10
<1>5. QED
  BY <1>3, <1>4 DEF Send

\* The command that is taken.
LEMMA TakenCounts ==
    ASSUME Shape, DepthInv, cmds # <<>>, cmds' = Tail(cmds)
    PROVE  /\ CommandsReach(cmds') /\ Head(cmds) \in Cmds
           /\ Head(cmds).op = "frame" => Head(cmds).tag \in 0..MaxDepth
           /\ Cardinality(Places(cmds)) \in Nat
           /\ Cardinality(Places(cmds')) =
                IF Head(cmds).op \in Replies THEN Cardinality(Places(cmds)) - 1 ELSE Cardinality(Places(cmds))
<1>1. cmds \in Seq(Cmds) /\ Cardinality(Places(cmds)) \in Nat
  BY PlacesFinite DEF Shape
<1>2. /\ Head(cmds) \in Cmds /\ Head(cmds) = cmds[1] /\ 1 \in 1..Len(cmds)
      /\ \A i \in 1..Len(cmds') : i + 1 \in 1..Len(cmds) /\ cmds'[i] = cmds[i + 1]
  BY <1>1, Dropped
<1>3. CommandsReach(cmds') /\ (Head(cmds).op = "frame" => Head(cmds).tag \in 0..MaxDepth)
  BY <1>2 DEF DepthInv, CommandsReach
<1>4. QED
  BY <1>1, <1>2, <1>3, PlacesDropped

\* The message that is handled.
LEMMA HandledCounts ==
    ASSUME Shape, DepthInv, NEW ops, Receive(ops)
    PROVE  /\ \A i \in 1..Len(msgs') : Len(msgs'[i].stack) <= MaxDepth
           /\ Head(msgs) \in Msgs /\ Head(msgs).op \in ops /\ Len(Head(msgs).stack) <= MaxDepth
           /\ Cardinality(Places(msgs)) \in Nat
           /\ Cardinality(Places(msgs')) =
                IF Head(msgs).op \in Replies THEN Cardinality(Places(msgs)) - 1 ELSE Cardinality(Places(msgs))
<1>1. msgs \in Seq(Msgs) /\ Cardinality(Places(msgs)) \in Nat
  BY PlacesFinite DEF Shape
<1>2. msgs # <<>> /\ msgs' = Tail(msgs) /\ Head(msgs).op \in ops
  BY DEF Receive
<1>3. /\ Head(msgs) \in Msgs /\ Head(msgs) = msgs[1] /\ 1 \in 1..Len(msgs)
      /\ \A i \in 1..Len(msgs') : i + 1 \in 1..Len(msgs) /\ msgs'[i] = msgs[i + 1]
  BY <1>1, <1>2, Dropped
<1>4. /\ \A i \in 1..Len(msgs') : Len(msgs'[i].stack) <= MaxDepth
      /\ Len(Head(msgs).stack) <= MaxDepth
  BY <1>3 DEF DepthInv
<1>5. QED
  BY <1>1, <1>2, <1>3, <1>4, PlacesDropped

\* A message that is sent.
LEMMA EmittedCounts ==
    ASSUME Shape, DepthInv, NEW m \in Msgs, Len(m.stack) <= MaxDepth, msgs' = Append(msgs, m)
    PROVE  /\ \A i \in 1..Len(msgs') : Len(msgs'[i].stack) <= MaxDepth
           /\ Cardinality(Places(msgs)) \in Nat
           /\ Cardinality(Places(msgs')) =
                IF m.op \in Replies THEN Cardinality(Places(msgs)) + 1 ELSE Cardinality(Places(msgs))
<1>1. msgs \in Seq(Msgs) /\ Cardinality(Places(msgs)) \in Nat
  BY PlacesFinite DEF Shape
<1>2. /\ msgs'[Len(msgs) + 1] = m
      /\ \A i \in 1..Len(msgs) : msgs'[i] = msgs[i]
      /\ \A i \in 1..Len(msgs') : i \in 1..Len(msgs) \/ i = Len(msgs) + 1
  BY <1>1, Appended
<1>3. \A i \in 1..Len(msgs') : Len(msgs'[i].stack) <= MaxDepth
  BY <1>2 DEF DepthInv
<1>4. QED
  BY <1>1, <1>3, PlacesAdded

LEMMA CountTypes ==
    ASSUME ControlInv, CountInv
    PROVE  /\ Shape /\ Len(reported) \in Nat /\ stops \in Nat /\ issued \in Nat
           /\ MaxDepth \in Nat /\ MaxStops \in Nat /\ MaxRequests \in Nat
BY LenProperties, BoundAssumption DEF ControlInv, Shape, CountInv

\* The client does something else than ask.
LEMMA ClientMoveCounts ==
    ASSUME ControlInv, DepthInv, CountInv, ConfigurationDone \/ Resume \/ Disconnect
    PROVE  DepthInv' /\ CountInv'
<1>1. /\ UNCHANGED <<adapterVars, open, lost, issued, reported, msgs, debuggerVars>>
      /\ frames' = frames \/ frames' = {}
  BY DEF ConfigurationDone, Resume, Disconnect
<1>2. CommandsReach(cmds') /\ Cardinality(Places(cmds')) <= Cardinality(Places(cmds))
      /\ Cardinality(Places(cmds)) \in Nat
  <2>1. ASSUME NEW op \in {"start", "go", "quit"}, Send(Cmd(op, 0))
        PROVE  CommandsReach(cmds') /\ Cardinality(Places(cmds')) <= Cardinality(Places(cmds))
    <3>1. op \in Resumes \cup {"where", "locals", "eval", "quit"} /\ op \notin Replies
      BY <2>1 DEF Resumes, Replies
    <3>2. QED
      BY <2>1, <3>1, SentCounts, CountTypes
  <2>2. ASSUME UNCHANGED cmds
        PROVE  CommandsReach(cmds') /\ Cardinality(Places(cmds')) <= Cardinality(Places(cmds))
    BY <2>2, PlacesFinite, CountTypes DEF DepthInv, Shape
  <2>3. Cardinality(Places(cmds)) \in Nat
    BY PlacesFinite, CountTypes DEF Shape
  <2>4. QED
    BY <2>1, <2>2, <2>3 DEF ConfigurationDone, Resume, Disconnect
<1>3. DepthInv'
  BY <1>1, <1>2 DEF DepthInv, adapterVars, debuggerVars
<1>4. Places(msgs') = Places(msgs) /\ (NoStops' <=> NoStops)
  BY <1>1 DEF Places, NoStops, IsStop
<1>5. Cardinality(Places(cmds')) \in Nat /\ Cardinality(Places(msgs)) \in Nat
  <2>1. ControlInv'
    BY ConfigurationDoneKeepsControl, ResumeKeepsControl, DisconnectKeepsControl
  <2>2. cmds' \in Seq(Cmds) /\ msgs \in Seq(Msgs)
    BY <2>1 DEF ControlInv, Shape
  <2>3. QED
    BY <2>2, PlacesFinite
<1>6. Cardinality(Places(cmds')) + Cardinality(Places(msgs')) <= open'
  BY <1>1, <1>2, <1>4, <1>5 DEF CountInv
<1>7. QED
  BY <1>1, <1>3, <1>4, <1>6 DEF CountInv, adapterVars, debuggerVars

\* A request asks one question.
LEMMA AskingCounts ==
    ASSUME ControlInv, DepthInv, CountInv, StackTrace \/ Evaluate \/ (\E f \in frames : Scopes(f))
    PROVE  DepthInv' /\ CountInv'
<1>1. Ask /\ (frameId' = frameId \/ frameId' \in frames)
  BY DEF StackTrace, Evaluate, Scopes
<1>2. /\ issued < MaxRequests /\ open' = open + 1 /\ issued' = issued + 1
      /\ UNCHANGED <<first, closed, frames, lost, reported, msgs, debuggerVars>>
  BY <1>1 DEF Ask
<1>3. /\ CommandsReach(cmds') /\ Cardinality(Places(cmds)) \in Nat
      /\ Cardinality(Places(cmds')) <= Cardinality(Places(cmds)) + 1
  <2>1. ASSUME NEW op \in {"where", "locals", "eval"}, NEW tag \in Nat, Send(Cmd(op, tag))
        PROVE  /\ CommandsReach(cmds') /\ Cardinality(Places(cmds)) \in Nat
               /\ Cardinality(Places(cmds')) <= Cardinality(Places(cmds)) + 1
    <3>1. op \in Resumes \cup {"where", "locals", "eval", "quit"} /\ op \in Replies
      BY <2>1 DEF Replies
    <3>2. QED
      BY <2>1, <3>1, SentCounts, CountTypes
  <2>2. CASE StackTrace
    BY <2>1, <2>2, CountTypes DEF StackTrace
  <2>3. CASE Evaluate
    BY <2>1, <2>3 DEF Evaluate
  <2>4. ASSUME NEW f \in frames, Scopes(f)
        PROVE  /\ CommandsReach(cmds') /\ Cardinality(Places(cmds)) \in Nat
               /\ Cardinality(Places(cmds')) <= Cardinality(Places(cmds)) + 1
    <3>1. f \in Nat
      BY CountTypes DEF Shape
    <3>2. CASE Send(Cmd("locals", f))
      BY <2>1, <3>1, <3>2
    <3>3. CASE Send(Cmd("frame", f) \o Cmd("locals", f))
      BY <3>3, SentBothCounts, CountTypes
    <3>4. QED
      BY <2>4, <3>2, <3>3 DEF Scopes
  <2>5. QED
    BY <2>2, <2>3, <2>4
<1>4. DepthInv'
  <2>1. frameId \in 0..MaxDepth /\ frames \subseteq 0..MaxDepth
    BY DEF DepthInv
  <2>2. frameId' \in 0..MaxDepth
    BY <1>1, <2>1
  <2>3. QED
    BY <1>2, <1>3, <2>2 DEF DepthInv, debuggerVars
<1>5. Places(msgs') = Places(msgs) /\ (NoStops' <=> NoStops)
  BY <1>2 DEF Places, NoStops, IsStop
<1>6. Cardinality(Places(cmds')) \in Nat /\ Cardinality(Places(msgs)) \in Nat
  <2>1. cmds' \in Seq(Cmds) /\ msgs \in Seq(Msgs)
    BY AskingKeepsControl DEF ControlInv, Shape
  <2>2. QED
    BY <2>1, PlacesFinite
<1>7. /\ Cardinality(Places(cmds')) + Cardinality(Places(msgs')) <= open'
      /\ issued' \in 0..MaxRequests /\ open' \in Int /\ lost' \in Nat /\ open' + lost' <= issued'
  <2>1. /\ Cardinality(Places(cmds)) + Cardinality(Places(msgs)) <= open
        /\ open \in Int /\ lost \in Nat /\ open + lost <= issued /\ issued \in Nat /\ MaxRequests \in Nat
    BY CountTypes DEF CountInv
  <2>2. open' = open + 1 /\ issued' = issued + 1 /\ issued < MaxRequests /\ lost' = lost
    BY <1>2
  <2>3. Cardinality(Places(cmds')) + Cardinality(Places(msgs')) <= open'
    BY <1>3, <1>5, <1>6, <2>1, <2>2
  <2>4. QED
    BY <2>1, <2>2, <2>3
<1>8. QED
  BY <1>2, <1>4, <1>5, <1>7 DEF CountInv, debuggerVars

\* A stop is reported at most once.
LEMMA StopCounts ==
    ASSUME ControlInv, DepthInv, CountInv, Suspended \/ Breakpoint
    PROVE  DepthInv' /\ CountInv'
<1>1. PICK ops : Receive(ops) /\ ops \subseteq StopEvents
  BY DEF Suspended, Breakpoint, StopEvents
<1>2. /\ UNCHANGED <<frameId, closed, frames, open, lost, issued, debuggerVars>>
      /\ first' \in BOOLEAN
  BY <1>1 DEF Suspended, Breakpoint, Receive, adapterVars, CountInv
<1>3. /\ NoStops' /\ ~NoStops
      /\ \A i \in 1..Len(msgs') : Len(msgs'[i].stack) <= MaxDepth
      /\ Cardinality(Places(msgs)) \in Nat
      /\ Cardinality(Places(msgs')) = Cardinality(Places(msgs))
  <2>1. Head(msgs).op \in StopEvents
    BY <1>1, HandledCounts, CountTypes
  <2>2. Head(msgs).op \notin Replies
    BY <2>1 DEF StopEvents, Replies
  <2>3. NoStops' /\ ~NoStops
    BY <1>1, <2>1, Received DEF ControlInv
  <2>4. QED
    BY <1>1, <2>2, <2>3, HandledCounts, CountTypes
<1>4. /\ CommandsReach(cmds') /\ Cardinality(Places(cmds)) \in Nat
      /\ Cardinality(Places(cmds')) <= Cardinality(Places(cmds))
  <2>1. ASSUME NEW op \in {"step", "finish"}, Send(Cmd(op, 0))
        PROVE  CommandsReach(cmds') /\ Cardinality(Places(cmds')) <= Cardinality(Places(cmds))
    <3>1. op \in Resumes \cup {"where", "locals", "eval", "quit"} /\ op \notin Replies
      BY <2>1 DEF Resumes, Replies
    <3>2. QED
      BY <2>1, <3>1, SentCounts, CountTypes
  <2>2. Cardinality(Places(cmds)) \in Nat
    BY PlacesFinite, CountTypes DEF Shape
  <2>3. CASE UNCHANGED cmds
    BY <2>2, <2>3 DEF DepthInv
  <2>4. QED
    BY <2>1, <2>2, <2>3 DEF Suspended, Breakpoint, OnSuspended
<1>5. Len(reported') = Len(reported) \/ Len(reported') = Len(reported) + 1
  <2>1. ASSUME NEW reason \in {"entry", "step", "breakpoint"}, Report(reason)
        PROVE  Len(reported') = Len(reported) + 1
    <3>1. PICK x : x = [reason |-> reason, event |-> Head(msgs).op, file |-> Head(msgs).stack[1]]
      OBVIOUS
    <3>2. x \in Reports
      <4>1. Head(msgs) \in Msgs /\ Head(msgs).op \in StopEvents
        BY <1>1, HandledCounts, CountTypes
      <4>2. QED
        BY <3>1, <4>1, MsgFields DEF Reports
    <3>3. reported' = Append(reported, x) /\ reported \in Seq(Reports)
      BY <2>1, <3>1, CountTypes DEF Report, Shape
    <3>4. QED
      BY <3>2, <3>3, Appended
  <2>2. CASE reported' = reported
    BY <2>2
  <2>3. QED
    BY <2>1, <2>2 DEF Suspended, Breakpoint, OnSuspended
<1>6. DepthInv'
  BY <1>2, <1>3, <1>4 DEF DepthInv, debuggerVars
<1>7. Cardinality(Places(cmds')) \in Nat
  <2>1. cmds' \in Seq(Cmds)
    BY SuspendedKeepsControl, BreakpointKeepsControl DEF ControlInv, Shape
  <2>2. QED
    BY <2>1, PlacesFinite
<1>8. Cardinality(Places(cmds')) + Cardinality(Places(msgs')) <= open'
  BY <1>2, <1>3, <1>4, <1>7 DEF CountInv
<1>9. Len(reported') + (IF NoStops' THEN 0 ELSE 1) <= stops'
  BY <1>2, <1>3, <1>5, CountTypes DEF CountInv, debuggerVars
<1>10. QED
  BY <1>2, <1>6, <1>8, <1>9 DEF CountInv, debuggerVars

\* An answer is that of a question; the end is the answer to none.
LEMMA AnsweredCounts ==
    ASSUME ControlInv, DepthInv, CountInv, WhereReply \/ ValueReply \/ Ended
    PROVE  DepthInv' /\ CountInv'
<1>1. PICK ops : Receive(ops) /\ ops \cap StopEvents = {} /\ (ops \subseteq Replies \/ Ended)
  <2>1. Replies \cap StopEvents = {} /\ {"end"} \cap StopEvents = {}
        /\ {"where"} \subseteq Replies /\ {"locals", "eval"} \subseteq Replies
    BY DEF Replies, StopEvents
  <2>2. QED
    BY <2>1 DEF WhereReply, ValueReply, Ended
<1>2. /\ UNCHANGED <<first, reported, cmds, issued, debuggerVars>>
      /\ closed' = closed \/ closed' = TRUE
      /\ \/ open' = open /\ lost' = lost
         \/ open' = open - 1 /\ lost' \in {lost, lost + 1} /\ ~Ended
  <2>1. CASE WhereReply
    <3>1. ~Ended
      BY <2>1 DEF WhereReply, Ended, Receive
    <3>2. QED
      BY <2>1, <3>1 DEF WhereReply, Receive
  <2>2. CASE ValueReply
    <3>1. ~Ended
      BY <2>2 DEF ValueReply, Ended, Receive
    <3>2. QED
      BY <2>2, <3>1 DEF ValueReply, Receive, adapterVars
  <2>3. CASE Ended
    BY <2>3 DEF Ended, Receive
  <2>4. QED
    BY <2>1, <2>2, <2>3
<1>3. /\ \A i \in 1..Len(msgs') : Len(msgs'[i].stack) <= MaxDepth
      /\ Head(msgs) \in Msgs /\ Head(msgs).op \in ops /\ Len(Head(msgs).stack) <= MaxDepth
      /\ Cardinality(Places(msgs)) \in Nat
      /\ Cardinality(Places(msgs')) =
           IF Head(msgs).op \in Replies THEN Cardinality(Places(msgs)) - 1 ELSE Cardinality(Places(msgs))
  BY <1>1, HandledCounts, CountTypes
<1>4. NoStops' <=> NoStops
  <2>1. Head(msgs).op \notin StopEvents
    BY <1>1, <1>3
  <2>2. QED
    BY <1>1, <2>1, Received DEF ControlInv
<1>5. Shown(Head(msgs).stack) \subseteq 0..MaxDepth /\ Offered(Head(msgs).stack) \subseteq 0..MaxDepth
  <2>1. Len(Head(msgs).stack) \in Nat
    BY <1>3, MsgFields, LenProperties
  <2>2. MaxDepth \in Nat /\ Len(Head(msgs).stack) <= MaxDepth
    BY <1>3, CountTypes
  <2>3. Shown(Head(msgs).stack) \subseteq 0..MaxDepth
    BY <2>1, <2>2 DEF Shown
  <2>4. QED
    BY <2>2, <2>3 DEF Offered
<1>6. /\ frameId' = frameId \/ frameId' \in Shown(Head(msgs).stack)
      /\ frames' = frames \/ frames' = {} \/ frames' = Offered(Head(msgs).stack)
  BY DEF WhereReply, ValueReply, Ended, adapterVars
<1>7. DepthInv'
  <2>1. frameId \in 0..MaxDepth /\ frames \subseteq 0..MaxDepth
    BY DEF DepthInv
  <2>2. frameId' \in 0..MaxDepth /\ frames' \subseteq 0..MaxDepth
    BY <1>5, <1>6, <2>1
  <2>3. QED
    BY <1>2, <1>3, <2>2 DEF DepthInv, debuggerVars
<1>8. Cardinality(Places(cmds)) \in Nat /\ Places(cmds') = Places(cmds)
  BY <1>2, PlacesFinite, CountTypes DEF Shape, Places
<1>9. /\ Cardinality(Places(cmds')) + Cardinality(Places(msgs')) <= open'
      /\ open' \in Int /\ lost' \in Nat /\ open' + lost' <= issued'
  <2>1. /\ Cardinality(Places(cmds)) + Cardinality(Places(msgs)) <= open
        /\ open \in Int /\ lost \in Nat /\ open + lost <= issued /\ issued \in Nat
    BY CountTypes DEF CountInv
  <2>2. Cardinality(Places(cmds')) = Cardinality(Places(cmds))
    BY <1>8
  <2>3. CASE Head(msgs).op \in Replies
    <3>1. Cardinality(Places(msgs')) = Cardinality(Places(msgs)) - 1
      BY <1>3, <2>3
    <3>2. /\ issued' = issued
          /\ \/ open' = open /\ lost' = lost
             \/ open' = open - 1 /\ lost' \in {lost, lost + 1}
      BY <1>2
    <3>3. QED
      BY <1>3, <1>8, <2>1, <2>2, <3>1, <3>2
  <2>4. CASE Head(msgs).op \notin Replies
    <3>1. Cardinality(Places(msgs')) = Cardinality(Places(msgs))
      BY <1>3, <2>4
    <3>2. open' = open /\ lost' = lost /\ issued' = issued
      BY <1>1, <1>2, <1>3, <2>4
    <3>3. QED
      BY <2>1, <2>2, <3>1, <3>2
  <2>5. QED
    BY <2>3, <2>4
<1>10. QED
  BY <1>2, <1>4, <1>7, <1>9 DEF CountInv, debuggerVars

\* The program stops.
LEMMA HaltCounts ==
    ASSUME ControlInv, DepthInv, CountInv, Halt
    PROVE  DepthInv' /\ CountInv'
<1>1. PICK files \in Stacks, event \in StopEvents :
         stack' = files /\ Emit(event, 0, 1, <<files[1]>>)
  BY DEF Halt, StopEvents
<1>2. /\ run = "running" /\ stops < MaxStops /\ selected' = 1 /\ stops' = stops + 1
      /\ UNCHANGED <<adapterVars, clientVars, cmds>>
  BY DEF Halt
<1>3. PICK n \in 1..MaxDepth : files \in [1..n -> Files]
  BY DEF Stacks
<1>4. n \in Nat /\ 1 <= MaxDepth /\ MaxDepth \in Nat /\ Len(files) = n /\ n <= MaxDepth /\ files[1] \in Files
  <2>1. n \in Nat /\ 1 \in 1..n /\ 1 <= n /\ n <= MaxDepth /\ MaxDepth \in Nat
    BY <1>3, CountTypes
  <2>2. files \in Seq(Files) /\ Len(files) = n
    BY <1>3, <2>1, SeqDef, LenProperties
  <2>3. QED
    BY <1>3, <2>1, <2>2
<1>5. PICK m : m = [op |-> event, tag |-> 0, frame |-> 1, stack |-> <<files[1]>>]
  OBVIOUS
<1>6. /\ m \in Msgs /\ m.op \in StopEvents /\ m.op \notin Replies /\ Len(m.stack) = 1
      /\ msgs' = Append(msgs, m)
  <2>1. <<files[1]>> \in [1..1 -> Files] /\ Len(<<files[1]>>) = 1
    BY <1>4
  <2>2. \A op \in StopEvents : op \notin Replies
    BY DEF StopEvents, Replies
  <2>3. QED
    BY <1>1, <1>5, <2>1, <2>2 DEF Msgs, Emit
<1>7. /\ \A i \in 1..Len(msgs') : Len(msgs'[i].stack) <= MaxDepth
      /\ Cardinality(Places(msgs)) \in Nat
      /\ Cardinality(Places(msgs')) = Cardinality(Places(msgs))
  BY <1>4, <1>6, EmittedCounts, CountTypes
<1>8. NoStops /\ ~NoStops'
  BY <1>2, <1>6, Emitted, CountTypes DEF ControlInv, InControl
<1>9. DepthInv'
  <2>1. 1 \in 0..MaxDepth /\ Len(stack') <= MaxDepth
    BY <1>1, <1>4
  <2>2. QED
    BY <1>2, <1>7, <2>1 DEF DepthInv, adapterVars, clientVars
<1>10. /\ Cardinality(Places(cmds')) + Cardinality(Places(msgs')) <= open'
       /\ stops' \in 0..MaxStops /\ Len(reported') + 1 <= stops'
  BY <1>2, <1>7, <1>8, CountTypes DEF CountInv, clientVars
<1>11. QED
  BY <1>2, <1>8, <1>9, <1>10 DEF CountInv, adapterVars, clientVars

\* The program or the debugger ends.
LEMMA ExitCounts ==
    ASSUME ControlInv, DepthInv, CountInv, Exit
    PROVE  DepthInv' /\ CountInv'
<1>1. /\ cmds' = <<>> /\ Emit("end", 0, 0, <<>>)
      /\ UNCHANGED <<adapterVars, clientVars, stack, selected, stops>>
  BY DEF Exit
<1>2. PICK m : m = [op |-> "end", tag |-> 0, frame |-> 0, stack |-> <<>>]
  OBVIOUS
<1>3. /\ m \in Msgs /\ m.op \notin StopEvents /\ m.op \notin Replies /\ Len(m.stack) <= MaxDepth
      /\ msgs' = Append(msgs, m)
  <2>1. <<>> \in Seq(Files) /\ Len(<<>>) = 0
    BY EmptySeq
  <2>2. QED
    BY <1>1, <1>2, <2>1, CountTypes DEF Msgs, Emit, StopEvents, Replies
<1>4. /\ \A i \in 1..Len(msgs') : Len(msgs'[i].stack) <= MaxDepth
      /\ Cardinality(Places(msgs)) \in Nat
      /\ Cardinality(Places(msgs')) = Cardinality(Places(msgs))
  BY <1>3, EmittedCounts, CountTypes
<1>5. NoStops' <=> NoStops
  BY <1>3, Emitted, CountTypes
<1>6. Cardinality(Places(cmds')) = 0 /\ CommandsReach(cmds') /\ Cardinality(Places(cmds)) \in Nat
  <2>1. Places(cmds') = {} /\ CommandsReach(cmds')
    BY <1>1, EmptySeq DEF Places, CommandsReach
  <2>2. QED
    BY <2>1, PlacesFinite, FS_EmptySet, CountTypes DEF Shape
<1>7. DepthInv'
  BY <1>1, <1>4, <1>6 DEF DepthInv, adapterVars, clientVars
<1>8. Cardinality(Places(cmds')) + Cardinality(Places(msgs')) <= open'
  BY <1>1, <1>4, <1>6 DEF CountInv, clientVars
<1>9. QED
  BY <1>1, <1>5, <1>7, <1>8 DEF CountInv, adapterVars, clientVars

\* A question that is taken is answered; other commands are carried out.
LEMMA ServedCounts ==
    ASSUME ControlInv, DepthInv, CountInv, GoOn \/ SelectFrame \/ Answer
    PROVE  DepthInv' /\ CountInv'
<1>1. /\ cmds # <<>> /\ cmds' = Tail(cmds)
      /\ UNCHANGED <<adapterVars, clientVars, stack, stops>>
  BY DEF GoOn, SelectFrame, Answer, Take
<1>2. /\ CommandsReach(cmds') /\ Head(cmds) \in Cmds
      /\ Head(cmds).op = "frame" => Head(cmds).tag \in 0..MaxDepth
      /\ Cardinality(Places(cmds)) \in Nat
      /\ Cardinality(Places(cmds')) =
           IF Head(cmds).op \in Replies THEN Cardinality(Places(cmds)) - 1 ELSE Cardinality(Places(cmds))
  BY <1>1, TakenCounts, CountTypes
<1>3. Cardinality(Places(msgs)) \in Nat
  BY PlacesFinite, CountTypes DEF Shape
<1>4. /\ \A i \in 1..Len(msgs') : Len(msgs'[i].stack) <= MaxDepth
      /\ NoStops' <=> NoStops
      /\ selected' \in 0..MaxDepth
      /\ Cardinality(Places(cmds')) + Cardinality(Places(msgs')) = Cardinality(Places(cmds)) + Cardinality(Places(msgs))
  <2>1. CASE GoOn \/ SelectFrame
    <3>1. Head(cmds).op \in Resumes \cup {"frame"} /\ msgs' = msgs
          /\ selected' \in {selected, Head(cmds).tag} \cup 1..Len(stack)
          /\ (Head(cmds).op # "frame" => selected' = selected)
      BY <2>1 DEF GoOn, SelectFrame, Take
    <3>4. 1..Len(stack) \subseteq 0..MaxDepth
      BY CountTypes, LenProperties DEF DepthInv, Shape
    <3>2. Head(cmds).op \notin Replies
      BY <3>1 DEF Resumes, Replies
    <3>3. QED
      BY <1>2, <1>3, <3>1, <3>2, <3>4 DEF DepthInv, NoStops, IsStop
  <2>2. CASE Answer
    <3>1. /\ selected' = selected /\ Head(cmds).op \in Replies
          /\ \E files \in {<<>>, stack} : Emit(Head(cmds).op, Head(cmds).tag, selected, files)
      BY <2>2 DEF Answer, Take, Replies
    <3>2. PICK files \in {<<>>, stack} : Emit(Head(cmds).op, Head(cmds).tag, selected, files)
      BY <3>1
    <3>3. PICK m : m = [op |-> Head(cmds).op, tag |-> Head(cmds).tag, frame |-> selected, stack |-> files]
      OBVIOUS
    <3>4. files \in Seq(Files) /\ Len(files) <= MaxDepth
      <4>1. stack \in Seq(Files) /\ Len(stack) <= MaxDepth /\ MaxDepth \in Nat
        BY CountTypes DEF Shape, DepthInv
      <4>2. <<>> \in Seq(Files) /\ Len(<<>>) = 0
        BY EmptySeq
      <4>3. CASE files = stack
        BY <4>1, <4>3
      <4>4. CASE files = <<>>
        BY <4>1, <4>2, <4>4
      <4>5. QED
        BY <4>3, <4>4
    <3>5. /\ m \in Msgs /\ m.op \in Replies /\ m.op \notin StopEvents /\ Len(m.stack) <= MaxDepth
          /\ msgs' = Append(msgs, m)
      <4>1. Head(cmds).tag \in Nat /\ selected \in Nat
        BY <1>2, CountTypes DEF Cmds, Shape
      <4>2. Head(cmds).op \notin StopEvents
        BY <3>1 DEF Replies, StopEvents
      <4>3. QED
        BY <3>1, <3>2, <3>3, <3>4, <4>1, <4>2 DEF Msgs, Emit
    <3>6. /\ \A i \in 1..Len(msgs') : Len(msgs'[i].stack) <= MaxDepth
          /\ Cardinality(Places(msgs')) = Cardinality(Places(msgs)) + 1
      BY <3>5, EmittedCounts, CountTypes
    <3>7. NoStops' <=> NoStops
      BY <3>5, Emitted, CountTypes
    <3>8. QED
      BY <1>2, <1>3, <3>1, <3>6, <3>7 DEF DepthInv
  <2>3. QED
    BY <2>1, <2>2
<1>5. DepthInv'
  BY <1>1, <1>2, <1>4 DEF DepthInv, adapterVars, clientVars
<1>6. Cardinality(Places(cmds')) + Cardinality(Places(msgs')) <= open'
  BY <1>1, <1>4 DEF CountInv, clientVars
<1>7. QED
  BY <1>1, <1>4, <1>5, <1>6 DEF CountInv, adapterVars, clientVars

LEMMA CountStep ==
    ASSUME ControlInv, DepthInv, CountInv, [Next]_vars
    PROVE  DepthInv' /\ CountInv'
<1>1. CASE UNCHANGED vars
  BY <1>1 DEF vars, adapterVars, clientVars, debuggerVars, DepthInv, CountInv, Places, NoStops, IsStop,
     CommandsReach
<1>2. CASE Client
  BY <1>2, ClientMoveCounts, AskingCounts DEF Client
<1>3. CASE Handlers
  BY <1>3, StopCounts, AnsweredCounts DEF Handlers
<1>4. CASE Debugger
  BY <1>4, HaltCounts, ExitCounts, ServedCounts DEF Debugger, Finish, Quit
<1>5. QED
  BY <1>1, <1>2, <1>3, <1>4 DEF Next

LEMMA InvTypes ==
    ASSUME ControlInv, DepthInv, CountInv
    PROVE  TypeOK
<1>1. cmds \in Seq(Command)
  BY CountTypes DEF Shape, Cmds, Command
<1>2. \A i \in 1..Len(msgs) : msgs[i].op \in Replies \cup Events
  <2>1. \A i \in 1..Len(msgs) : msgs[i] \in Msgs
    BY CountTypes DEF Shape
  <2>2. StopEvents \cup {"end"} \subseteq Events
    BY DEF StopEvents, Events
  <2>3. QED
    BY <2>1, <2>2, MsgFields
<1>3. open \in 0..issued /\ lost \in 0..(issued - open)
  <2>1. Cardinality(Places(cmds)) \in Nat /\ Cardinality(Places(msgs)) \in Nat
    BY PlacesFinite, CountTypes DEF Shape
  <2>2. QED
    BY <2>1, CountTypes DEF CountInv
<1>4. Len(reported) <= stops
  BY CountTypes DEF CountInv
<1>5. QED
  BY <1>1, <1>2, <1>3, <1>4, CountTypes DEF TypeOK, CountInv, DepthInv, Shape

\* Every variable has its type: an answer is only ever sent to an open request,
\* and a stop is reported at most once (main.ts:175-191, 310-356, 425-433).
THEOREM TypeCorrect == Spec => []TypeOK
<1>1. Init => DepthInv /\ CountInv
  <2>1. SUFFICES ASSUME Init PROVE DepthInv /\ CountInv
    OBVIOUS
  <2>2. /\ cmds = <<>> /\ msgs = <<>> /\ reported = <<>> /\ stack = <<>> /\ frames = {}
        /\ selected = 0 /\ frameId = 0 /\ first = FALSE /\ closed = FALSE
        /\ open = 0 /\ lost = 0 /\ issued = 0 /\ stops = 0
    BY <2>1 DEF Init
  <2>3. /\ Places(cmds) = {} /\ Places(msgs) = {} /\ NoStops /\ CommandsReach(cmds)
        /\ Len(reported) = 0 /\ Len(stack) = 0 /\ Len(msgs) = 0
    BY <2>2, EmptySeq DEF Places, NoStops, CommandsReach
  <2>4. Cardinality(Places(cmds)) = 0 /\ Cardinality(Places(msgs)) = 0
    BY <2>3, FS_EmptySet
  <2>5. DepthInv
    BY <2>2, <2>3, BoundAssumption DEF DepthInv
  <2>6. CountInv
    <3>1. Cardinality(Places(cmds)) + Cardinality(Places(msgs)) <= open
      BY <2>2, <2>4
    <3>2. Len(reported) + (IF NoStops THEN 0 ELSE 1) <= stops
      BY <2>2, <2>3
    <3>3. first \in BOOLEAN /\ closed \in BOOLEAN
      BY <2>2
    <3>4. /\ issued \in 0..MaxRequests /\ stops \in 0..MaxStops
          /\ open \in Int /\ lost \in Nat /\ open + lost <= issued
      BY <2>2, BoundAssumption
    <3>5. QED
      BY <3>1, <3>2, <3>3, <3>4 DEF CountInv
  <2>7. QED
    BY <2>5, <2>6
<1>2. ControlInv /\ DepthInv /\ CountInv /\ [Next]_vars => DepthInv' /\ CountInv'
  BY CountStep
<1>3. ControlInv /\ DepthInv /\ CountInv => TypeOK
  BY InvTypes
<1>4. QED
  BY <1>1, <1>2, <1>3, ControlInvariant, PTL DEF Spec
=============================================================================
