------------------------------ MODULE Breakpoints ------------------------------
(***************************************************************************)
(* The setBreakpoints request of one source file                           *)
(* (packages/vscode-ruby-debugger/src/main.ts:217-278).  The client always *)
(* sends the whole list it wants; the handler compares its lines with the  *)
(* cache of the file, sends 'delete' and 'break' commands for the          *)
(* difference, and a continuation updates the cache when their replies are *)
(* in.  The handler works on a private copy of the cache in between.       *)
(*                                                                         *)
(* Commands travel on the connection of RubyProcess; that promises are     *)
(* resolved in issue order, each with the reply to its own command, is what*)
(* CommandChannel states and RubyProcess_proofs proves.  So commands and   *)
(* replies are FIFO queues here, and a reply names the promise it resolves:*)
(* the request, the array and the position in it.  It does not say which   *)
(* breakpoint it is about: ids and breakpoints are paired by the positions *)
(* in the arrays of results and of breakpointsToAdd, as in the code.       *)
(***************************************************************************)
EXTENDS Naturals, Sequences, FiniteSets

CONSTANTS
    Lines,        \* lines of the file a breakpoint may be set on
    Conditions,   \* conditions of breakpoints, one of them "no condition"
    MaxRequests,  \* bound on the requests of the client
    Refusing      \* TRUE: the debugger may answer 'break' with an error

ASSUME LinesAssumption   == Lines \subseteq Nat \ {0} /\ IsFiniteSet(Lines)
ASSUME RequestAssumption == MaxRequests \in Nat
ASSUME ChoiceAssumption  == Refusing \in BOOLEAN

VARIABLES
    cache,    \* _existingBreakpoints.get(key), the order of the array left out
    reqs,     \* the requests so far, each with the variables of its closures
    failed,   \* the console.asserts that have failed
    queue,    \* commands on their way to the debugger
    replies,  \* replies on their way back
    made,     \* what the debugger was told to break on; the index is the id
    armed,    \* ids of the breakpoints the debugger holds
    overlapped \* some request did not wait for the previous answer

vars == <<cache, reqs, failed, queue, replies, made, armed, overlapped>>

NaN == 0      \* the number an error reply is read as; equal to no id

Source == [line : Lines, condition : Conditions]        \* SourceBreakpoint
Cached == [line : Lines, condition : Conditions, id : Nat] \* CachedBreakpoint

Elements(array) == {array[i] : i \in 1..Len(array)}
Distinct(array) == \A i, j \in 1..Len(array) : array[i] = array[j] => i = j

\* The arrays that hold the elements of a finite set, in any order.
ArraysOf(S) ==
    {array \in [1..Cardinality(S) -> S] : Elements(array) = S /\ Distinct(array)}

LinesOf(bps) == {bp.line : bp \in bps}

\* The lists a client may ask for: at most one breakpoint on a line.
OnePerLine(bps) == \A a, b \in bps : a.line = b.line => a = b
Wanted == {bps \in SUBSET Source : IsFiniteSet(bps) /\ OnePerLine(bps)}

Asserts == {"removed", "line"}      \* main.ts:240 and main.ts:262

\* A resolved promise: its position in the array, and the number and the line
\* of the location in the reply.
Result == [at : Nat, no : Nat, line : Nat]

Request == [want     : Wanted,
            existing : SUBSET Cached,  \* existingBreakpoints of the closure
            remove   : Seq(Cached),    \* breakpointsToRemove
            add      : Seq(Source),    \* breakpointsToAdd
            deleted  : SUBSET Result,  \* the promises resolved of the removals
            added    : SUBSET Result,  \* and of the additions
            answers  : Nat,            \* responses sent
            body     : SUBSET Cached]  \* what the last of them reported

Init ==
    /\ cache = {} /\ reqs = <<>> /\ failed = {}
    /\ queue = <<>> /\ replies = <<>>
    /\ made = <<>> /\ armed = {} /\ overlapped = FALSE

-----------------------------------------------------------------------------
(* The adapter. *)

Removals(want) == {bp \in cache : bp.line \notin LinesOf(want)}

Additions(want) == {bp \in want : bp.line \notin LinesOf(cache)}

\* Mutant of Kept: the removed breakpoints stay in the cache.
KeptAll(want) == cache

Kept(want) == cache \ Removals(want)

\* One command for every element of an array, in the order of the array.
Commands(k, op, array) ==
    [i \in 1..Len(array) |-> [req |-> k, op |-> op, at |-> i, bp |-> array[i]]]

Answered(k) == reqs[k].answers > 0

SetBreakPoints(want, remove, add) ==
    LET k    == Len(reqs) + 1
        kept == Kept(want)
        done == remove = <<>> /\ add = <<>>
    IN
    /\ k <= MaxRequests
    /\ remove \in ArraysOf(Removals(want)) /\ add \in ArraysOf(Additions(want))
    /\ overlapped' = (overlapped \/ \E j \in 1..Len(reqs) : ~Answered(j))
    /\ cache' = kept
    /\ reqs' = Append(reqs,
          [want |-> want, existing |-> kept, remove |-> remove, add |-> add,
           deleted |-> {}, added |-> {},
           answers |-> IF done THEN 1 ELSE 0,
           body |-> IF done THEN kept ELSE {}])
    /\ queue' = queue \o Commands(k, "delete", remove) \o Commands(k, "break", add)
    /\ UNCHANGED <<failed, replies, made, armed>>

AnyRequest ==
    \E want \in Wanted :
        \E remove \in ArraysOf(Removals(want)), add \in ArraysOf(Additions(want)) :
            SetBreakPoints(want, remove, add)

\* The promises of the request that are resolved once reply r is in.
Resolved(q, r) ==
    LET result == [at |-> r.at, no |-> r.no, line |-> r.line] IN
    IF r.op = "delete"
    THEN [q EXCEPT !.deleted = @ \cup {result}]
    ELSE [q EXCEPT !.added   = @ \cup {result}]

Positions(results) == {r.at : r \in results}

RemovalsDone(q)  == Positions(q.deleted) = 1..Len(q.remove)
AdditionsDone(q) == Positions(q.added) = 1..Len(q.add)

Unremoved(q) ==
    {bp \in Elements(q.remove) : bp.id = NaN \/ \A d \in q.deleted : d.no # bp.id}

\* The breakpoint at a position of breakpointsToAdd, with its new id.
WithId(bp, id) == [line |-> bp.line, condition |-> bp.condition, id |-> id]

\* Mutant of NewEntries: what was refused is dropped from the results, and with
\* it the positions of the others.
NewEntriesOfTheRest(q) ==
    LET good == {a \in q.added : a.no # NaN}
        at(a) == Cardinality({b \in good : b.at <= a.at})
    IN  {WithId(q.add[at(a)], a.no) : a \in good}

\* The entries the cache gets: the loop over the positions of both arrays.
NewEntries(q) == {WithId(q.add[a.at], a.no) : a \in q.added}

\* Mutants of Complete: either array is enough; both have to be there.
EitherDone(q) == RemovalsDone(q) \/ AdditionsDone(q)

BothNeeded(q) ==
    q.remove # <<>> /\ q.add # <<>> /\ RemovalsDone(q) /\ AdditionsDone(q)

\* Promise.all of the removals and the additions there are.
Complete(q) == RemovalsDone(q) /\ AdditionsDone(q)

Misplaced(q) == {a \in q.added : a.line # q.add[a.at].line}

\* A reply resolves its promise; the reply that completes Promise.all runs the
\* continuations of that array, and of the request when both are complete.
HandleReply ==
    /\ replies # <<>>
    /\ LET r     == Head(replies)
           q     == Resolved(reqs[r.req], r)
           added == r.op = "break" /\ AdditionsDone(q)
           q2    == IF added THEN [q EXCEPT !.existing = @ \cup NewEntries(q)] ELSE q
           q3    == IF Complete(q2)
                    THEN [q2 EXCEPT !.answers = @ + 1, !.body = q2.existing]
                    ELSE q2
       IN
       /\ reqs' = [reqs EXCEPT ![r.req] = q3]
       /\ cache' = IF added THEN q2.existing ELSE cache
       /\ failed' = failed
             \cup (IF r.op = "delete" /\ RemovalsDone(q) /\ Unremoved(q) # {}
                   THEN {"removed"} ELSE {})
             \cup (IF added /\ Misplaced(q) # {} THEN {"line"} ELSE {})
    /\ replies' = Tail(replies)
    /\ UNCHANGED <<queue, made, armed, overlapped>>

-----------------------------------------------------------------------------
(* The debugger: one command after the other. *)

\* An error reply has neither a number nor a location, the reply to a delete
\* no location.
Reply(no, line) ==
    /\ queue' = Tail(queue)
    /\ replies' = Append(replies,
          [req |-> Head(queue).req, op |-> Head(queue).op, at |-> Head(queue).at,
           no |-> no, line |-> line])

Delete ==
    /\ queue # <<>> /\ Head(queue).op = "delete"
    /\ LET id == Head(queue).bp.id IN
       /\ Reply(IF id \in armed THEN id ELSE NaN, NaN)
       /\ armed' = armed \ {id}
    /\ UNCHANGED <<cache, reqs, failed, made, overlapped>>

Break ==
    /\ queue # <<>> /\ Head(queue).op = "break"
    /\ \/ /\ Reply(Len(made) + 1, Head(queue).bp.line)
          /\ made' = Append(made, Head(queue).bp)
          /\ armed' = armed \cup {Len(made) + 1}
       \/ /\ Refusing
          /\ Reply(NaN, NaN)
          /\ UNCHANGED <<made, armed>>
    /\ UNCHANGED <<cache, reqs, failed, overlapped>>

-----------------------------------------------------------------------------

Next ==
    \/ AnyRequest
    \/ HandleReply
    \/ Delete
    \/ Break

Spec == Init /\ [][Next]_vars

\* Replies are delivered and handled, and the debugger takes its commands.
FairSpec == Spec /\ WF_vars(HandleReply) /\ WF_vars(Delete) /\ WF_vars(Break)

-----------------------------------------------------------------------------
(* Safety. *)

Command == [req : Nat, op : {"delete"}, at : Nat, bp : Cached]
           \cup [req : Nat, op : {"break"}, at : Nat, bp : Source]

Replies == [req : Nat, op : {"delete", "break"}, at : Nat, no : Nat, line : Nat]

\* Every variable has its type.
TypeOK ==
    /\ cache \subseteq Cached
    /\ reqs \in Seq(Request)
    /\ failed \subseteq Asserts
    /\ queue \in Seq(Command)
    /\ replies \in Seq(Replies)
    /\ made \in Seq(Source)
    /\ armed \subseteq 1..Len(made)
    /\ overlapped \in BOOLEAN

\* No request is being worked on.
Quiet == \A k \in 1..Len(reqs) : Answered(k)

Entries(ids) == {[line |-> made[id].line, id |-> id] : id \in ids}
Known(bps)   == {[line |-> bp.line, id |-> bp.id] : bp \in bps}

\* What is cached although the debugger refused it.
Refused == {bp \in cache : bp.id = NaN}

\* As long as the client has waited for its answers, client, adapter and
\* debugger agree between requests: the debugger stops on the lines of the last
\* request, but for those it refused, and nowhere else, each held once; and what
\* it holds is what is cached, with its id and once per line, so that it can be
\* removed again (main.ts:222-226, 231-268).
LastRequestWins ==
    (Quiet /\ ~overlapped /\ reqs # <<>>) =>
        LET lines == {made[id].line : id \in armed} IN
        /\ lines \cup LinesOf(Refused) = LinesOf(reqs[Len(reqs)].want)
        /\ \A i, j \in armed : made[i].line = made[j].line => i = j
        /\ Known(cache \ Refused) = Entries(armed)
        /\ OnePerLine(cache)

\* A request is never answered twice, although removals and additions finish
\* separately (main.ts:271, the fix of CHANGELOG.md:11), and the answer is not
\* sent before every command of the request has been carried out.
AnsweredOnce ==
    \A k \in 1..Len(reqs) :
        /\ reqs[k].answers <= 1
        /\ Answered(k) => /\ \A i \in 1..Len(queue) : queue[i].req # k
                          /\ \A i \in 1..Len(replies) : replies[i].req # k

\* An id is cached and reported for the line the debugger gave it for, however
\* many requests are under way and whatever is refused: the replies, which come
\* command by command, end up at the positions of the breakpoints they are
\* about (main.ts:247-264).
IdsBelongToLines ==
    \A bp \in cache \cup UNION {reqs[k].body : k \in 1..Len(reqs)} :
        bp.id # NaN => bp.id \in 1..Len(made) /\ made[bp.id].line = bp.line

\* The assertions of main.ts:240 and :262: every deleted breakpoint was
\* acknowledged, every new one is on the line asked for.
AssertionsHold == failed = {}

\* Conditional breakpoints are supported (main.ts:76, CHANGELOG.md:363): when
\* the client has been answered, the debugger holds the conditions it asked for.
ConditionsApplied ==
    (Quiet /\ ~overlapped /\ reqs # <<>>) =>
        {made[id] : id \in armed} = reqs[Len(reqs)].want

-----------------------------------------------------------------------------
(* Liveness, under FairSpec. *)

\* Every request is answered, also when nothing, only removals or only
\* additions are needed, and when requests overlap or lines are refused.
EveryRequestAnswered ==
    \A k \in 1..MaxRequests : Len(reqs) >= k ~> (Len(reqs) >= k /\ Answered(k))

=============================================================================
