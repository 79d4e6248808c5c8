-------------------------- MODULE Breakpoints_proofs --------------------------
(***************************************************************************)
(* Proofs about Breakpoints for all lines, conditions and numbers of       *)
(* requests.                                                               *)
(***************************************************************************)
EXTENDS Breakpoints, Integers, SequenceTheorems, FiniteSetTheorems, TLAPS

(***************************************************************************)
(* FIFO channels.                                                          *)
(***************************************************************************)

\* A channel after a message has been put into it.
LEMMA Appended ==
    ASSUME NEW S, NEW s \in Seq(S), NEW m \in S
    PROVE  /\ Append(s, m) \in Seq(S)
           /\ Len(s) \in Nat /\ Len(Append(s, m)) = Len(s) + 1
           /\ Append(s, m)[Len(s) + 1] = m
           /\ \A i \in 1..Len(s) : Append(s, m)[i] = s[i]
           /\ \A i \in 1..Len(Append(s, m)) : i \in 1..Len(s) \/ i = Len(s) + 1
BY AppendProperties, LenProperties

\* A channel after a message has been taken out of it.
LEMMA Dropped ==
    ASSUME NEW S, NEW s \in Seq(S), s # <<>>
    PROVE  /\ Tail(s) \in Seq(S)
           /\ Head(s) \in S /\ Head(s) = s[1] /\ 1 \in 1..Len(s)
           /\ Len(s) \in Nat /\ Len(Tail(s)) = Len(s) - 1
           /\ \A i \in 1..Len(Tail(s)) : i + 1 \in 1..Len(s) /\ Tail(s)[i] = s[i + 1]
BY HeadTailProperties, LenProperties, EmptySeq

\* A channel after several messages have been put into it.
IsJoin(s, t, u) ==
    /\ Len(s) \in Nat /\ Len(t) \in Nat /\ Len(u) = Len(s) + Len(t)
    /\ \A i \in 1..Len(s) : u[i] = s[i]
    /\ \A i \in 1..Len(t) : u[Len(s) + i] = t[i]
    /\ \A i \in 1..Len(u) : i > Len(s) =>
          i - Len(s) \in 1..Len(t) /\ u[i] = t[i - Len(s)]

LEMMA Joined ==
    ASSUME NEW S, NEW s \in Seq(S), NEW t \in Seq(S), NEW u, u = s \o t
    PROVE  u \in Seq(S) /\ IsJoin(s, t, u)
<1>1. /\ u \in Seq(S) /\ Len(u) = Len(s) + Len(t)
      /\ \A i \in 1..(Len(s) + Len(t)) :
            u[i] = IF i <= Len(s) THEN s[i] ELSE t[i - Len(s)]
  <2>1. /\ s \o t \in Seq(S) /\ Len(s \o t) = Len(s) + Len(t)
        /\ \A i \in 1..(Len(s) + Len(t)) :
              (s \o t)[i] = IF i <= Len(s) THEN s[i] ELSE t[i - Len(s)]
    BY ConcatProperties
  <2>2. QED
    BY <2>1
<1>2. Len(s) \in Nat /\ Len(t) \in Nat
  BY LenProperties
<1>3. ASSUME NEW i \in 1..Len(t) PROVE u[Len(s) + i] = t[i]
  <2>1. /\ Len(s) + i \in 1..(Len(s) + Len(t)) /\ ~(Len(s) + i <= Len(s))
        /\ (Len(s) + i) - Len(s) = i
    BY <1>2
  <2>2. QED
    BY <1>1, <2>1
<1>4. QED
  BY <1>1, <1>2, <1>3 DEF IsJoin

(***************************************************************************)
(* The inductive invariant.                                                *)
(***************************************************************************)

ArrayOf(q, op)   == IF op = "delete" THEN q.remove ELSE q.add
ResultsOf(q, op) == IF op = "delete" THEN q.deleted ELSE q.added

\* The positions of a request's array whose promises are not resolved.
Unsettled(q, op) == (1..Len(ArrayOf(q, op))) \ Positions(ResultsOf(q, op))

\* What is on its way belongs to a request that waits for it.
QueueOwed ==
    \A i \in 1..Len(queue) :
        /\ queue[i].req \in 1..Len(reqs)
        /\ queue[i].at \in Unsettled(reqs[queue[i].req], queue[i].op)
        /\ queue[i].bp = ArrayOf(reqs[queue[i].req], queue[i].op)[queue[i].at]

RepliesOwed ==
    \A i \in 1..Len(replies) :
        /\ replies[i].req \in 1..Len(reqs)
        /\ replies[i].at \in Unsettled(reqs[replies[i].req], replies[i].op)

\* No command is sent twice, and none is both on its way and answered.
SamePromise(x, y) == x.req = y.req /\ x.op = y.op /\ x.at = y.at

CommandsDiffer ==
    \A i, j \in 1..Len(queue) : SamePromise(queue[i], queue[j]) => i = j

RepliesDiffer ==
    \A i, j \in 1..Len(replies) : SamePromise(replies[i], replies[j]) => i = j

NotYetAnswered ==
    \A i \in 1..Len(queue), j \in 1..Len(replies) : ~SamePromise(queue[i], replies[j])

\* A request is answered when both of its arrays are complete.
SettledOf(q) ==
    /\ Positions(q.deleted) \subseteq 1..Len(q.remove)
    /\ Positions(q.added) \subseteq 1..Len(q.add)
    /\ Complete(q) => q.answers = 1
    /\ ~Complete(q) => q.answers = 0
    /\ Distinct(q.remove) /\ Distinct(q.add)
    /\ \A a, b \in q.added : a.at = b.at => a = b

Settled == \A k \in 1..Len(reqs) : SettledOf(reqs[k])

\* An id that is not NaN is that of a breakpoint on the line; m is what the
\* debugger was told to break on.
IsOn(m, id, line) == id # NaN => id \in 1..Len(m) /\ m[id].line = line

PlacedIn(m, q) ==
    /\ \A b \in q.existing \cup Elements(q.remove) \cup q.body : IsOn(m, b.id, b.line)
    /\ \A a \in q.added : IsOn(m, a.no, q.add[a.at].line)

Placed ==
    /\ \A b \in cache : IsOn(made, b.id, b.line)
    /\ \A k \in 1..Len(reqs) : PlacedIn(made, reqs[k])
    /\ \A i \in 1..Len(replies) :
          replies[i].op = "break" =>
              IsOn(made, replies[i].no, reqs[replies[i].req].add[replies[i].at].line)

\* What is enumerated as an array is finite.
Finite ==
    /\ IsFiniteSet(cache)
    /\ \A k \in 1..Len(reqs) : IsFiniteSet(reqs[k].existing) /\ IsFiniteSet(reqs[k].added)

OnceInv == TypeOK /\ QueueOwed /\ RepliesOwed /\ CommandsDiffer /\ RepliesDiffer
             /\ NotYetAnswered /\ Settled /\ Placed /\ Finite

(***************************************************************************)
(* Records, arrays and channels.                                           *)
(***************************************************************************)

\* The fields of requests, commands and replies.
LEMMA RequestFields ==
    \A q \in Request :
        /\ q.want \in Wanted /\ q.existing \subseteq Cached /\ q.remove \in Seq(Cached)
        /\ q.add \in Seq(Source) /\ q.answers \in Nat /\ q.body \subseteq Cached
        /\ q.deleted \subseteq Result /\ q.added \subseteq Result
BY DEF Request

LEMMA CommandFields ==
    \A c \in Command :
        /\ c.req \in Nat /\ c.op \in {"delete", "break"} /\ c.at \in Nat
        /\ c.op = "delete" => c.bp \in Cached
        /\ c.op = "break" => c.bp \in Source
BY DEF Command

LEMMA ReplyFields ==
    \A r \in Replies :
        /\ r.req \in Nat /\ r.op \in {"delete", "break"} /\ r.at \in Nat
        /\ r.no \in Nat /\ r.line \in Nat
BY DEF Replies

\* An array of the elements of a finite set.
LEMMA ArrayFacts ==
    ASSUME NEW T, NEW S \in SUBSET T, IsFiniteSet(S), NEW array \in ArraysOf(S)
    PROVE  /\ array \in Seq(T) /\ Len(array) \in Nat
           /\ Elements(array) = S /\ Distinct(array)
           /\ array = <<>> <=> S = {}
           /\ array = <<>> <=> 1..Len(array) = {}
<1>1. Cardinality(S) \in Nat
  BY FS_CardinalityType
<1>2. array \in [1..Cardinality(S) -> T] /\ Elements(array) = S /\ Distinct(array)
  BY DEF ArraysOf
<1>3. array \in Seq(T)
  BY <1>1, <1>2, SeqDef
<1>4. Len(array) \in Nat /\ (array = <<>> <=> Len(array) = 0)
  BY <1>3, LenProperties, EmptySeq
<1>5. array = <<>> <=> 1..Len(array) = {}
  BY <1>4
<1>6. array = <<>> <=> S = {}
  BY <1>2, <1>5 DEF Elements
<1>7. QED
  BY <1>2, <1>3, <1>4, <1>5, <1>6

LEMMA ArrayShape ==
    ASSUME NEW S, IsFiniteSet(S), NEW array \in ArraysOf(S)
    PROVE  /\ Elements(array) = S /\ Distinct(array)
           /\ array = <<>> <=> 1..Len(array) = {}
<1>1. S \in SUBSET S
  OBVIOUS
<1>2. QED
  BY <1>1, ArrayFacts

\* What the next request finds to be removed, kept and added.
LEMMA ListsFinite ==
    ASSUME TypeOK, Finite, NEW want \in Wanted
    PROVE  /\ Removals(want) \subseteq Cached /\ IsFiniteSet(Removals(want))
           /\ Kept(want) \subseteq Cached /\ IsFiniteSet(Kept(want))
           /\ Additions(want) \subseteq Source /\ IsFiniteSet(Additions(want))
<1>1. /\ Removals(want) \subseteq cache /\ Kept(want) \subseteq cache
      /\ cache \subseteq Cached /\ IsFiniteSet(cache)
      /\ Additions(want) \subseteq want /\ want \subseteq Source /\ IsFiniteSet(want)
  BY DEF TypeOK, Finite, Removals, Kept, Additions, Wanted
<1>2. QED
  BY <1>1, FS_Subset

\* A new request: its record, and what is put into the queue.
NewRequest(want, remove, add, q) ==
    /\ q \in Request
    /\ q.want = want /\ q.existing = Kept(want)
    /\ q.remove = remove /\ q.add = add
    /\ q.deleted = {} /\ q.added = {}
    /\ remove = <<>> /\ add = <<>> => q.answers = 1 /\ q.body = Kept(want)
    /\ ~(remove = <<>> /\ add = <<>>) => q.answers = 0 /\ q.body = {}

LEMMA Recorded ==
    ASSUME TypeOK, Finite, NEW want \in Wanted,
           NEW remove \in ArraysOf(Removals(want)), NEW add \in ArraysOf(Additions(want)),
           SetBreakPoints(want, remove, add)
    PROVE  /\ reqs' \in Seq(Request)
           /\ Len(reqs) \in Nat /\ Len(reqs') = Len(reqs) + 1
           /\ \A k \in 1..Len(reqs) : reqs'[k] = reqs[k]
           /\ \A k \in 1..Len(reqs') : k \in 1..Len(reqs) \/ k = Len(reqs) + 1
           /\ NewRequest(want, remove, add, reqs'[Len(reqs) + 1])
<1> DEFINE q == [want |-> want, existing |-> Kept(want), remove |-> remove,
                 add |-> add, deleted |-> {}, added |-> {},
                 answers |-> IF remove = <<>> /\ add = <<>> THEN 1 ELSE 0,
                 body |-> IF remove = <<>> /\ add = <<>> THEN Kept(want) ELSE {}]
<1>1. remove \in Seq(Cached) /\ Kept(want) \subseteq Cached /\ add \in Seq(Source)
  BY ListsFinite, ArrayFacts
<1>2. q \in Request
  BY <1>1 DEF Request
<1>3. NewRequest(want, remove, add, q)
  BY <1>2 DEF NewRequest
<1>4. reqs' = Append(reqs, q) /\ reqs \in Seq(Request)
  BY DEF SetBreakPoints, TypeOK
<1> HIDE DEF q
<1>5. QED
  BY <1>2, <1>3, <1>4, Appended

\* The commands for an array.
LEMMA CommandsOfArray ==
    ASSUME NEW k \in Nat, NEW op \in {"delete", "break"}, NEW T, NEW array \in Seq(T),
           T = IF op = "delete" THEN Cached ELSE Source
    PROVE  /\ Commands(k, op, array) \in Seq(Command)
           /\ Len(Commands(k, op, array)) = Len(array) /\ Len(array) \in Nat
           /\ \A i \in 1..Len(array) :
                 LET c == Commands(k, op, array)[i] IN
                 c.req = k /\ c.op = op /\ c.at = i /\ c.bp = array[i]
<1>1. Len(array) \in Nat /\ \A i \in 1..Len(array) : array[i] \in T
  BY LenProperties, ElementOfSeq
<1>2. ASSUME NEW i \in 1..Len(array)
      PROVE  [req |-> k, op |-> op, at |-> i, bp |-> array[i]] \in Command
  <2>1. array[i] \in T /\ i \in Nat
    BY <1>1
  <2>2. QED
    BY <2>1 DEF Command
<1>3. Commands(k, op, array) \in [1..Len(array) -> Command]
  BY <1>2 DEF Commands
<1>4. Commands(k, op, array) \in Seq(Command)
  BY <1>1, <1>3, SeqDef
<1>5. Len(Commands(k, op, array)) = Len(array)
  BY <1>1, <1>3, <1>4, LenProperties
<1>6. QED
  BY <1>1, <1>4, <1>5 DEF Commands

\* Where a command of the new request is, for position p of its array op.
Place(remove, op, p) == Len(queue) + p + IF op = "delete" THEN 0 ELSE Len(remove)

IsNew(c, n, remove, add) ==
    /\ c.req = n /\ c.op \in {"delete", "break"}
    /\ c.op = "delete" => c.at \in 1..Len(remove) /\ c.bp = remove[c.at]
    /\ c.op = "break" => c.at \in 1..Len(add) /\ c.bp = add[c.at]

LEMMA Sent ==
    ASSUME TypeOK, Finite, NEW want \in Wanted,
           NEW remove \in ArraysOf(Removals(want)), NEW add \in ArraysOf(Additions(want)),
           SetBreakPoints(want, remove, add)
    PROVE  /\ queue' \in Seq(Command) /\ Len(queue) \in Nat /\ Len(remove) \in Nat
           /\ \A i \in 1..Len(queue) : i \in 1..Len(queue') /\ queue'[i] = queue[i]
           /\ \A i \in 1..Len(queue') :
                 \/ i \in 1..Len(queue)
                 \/ /\ IsNew(queue'[i], Len(reqs) + 1, remove, add)
                    /\ i = Place(remove, queue'[i].op, queue'[i].at)
           /\ \A p \in 1..Len(remove) :
                 /\ Len(queue) + p \in 1..Len(queue')
                 /\ queue'[Len(queue) + p].op = "delete"
                 /\ queue'[Len(queue) + p].bp = remove[p]
<1> DEFINE k == Len(reqs) + 1
           b == Commands(k, "delete", remove)
           c == Commands(k, "break", add)
           s == queue \o b
<1>1. /\ remove \in Seq(Cached) /\ add \in Seq(Source) /\ queue \in Seq(Command)
      /\ Len(remove) \in Nat /\ Len(add) \in Nat
  <2>1. /\ Removals(want) \subseteq Cached /\ IsFiniteSet(Removals(want))
        /\ Additions(want) \subseteq Source /\ IsFiniteSet(Additions(want))
    BY ListsFinite
  <2>2. remove \in Seq(Cached) /\ Len(remove) \in Nat
    BY <2>1, ArrayFacts
  <2>3. add \in Seq(Source) /\ Len(add) \in Nat
    BY <2>1, ArrayFacts
  <2>4. QED
    BY <2>2, <2>3 DEF TypeOK
<1>2. queue' = s \o c
  BY DEF SetBreakPoints
<1>a. k \in Nat
  <2>1. reqs \in Seq(Request)
    BY DEF TypeOK
  <2>2. QED
    BY <2>1, LenProperties
<1> HIDE DEF k
<1>3. /\ b \in Seq(Command) /\ Len(b) = Len(remove)
      /\ \A i \in 1..Len(remove) :
            b[i].req = k /\ b[i].op = "delete" /\ b[i].at = i /\ b[i].bp = remove[i]
  <2> DEFINE op == "delete"
  <2>1. op \in {"delete", "break"} /\ Cached = IF op = "delete" THEN Cached ELSE Source
    OBVIOUS
  <2> HIDE DEF op
  <2>2. /\ Commands(k, op, remove) \in Seq(Command)
        /\ Len(Commands(k, op, remove)) = Len(remove)
        /\ \A i \in 1..Len(remove) :
              LET x == Commands(k, op, remove)[i] IN
              x.req = k /\ x.op = op /\ x.at = i /\ x.bp = remove[i]
    BY <1>1, <1>a, <2>1, CommandsOfArray
  <2>3. QED
    BY <2>2 DEF op
<1>4. /\ c \in Seq(Command) /\ Len(c) = Len(add)
      /\ \A i \in 1..Len(add) :
            c[i].req = k /\ c[i].op = "break" /\ c[i].at = i /\ c[i].bp = add[i]
  <2> DEFINE op == "break"
  <2>1. op \in {"delete", "break"} /\ Source = IF op = "delete" THEN Cached ELSE Source
    OBVIOUS
  <2> HIDE DEF op
  <2>2. /\ Commands(k, op, add) \in Seq(Command)
        /\ Len(Commands(k, op, add)) = Len(add)
        /\ \A i \in 1..Len(add) :
              LET x == Commands(k, op, add)[i] IN
              x.req = k /\ x.op = op /\ x.at = i /\ x.bp = add[i]
    BY <1>1, <1>a, <2>1, CommandsOfArray
  <2>3. QED
    BY <2>2 DEF op
<1> HIDE DEF b, c
<1>5. /\ s \in Seq(Command) /\ Len(queue) \in Nat /\ Len(s) = Len(queue) + Len(remove)
      /\ \A i \in 1..Len(queue) : s[i] = queue[i]
      /\ \A i \in 1..Len(remove) : s[Len(queue) + i] = b[i]
  <2>1. s = queue \o b
    OBVIOUS
  <2> HIDE DEF s
  <2>2. queue \in Seq(Command) /\ b \in Seq(Command)
    BY <1>1, <1>3
  <2>3. s \in Seq(Command) /\ IsJoin(queue, b, s)
    BY <2>1, <2>2, Joined, Zenon
  <2>4. QED
    BY <1>3, <2>3 DEF IsJoin
<1> HIDE DEF s
<1>6. /\ queue' \in Seq(Command) /\ Len(queue') = Len(s) + Len(add)
      /\ \A i \in 1..Len(s) : queue'[i] = s[i]
      /\ \A i \in 1..Len(queue') : i > Len(s) =>
            i - Len(s) \in 1..Len(add) /\ queue'[i] = c[i - Len(s)]
  <2>1. s \in Seq(Command) /\ c \in Seq(Command)
    BY <1>4, <1>5
  <2>2. queue' \in Seq(Command) /\ IsJoin(s, c, queue')
    BY <1>2, <2>1, Joined, Zenon
  <2>3. QED
    BY <1>4, <2>2 DEF IsJoin
<1>7. \A i \in 1..Len(queue) : i \in 1..Len(queue') /\ queue'[i] = queue[i]
  BY <1>1, <1>5, <1>6
<1>8. ASSUME NEW p \in 1..Len(remove)
      PROVE  Len(queue) + p \in 1..Len(queue') /\ queue'[Len(queue) + p] = b[p]
  <2>1. Len(queue) + p \in 1..Len(s) /\ Len(queue) + p \in 1..Len(queue')
    BY <1>1, <1>5, <1>6
  <2>2. QED
    BY <1>5, <1>6, <2>1
<1>9. ASSUME NEW i \in 1..Len(queue'), i \notin 1..Len(queue)
      PROVE  /\ IsNew(queue'[i], k, remove, add)
             /\ i = Place(remove, queue'[i].op, queue'[i].at)
  <2>1. CASE i <= Len(s)
    <3>1. PICK p \in 1..Len(remove) : i = Len(queue) + p
      <4>1. i - Len(queue) \in 1..Len(remove) /\ i = Len(queue) + (i - Len(queue))
        BY <1>1, <1>5, <1>9, <2>1
      <4>2. QED
        BY <4>1
    <3>2. queue'[i] = b[p]
      BY <1>8, <3>1
    <3>3. QED
      BY <1>1, <1>3, <1>5, <3>1, <3>2 DEF IsNew, Place
  <2>2. CASE i > Len(s)
    <3>1. PICK p \in 1..Len(add) : i = Len(s) + p
      <4>1. i - Len(s) \in 1..Len(add) /\ i = Len(s) + (i - Len(s))
        BY <1>1, <1>5, <1>6, <1>9, <2>2
      <4>2. QED
        BY <4>1
    <3>2. queue'[i] = c[p]
      <4>1. i - Len(s) = p
        BY <1>1, <1>5, <3>1
      <4>2. QED
        BY <1>6, <2>2, <4>1
    <3>3. i = Len(queue) + p + Len(remove)
      BY <1>1, <1>5, <3>1
    <3>4. QED
      BY <1>1, <1>4, <3>1, <3>2, <3>3 DEF IsNew, Place
  <2>3. QED
    BY <1>1, <1>5, <1>6, <2>1, <2>2
<1>10. \A p \in 1..Len(remove) :
         /\ Len(queue) + p \in 1..Len(queue')
         /\ queue'[Len(queue) + p].op = "delete"
         /\ queue'[Len(queue) + p].bp = remove[p]
  BY <1>3, <1>8
<1>11. \A i \in 1..Len(queue') :
         \/ i \in 1..Len(queue)
         \/ /\ IsNew(queue'[i], k, remove, add)
            /\ i = Place(remove, queue'[i].op, queue'[i].at)
  BY <1>9
<1>12. QED
  BY <1>1, <1>5, <1>6, <1>7, <1>10, <1>11, Zenon DEF k

\* What is settled once reply r is in, and what it makes of its request.
ResultOf(r) == [at |-> r.at, no |-> r.no, line |-> r.line]

HandledRequest(q, r, z) ==
    /\ z \in Request
    /\ z.want = q.want /\ z.remove = q.remove /\ z.add = q.add
    /\ r.op = "delete" => z.deleted = q.deleted \cup {ResultOf(r)} /\ z.added = q.added
    /\ r.op = "break" => z.deleted = q.deleted /\ z.added = q.added \cup {ResultOf(r)}
    /\ r.op = "break" /\ AdditionsDone(z) => z.existing = q.existing \cup NewEntries(z)
    /\ ~(r.op = "break" /\ AdditionsDone(z)) => z.existing = q.existing
    /\ Complete(z) => z.answers = q.answers + 1 /\ z.body = z.existing
    /\ ~Complete(z) => z.answers = q.answers /\ z.body = q.body

LEMMA ResolvedFields ==
    ASSUME NEW q \in Request, NEW r \in Replies
    PROVE  LET z == Resolved(q, r) IN
           /\ z \in Request
           /\ z.want = q.want /\ z.remove = q.remove /\ z.add = q.add
           /\ z.existing = q.existing /\ z.answers = q.answers /\ z.body = q.body
           /\ r.op = "delete" => z.deleted = q.deleted \cup {ResultOf(r)} /\ z.added = q.added
           /\ r.op = "break" => z.deleted = q.deleted /\ z.added = q.added \cup {ResultOf(r)}
<1>1. CASE r.op = "delete"
  <2>1. ResultOf(r) \in Result
    BY ReplyFields DEF ResultOf, Result
  <2>2. q.deleted \cup {ResultOf(r)} \subseteq Result
    BY <2>1, RequestFields
  <2>3. Resolved(q, r) = [q EXCEPT !.deleted = q.deleted \cup {ResultOf(r)}]
    BY <1>1 DEF Resolved, ResultOf
  <2>4. PICK new : new = q.deleted \cup {ResultOf(r)}
    OBVIOUS
  <2>5. [q EXCEPT !.deleted = new] \in Request
    BY <2>2, <2>4 DEF Request
  <2>6. QED
    BY <1>1, <2>3, <2>4, <2>5 DEF Request
<1>2. CASE r.op = "break"
  <2>1. ResultOf(r) \in Result
    BY ReplyFields DEF ResultOf, Result
  <2>2. q.added \cup {ResultOf(r)} \subseteq Result
    BY <2>1, RequestFields
  <2>3. Resolved(q, r) = [q EXCEPT !.added = q.added \cup {ResultOf(r)}]
    BY <1>2 DEF Resolved, ResultOf
  <2>4. PICK new : new = q.added \cup {ResultOf(r)}
    OBVIOUS
  <2>5. [q EXCEPT !.added = new] \in Request
    BY <2>2, <2>4 DEF Request
  <2>6. QED
    BY <1>2, <2>3, <2>4, <2>5 DEF Request
<1>3. QED
  BY <1>1, <1>2, ReplyFields

\* The new entries of a request, and the continuation of the last reply.
LEMMA EntriesCached ==
    ASSUME NEW q \in Request, Positions(q.added) \subseteq 1..Len(q.add)
    PROVE  NewEntries(q) \subseteq Cached
<1>1. SUFFICES ASSUME NEW a \in q.added PROVE WithId(q.add[a.at], a.no) \in Cached
  BY DEF NewEntries
<1>2. a.no \in Nat
  BY RequestFields DEF Result
<1>3. q.add[a.at] \in Source
  <2>1. a.at \in 1..Len(q.add) /\ q.add \in Seq(Source)
    BY RequestFields DEF Positions
  <2>2. QED
    BY <2>1, ElementOfSeq
<1>4. QED
  BY <1>2, <1>3 DEF WithId, Source, Cached

LEMMA EntriesFinite ==
    ASSUME NEW q, IsFiniteSet(q.added)
    PROVE  IsFiniteSet(NewEntries(q))
<1> DEFINE f == [a \in q.added |-> WithId(q.add[a.at], a.no)]
<1>1. f \in Surjection(q.added, NewEntries(q))
  BY DEF NewEntries, Surjection
<1>2. QED
  BY <1>1, FS_Surjection

LEMMA Handled ==
    ASSUME TypeOK, RepliesOwed, Settled, HandleReply
    PROVE  LET r == Head(replies)  k == r.req IN
           /\ replies # <<>> /\ r \in Replies /\ r = replies[1]
           /\ k \in 1..Len(reqs) /\ reqs[k] \in Request
           /\ reqs' \in Seq(Request) /\ Len(reqs') = Len(reqs) /\ Len(reqs) \in Nat
           /\ HandledRequest(reqs[k], r, reqs'[k])
           /\ \A j \in 1..Len(reqs) : j # k => reqs'[j] = reqs[j]
           /\ cache' = IF r.op = "break" /\ AdditionsDone(reqs'[k])
                       THEN reqs'[k].existing ELSE cache
<1> DEFINE r     == Head(replies)
           k     == r.req
           q     == reqs[k]
           q1    == Resolved(q, r)
           added == r.op = "break" /\ AdditionsDone(q1)
           q2    == IF added THEN [q1 EXCEPT !.existing = @ \cup NewEntries(q1)] ELSE q1
           q3    == IF Complete(q2)
                    THEN [q2 EXCEPT !.answers = @ + 1, !.body = q2.existing]
                    ELSE q2
<1>1. /\ replies # <<>>
      /\ reqs' = [reqs EXCEPT ![k] = q3]
      /\ cache' = IF added THEN q2.existing ELSE cache
  BY DEF HandleReply
<1>2. /\ r \in Replies /\ r = replies[1] /\ k \in 1..Len(reqs)
      /\ reqs \in Seq(Request) /\ q \in Request /\ Len(reqs) \in Nat
  <2>1. r \in Replies /\ r = replies[1] /\ 1 \in 1..Len(replies) /\ reqs \in Seq(Request)
    BY <1>1, Dropped DEF TypeOK
  <2>2. k \in 1..Len(reqs)
    BY <2>1 DEF RepliesOwed
  <2>3. QED
    BY <2>1, <2>2, ElementOfSeq, LenProperties
<1> HIDE DEF r
<1>3. /\ q1 \in Request
      /\ q1.want = q.want /\ q1.remove = q.remove /\ q1.add = q.add
      /\ q1.existing = q.existing /\ q1.answers = q.answers /\ q1.body = q.body
      /\ r.op = "delete" => q1.deleted = q.deleted \cup {ResultOf(r)} /\ q1.added = q.added
      /\ r.op = "break" => q1.deleted = q.deleted /\ q1.added = q.added \cup {ResultOf(r)}
  BY <1>2, ResolvedFields
<1> HIDE DEF q1
<1>b. Positions(q1.added) \subseteq 1..Len(q1.add)
  <2>1. SettledOf(q) /\ r.at \in Unsettled(q, r.op)
    BY <1>1, <1>2 DEF Settled, RepliesOwed
  <2>2. q1.added \subseteq q.added \cup {ResultOf(r)} /\ r.op \in {"delete", "break"}
    BY <1>2, <1>3, ReplyFields
  <2>3. CASE r.op = "delete"
    BY <1>3, <2>1, <2>3 DEF SettledOf
  <2>4. CASE r.op = "break"
    <3>1. r.at \in 1..Len(q.add) /\ ResultOf(r).at = r.at
      BY <2>1, <2>4 DEF Unsettled, ArrayOf, ResultOf
    <3>2. QED
      BY <1>3, <2>1, <2>4, <3>1 DEF SettledOf, Positions
  <2>5. QED
    BY <2>2, <2>3, <2>4
<1> HIDE DEF k
<1>4. /\ q2 \in Request
      /\ q2.want = q1.want /\ q2.remove = q1.remove /\ q2.add = q1.add
      /\ q2.answers = q1.answers /\ q2.body = q1.body
      /\ q2.deleted = q1.deleted /\ q2.added = q1.added
      /\ added => q2.existing = q1.existing \cup NewEntries(q1)
      /\ ~added => q2.existing = q1.existing
  <2>1. NewEntries(q1) \subseteq Cached
    BY <1>3, <1>b, EntriesCached
  <2> HIDE DEF added
  <2>2. QED
    BY <1>3, <2>1 DEF Request
<1>5. NewEntries(q2) = NewEntries(q1) /\ (AdditionsDone(q2) <=> AdditionsDone(q1))
  BY <1>4 DEF NewEntries, AdditionsDone
<1> HIDE DEF q2
<1>6. /\ q3 \in Request
      /\ q3.want = q2.want /\ q3.remove = q2.remove /\ q3.add = q2.add
      /\ q3.deleted = q2.deleted /\ q3.added = q2.added /\ q3.existing = q2.existing
      /\ Complete(q2) => q3.answers = q2.answers + 1 /\ q3.body = q2.existing
      /\ ~Complete(q2) => q3.answers = q2.answers /\ q3.body = q2.body
  <2>1. CASE Complete(q2)
    <3>1. q2.answers + 1 \in Nat /\ q2.existing \subseteq Cached
      BY <1>4, RequestFields
    <3>2. q3 = [q2 EXCEPT !.answers = @ + 1, !.body = q2.existing]
      BY <2>1
    <3> HIDE DEF q3
    <3>3. QED
      BY <1>4, <2>1, <3>1, <3>2 DEF Request
  <2>2. CASE ~Complete(q2)
    BY <1>4, <2>2
  <2>3. QED
    BY <2>1, <2>2
<1> HIDE DEF q3
<1>7. /\ NewEntries(q3) = NewEntries(q2) /\ (AdditionsDone(q3) <=> AdditionsDone(q2))
      /\ Complete(q3) <=> Complete(q2)
  BY <1>6 DEF NewEntries, AdditionsDone, RemovalsDone, Complete
<1>8. HandledRequest(q, r, q3)
  BY <1>3, <1>4, <1>5, <1>6, <1>7 DEF HandledRequest
<1>9. /\ reqs' \in Seq(Request) /\ Len(reqs') = Len(reqs)
      /\ reqs'[k] = q3
      /\ \A j \in 1..Len(reqs) : j # k => reqs'[j] = reqs[j]
  BY <1>1, <1>2, <1>6, ExceptSeq
<1>10. cache' = IF r.op = "break" /\ AdditionsDone(q3) THEN q3.existing ELSE cache
  BY <1>1, <1>5, <1>6, <1>7
<1>11. QED
  BY <1>1, <1>2, <1>8, <1>9, <1>10 DEF r, k

(***************************************************************************)
(* Every action preserves the invariant.                                   *)
(***************************************************************************)

\* Resolving one more promise.
LEMMA OneMoreSettled ==
    ASSUME NEW S, NEW r
    PROVE  Positions(S \cup {ResultOf(r)}) = Positions(S) \cup {r.at}
<1>1. ResultOf(r).at = r.at
  BY DEF ResultOf
<1>2. \A x \in Positions(S \cup {ResultOf(r)}) : x \in Positions(S) \cup {r.at}
  BY <1>1 DEF Positions
<1>3. \A x \in Positions(S) \cup {r.at} : x \in Positions(S \cup {ResultOf(r)})
  BY <1>1 DEF Positions
<1>4. QED
  BY <1>2, <1>3

\* What a reply leaves unsettled.
LEMMA LessUnsettled ==
    ASSUME NEW q, NEW r, NEW z, HandledRequest(q, r, z), r.op \in {"delete", "break"},
           NEW op \in {"delete", "break"}
    PROVE  /\ op = r.op => Unsettled(z, op) = Unsettled(q, op) \ {r.at}
           /\ op # r.op => Unsettled(z, op) = Unsettled(q, op)
           /\ ArrayOf(z, op) = ArrayOf(q, op)
<1>1. z.remove = q.remove /\ z.add = q.add
  BY DEF HandledRequest
<1>2. CASE r.op = "delete"
  <2>1. Positions(z.deleted) = Positions(q.deleted) \cup {r.at} /\ z.added = q.added
    BY <1>2, OneMoreSettled DEF HandledRequest
  <2>2. QED
    BY <1>1, <1>2, <2>1 DEF Unsettled, ArrayOf, ResultsOf
<1>3. CASE r.op = "break"
  <2>1. Positions(z.added) = Positions(q.added) \cup {r.at} /\ z.deleted = q.deleted
    BY <1>3, OneMoreSettled DEF HandledRequest
  <2>2. QED
    BY <1>1, <1>3, <2>1 DEF Unsettled, ArrayOf, ResultsOf
<1>4. QED
  BY <1>2, <1>3

(***************************************************************************)
(* Every action preserves the invariant.                                   *)
(***************************************************************************)

LEMMA SetBreakPointsKeepsOnce ==
    ASSUME OnceInv, NEW want \in Wanted,
           NEW remove \in ArraysOf(Removals(want)), NEW add \in ArraysOf(Additions(want)),
           SetBreakPoints(want, remove, add)
    PROVE  OnceInv'
<1>n. PICK n : n = Len(reqs) + 1
  OBVIOUS
<1>1. /\ reqs' \in Seq(Request) /\ Len(reqs) \in Nat /\ Len(reqs') = n /\ n = Len(reqs) + 1
      /\ \A k \in 1..Len(reqs) : reqs'[k] = reqs[k]
      /\ \A k \in 1..Len(reqs') : k \in 1..Len(reqs) \/ k = n
      /\ NewRequest(want, remove, add, reqs'[n])
  BY <1>n, Recorded DEF OnceInv
<1>2. /\ queue' \in Seq(Command) /\ Len(queue) \in Nat
      /\ \A i \in 1..Len(queue) : i \in 1..Len(queue') /\ queue'[i] = queue[i]
      /\ \A i \in 1..Len(queue') :
            \/ i \in 1..Len(queue)
            \/ /\ IsNew(queue'[i], n, remove, add)
               /\ i = Place(remove, queue'[i].op, queue'[i].at)
  BY <1>n, Sent DEF OnceInv
<1>3. /\ cache' = Kept(want) /\ cache' \subseteq cache /\ Removals(want) \subseteq cache
      /\ UNCHANGED <<failed, replies, made, armed>>
      /\ overlapped' \in BOOLEAN
  BY DEF SetBreakPoints, Kept, Removals, OnceInv, TypeOK
<1>4. TypeOK'
  BY <1>1, <1>2, <1>3 DEF OnceInv, TypeOK
<1>a. /\ Elements(remove) = Removals(want)
      /\ Distinct(remove) /\ (remove = <<>> <=> 1..Len(remove) = {})
      /\ Distinct(add) /\ (add = <<>> <=> 1..Len(add) = {})
  <2>1. /\ Removals(want) \subseteq Cached /\ IsFiniteSet(Removals(want))
        /\ Additions(want) \subseteq Source /\ IsFiniteSet(Additions(want))
    BY ListsFinite DEF OnceInv
  <2>2. Elements(remove) = Removals(want) /\ Distinct(remove) /\ (remove = <<>> <=> 1..Len(remove) = {})
    BY <2>1, ArrayShape
  <2>3. Distinct(add) /\ (add = <<>> <=> 1..Len(add) = {})
    BY <2>1, ArrayShape
  <2>4. QED
    BY <2>2, <2>3
<1>b. /\ reqs'[n].remove = remove /\ reqs'[n].add = add
      /\ Positions(reqs'[n].deleted) = {} /\ Positions(reqs'[n].added) = {}
  BY <1>1 DEF NewRequest, Positions
<1>5. /\ \A op : /\ ArrayOf(reqs'[n], op) = IF op = "delete" THEN remove ELSE add
                 /\ Unsettled(reqs'[n], op) = 1..Len(ArrayOf(reqs'[n], op))
      /\ \A k \in 1..Len(reqs) : k \in 1..Len(reqs')
      /\ n \in 1..Len(reqs') /\ n \notin 1..Len(reqs)
  <2>1. /\ \A k \in 1..Len(reqs) : k \in 1..Len(reqs')
        /\ n \in 1..Len(reqs') /\ n \notin 1..Len(reqs)
    BY <1>1
  <2>2. QED
    BY <1>b, <2>1 DEF Unsettled, ArrayOf, ResultsOf
<1>6. QueueOwed'
  <2>1. SUFFICES ASSUME NEW i \in 1..Len(queue')
                 PROVE  /\ queue'[i].req \in 1..Len(reqs')
                        /\ queue'[i].at \in Unsettled(reqs'[queue'[i].req], queue'[i].op)
                        /\ queue'[i].bp = ArrayOf(reqs'[queue'[i].req], queue'[i].op)[queue'[i].at]
    BY DEF QueueOwed, Unsettled, ArrayOf, ResultsOf
  <2>2. CASE i \in 1..Len(queue)
    BY <1>1, <1>2, <1>5, <2>2 DEF OnceInv, QueueOwed
  <2>3. CASE i \notin 1..Len(queue)
    <3>1. IsNew(queue'[i], n, remove, add)
      BY <1>2, <2>3
    <3>2. QED
      BY <1>5, <3>1 DEF IsNew
  <2>4. QED
    BY <2>2, <2>3
<1>7. RepliesOwed'
  <2>1. SUFFICES ASSUME NEW i \in 1..Len(replies)
                 PROVE  /\ replies[i].req \in 1..Len(reqs')
                        /\ replies[i].at \in Unsettled(reqs'[replies[i].req], replies[i].op)
    BY <1>3 DEF RepliesOwed, Unsettled, ArrayOf, ResultsOf
  <2>2. QED
    BY <1>1, <1>5 DEF OnceInv, RepliesOwed
<1>8. CommandsDiffer'
  <2>1. SUFFICES ASSUME NEW i \in 1..Len(queue'), NEW j \in 1..Len(queue'),
                        SamePromise(queue'[i], queue'[j])
                 PROVE  i = j
    BY DEF CommandsDiffer, SamePromise
  <2>2. \A h \in 1..Len(queue) : queue'[h].req # n
    BY <1>2, <1>5 DEF OnceInv, QueueOwed
  <2>3. CASE i \in 1..Len(queue) /\ j \in 1..Len(queue)
    BY <1>2, <2>1, <2>3 DEF OnceInv, CommandsDiffer
  <2>4. CASE i \notin 1..Len(queue) /\ j \notin 1..Len(queue)
    <3>1. /\ i = Place(remove, queue'[i].op, queue'[i].at)
          /\ j = Place(remove, queue'[j].op, queue'[j].at)
      BY <1>2, <2>4
    <3>2. QED
      BY <2>1, <3>1 DEF SamePromise
  <2>5. QED
    BY <1>2, <2>1, <2>2, <2>3, <2>4 DEF IsNew, SamePromise
<1>9. RepliesDiffer'
  BY <1>3 DEF OnceInv, RepliesDiffer, SamePromise
<1>10. NotYetAnswered'
  <2>1. SUFFICES ASSUME NEW i \in 1..Len(queue'), NEW j \in 1..Len(replies),
                        SamePromise(queue'[i], replies[j])
                 PROVE  FALSE
    BY <1>3 DEF NotYetAnswered, SamePromise
  <2>2. replies[j].req # n
    BY <1>5 DEF OnceInv, RepliesOwed
  <2>3. i \in 1..Len(queue) /\ queue'[i] = queue[i]
    BY <1>2, <2>1, <2>2 DEF SamePromise, IsNew
  <2>4. QED
    BY <2>1, <2>3 DEF OnceInv, NotYetAnswered
<1>11. Settled'
  <2>1. SettledOf(reqs'[n])
    <3>1. Complete(reqs'[n]) <=> remove = <<>> /\ add = <<>>
      BY <1>a, <1>b DEF Complete, RemovalsDone, AdditionsDone
    <3>2. /\ remove = <<>> /\ add = <<>> => reqs'[n].answers = 1
          /\ ~(remove = <<>> /\ add = <<>>) => reqs'[n].answers = 0
          /\ reqs'[n].added = {}
      BY <1>1 DEF NewRequest
    <3>3. QED
      BY <1>a, <1>b, <3>1, <3>2 DEF SettledOf
  <2>2. \A k \in 1..Len(reqs) : SettledOf(reqs'[k])
    BY <1>1 DEF OnceInv, Settled
  <2>3. QED
    BY <1>1, <2>1, <2>2 DEF Settled
<1>12. Placed'
  <2>1. \A b \in cache : IsOn(made, b.id, b.line)
    BY DEF OnceInv, Placed
  <2>2. PlacedIn(made, reqs'[n])
    <3>1. \A b \in Kept(want) \cup Removals(want) : IsOn(made, b.id, b.line)
      BY <1>3, <2>1
    <3>2. reqs'[n].body \subseteq Kept(want) /\ reqs'[n].added = {}
      BY <1>1 DEF NewRequest
    <3>3. reqs'[n].existing = Kept(want) /\ Elements(reqs'[n].remove) = Removals(want)
      BY <1>1, <1>a, <1>b DEF NewRequest
    <3>4. QED
      BY <3>1, <3>2, <3>3 DEF PlacedIn
  <2>3. \A k \in 1..Len(reqs') : PlacedIn(made, reqs'[k])
    BY <1>1, <2>2 DEF OnceInv, Placed
  <2>4. ASSUME NEW i \in 1..Len(replies), replies[i].op = "break"
        PROVE  IsOn(made, replies[i].no, reqs'[replies[i].req].add[replies[i].at].line)
    BY <1>1, <2>4 DEF OnceInv, Placed, RepliesOwed
  <2>5. QED
    BY <1>3, <2>1, <2>3, <2>4 DEF Placed
<1>13. Finite'
  <2>1. IsFiniteSet(Kept(want)) /\ IsFiniteSet({})
    BY ListsFinite, FS_EmptySet DEF OnceInv
  <2>2. reqs'[n].existing = Kept(want) /\ reqs'[n].added = {}
    BY <1>1 DEF NewRequest
  <2>3. QED
    BY <1>1, <1>3, <2>1, <2>2 DEF OnceInv, Finite
<1>14. QED
  BY <1>4, <1>6, <1>7, <1>8, <1>9, <1>10, <1>11, <1>12, <1>13 DEF OnceInv

LEMMA HandleReplyKeepsOnce ==
    ASSUME OnceInv, HandleReply
    PROVE  OnceInv'
<1>r. PICK r : r = Head(replies)
  OBVIOUS
<1>k. PICK k : k = r.req
  OBVIOUS
<1>q. PICK q : q = reqs[k]
  OBVIOUS
<1>z. PICK z : z = reqs'[k]
  OBVIOUS
<1>1. /\ replies # <<>> /\ r \in Replies /\ r = replies[1]
      /\ k \in 1..Len(reqs) /\ q \in Request
      /\ reqs' \in Seq(Request) /\ Len(reqs') = Len(reqs) /\ Len(reqs) \in Nat
      /\ HandledRequest(q, r, z)
      /\ \A j \in 1..Len(reqs) : j # k => reqs'[j] = reqs[j]
      /\ cache' = IF r.op = "break" /\ AdditionsDone(z) THEN z.existing ELSE cache
  BY <1>r, <1>k, <1>q, <1>z, Handled, Zenon DEF OnceInv
<1>2. /\ replies' \in Seq(Replies) /\ Len(replies) \in Nat /\ 1 \in 1..Len(replies)
      /\ Len(replies') = Len(replies) - 1
      /\ \A i \in 1..Len(replies') : i + 1 \in 1..Len(replies) /\ replies'[i] = replies[i + 1]
  <2>1. replies' = Tail(replies) /\ replies \in Seq(Replies)
    BY DEF HandleReply, OnceInv, TypeOK
  <2>2. QED
    BY <1>1, <2>1, Dropped
<1>3. UNCHANGED <<queue, made, armed, overlapped>> /\ failed' \subseteq failed \cup Asserts
  BY DEF HandleReply, Asserts
<1>4. r.op \in {"delete", "break"}
  BY <1>1, ReplyFields
<1>5. r.at \in Unsettled(q, r.op)
  BY <1>1, <1>2, <1>k, <1>q DEF OnceInv, RepliesOwed
<1>6. SettledOf(q)
  BY <1>1, <1>q DEF OnceInv, Settled
<1>7. TypeOK'
  <2>1. cache' \subseteq Cached
    <3>1. z \in Request
      BY <1>1 DEF HandledRequest
    <3>2. QED
      BY <1>1, <3>1, RequestFields DEF OnceInv, TypeOK
  <2>2. QED
    BY <1>1, <1>2, <1>3, <2>1 DEF OnceInv, TypeOK
<1>8. \A op \in {"delete", "break"} :
         /\ op = r.op => Unsettled(z, op) = Unsettled(q, op) \ {r.at}
         /\ op # r.op => Unsettled(z, op) = Unsettled(q, op)
         /\ ArrayOf(z, op) = ArrayOf(q, op)
  BY <1>1, <1>4, LessUnsettled
<1>9. QueueOwed'
  <2>1. SUFFICES ASSUME NEW i \in 1..Len(queue)
                 PROVE  /\ queue[i].req \in 1..Len(reqs')
                        /\ queue[i].at \in Unsettled(reqs'[queue[i].req], queue[i].op)
                        /\ queue[i].bp = ArrayOf(reqs'[queue[i].req], queue[i].op)[queue[i].at]
    BY <1>3 DEF QueueOwed, Unsettled, ArrayOf, ResultsOf
  <2>2. /\ queue[i].req \in 1..Len(reqs)
        /\ queue[i].at \in Unsettled(reqs[queue[i].req], queue[i].op)
        /\ queue[i].bp = ArrayOf(reqs[queue[i].req], queue[i].op)[queue[i].at]
    BY DEF OnceInv, QueueOwed
  <2>3. queue[i].op \in {"delete", "break"}
    BY CommandFields, ElementOfSeq DEF OnceInv, TypeOK
  <2>4. CASE queue[i].req # k
    BY <1>1, <2>2, <2>4
  <2>5. CASE queue[i].req = k
    <3>1. queue[i].op = r.op => queue[i].at # r.at
      BY <1>1, <1>2, <1>k, <2>5 DEF OnceInv, NotYetAnswered, SamePromise
    <3>2. queue[i].at \in Unsettled(z, queue[i].op)
      BY <1>8, <1>q, <2>2, <2>3, <2>5, <3>1
    <3>3. ArrayOf(z, queue[i].op) = ArrayOf(q, queue[i].op)
      BY <1>8, <2>3
    <3>4. QED
      BY <1>1, <1>q, <1>z, <2>2, <2>5, <3>2, <3>3
  <2>6. QED
    BY <2>4, <2>5
<1>10. RepliesOwed'
  <2>1. SUFFICES ASSUME NEW i \in 1..Len(replies')
                 PROVE  /\ replies'[i].req \in 1..Len(reqs')
                        /\ replies'[i].at \in Unsettled(reqs'[replies'[i].req], replies'[i].op)
    BY DEF RepliesOwed, Unsettled, ArrayOf, ResultsOf
  <2>2. i + 1 \in 1..Len(replies) /\ replies'[i] = replies[i + 1] /\ i + 1 # 1
    BY <1>2
  <2>3. /\ replies'[i].req \in 1..Len(reqs)
        /\ replies'[i].at \in Unsettled(reqs[replies'[i].req], replies'[i].op)
    BY <2>2 DEF OnceInv, RepliesOwed
  <2>4. replies'[i].op \in {"delete", "break"}
    BY <1>2, ReplyFields, ElementOfSeq
  <2>5. CASE replies'[i].req # k
    BY <1>1, <2>3, <2>5
  <2>6. CASE replies'[i].req = k
    <3>1. replies'[i].op = r.op => replies'[i].at # r.at
      BY <1>1, <1>2, <1>k, <2>2, <2>6 DEF OnceInv, RepliesDiffer, SamePromise
    <3>2. replies'[i].at \in Unsettled(z, replies'[i].op)
      BY <1>8, <1>q, <2>3, <2>4, <2>6, <3>1
    <3>3. QED
      BY <1>1, <1>z, <2>6, <3>2
  <2>7. QED
    BY <2>5, <2>6
<1>11. CommandsDiffer'
  BY <1>3 DEF OnceInv, CommandsDiffer, SamePromise
<1>12. RepliesDiffer'
  <2>1. SUFFICES ASSUME NEW i \in 1..Len(replies'), NEW j \in 1..Len(replies'),
                        SamePromise(replies'[i], replies'[j])
                 PROVE  i = j
    BY DEF RepliesDiffer, SamePromise
  <2>2. /\ i + 1 \in 1..Len(replies) /\ replies'[i] = replies[i + 1]
        /\ j + 1 \in 1..Len(replies) /\ replies'[j] = replies[j + 1]
    BY <1>2
  <2>3. i + 1 = j + 1
    BY <2>1, <2>2, Zenon DEF OnceInv, RepliesDiffer
  <2>4. QED
    BY <2>3
<1>13. NotYetAnswered'
  <2>1. SUFFICES ASSUME NEW i \in 1..Len(queue), NEW j \in 1..Len(replies')
                 PROVE  ~SamePromise(queue[i], replies'[j])
    BY <1>3 DEF NotYetAnswered, SamePromise
  <2>2. QED
    BY <1>2 DEF OnceInv, NotYetAnswered
<1>14. Settled'
  <2>1. SettledOf(z)
    <3>1. ~Complete(q) /\ q.answers = 0
      <4>1. ~Complete(q)
        BY <1>4, <1>5 DEF Unsettled, ArrayOf, ResultsOf, Complete, RemovalsDone, AdditionsDone
      <4>2. QED
        BY <1>6, <4>1 DEF SettledOf
    <3>2. (Complete(z) => z.answers = 1) /\ (~Complete(z) => z.answers = 0)
      BY <1>1, <3>1 DEF HandledRequest
    <3>3. z.remove = q.remove /\ z.add = q.add
      BY <1>1 DEF HandledRequest
    <3>4. CASE r.op = "delete"
      <4>1. Positions(z.deleted) = Positions(q.deleted) \cup {r.at} /\ z.added = q.added
        BY <1>1, <3>4, OneMoreSettled DEF HandledRequest
      <4>2. r.at \in 1..Len(q.remove)
        BY <1>5, <3>4 DEF Unsettled, ArrayOf
      <4>3. Positions(z.deleted) \subseteq 1..Len(z.remove)
        BY <1>6, <3>3, <4>1, <4>2 DEF SettledOf
      <4>4. QED
        BY <1>6, <3>2, <3>3, <4>1, <4>3 DEF SettledOf
    <3>5. CASE r.op = "break"
      <4>1. /\ Positions(z.added) = Positions(q.added) \cup {r.at} /\ z.deleted = q.deleted
            /\ z.added = q.added \cup {ResultOf(r)}
        BY <1>1, <3>5, OneMoreSettled DEF HandledRequest
      <4>2. r.at \in 1..Len(q.add) /\ r.at \notin Positions(q.added)
        BY <1>5, <3>5 DEF Unsettled, ArrayOf, ResultsOf
      <4>3. \A a, b \in z.added : a.at = b.at => a = b
        <5>1. ResultOf(r).at = r.at /\ \A a \in q.added : a.at # r.at
          BY <4>2 DEF ResultOf, Positions
        <5>2. \A a, b \in q.added : a.at = b.at => a = b
          BY <1>6 DEF SettledOf
        <5>3. QED
          BY <4>1, <5>1, <5>2
      <4>4. Positions(z.added) \subseteq 1..Len(z.add)
        BY <1>6, <3>3, <4>1, <4>2 DEF SettledOf
      <4>5. QED
        BY <1>6, <3>2, <3>3, <4>1, <4>3, <4>4 DEF SettledOf
    <3>6. QED
      BY <1>4, <3>4, <3>5
  <2>2. \A j \in 1..Len(reqs) : j # k => SettledOf(reqs'[j])
    BY <1>1 DEF OnceInv, Settled
  <2>3. \A j \in 1..Len(reqs') : SettledOf(reqs'[j])
    BY <1>1, <1>z, <2>1, <2>2
  <2>4. QED
    BY <2>3 DEF Settled, SettledOf, Complete, RemovalsDone, AdditionsDone, Positions, Distinct
<1>15. Placed'
  <2>1. PlacedIn(made, q)
    BY <1>1, <1>q DEF OnceInv, Placed
  <2>2. r.op = "break" => IsOn(made, r.no, q.add[r.at].line)
    BY <1>1, <1>2, <1>k, <1>q DEF OnceInv, Placed
  <2>3. \A a \in z.added : IsOn(made, a.no, z.add[a.at].line)
    <3>1. ResultOf(r).at = r.at /\ ResultOf(r).no = r.no /\ z.add = q.add
      BY <1>1 DEF ResultOf, HandledRequest
    <3>2. \A a \in q.added : IsOn(made, a.no, q.add[a.at].line)
      BY <2>1 DEF PlacedIn
    <3>3. QED
      BY <1>1, <1>4, <2>2, <3>1, <3>2 DEF HandledRequest
  <2>4. \A b \in NewEntries(z) : IsOn(made, b.id, b.line)
    BY <2>3 DEF NewEntries, WithId
  <2>5. \A b \in z.existing : IsOn(made, b.id, b.line)
    BY <1>1, <2>1, <2>4 DEF HandledRequest, PlacedIn
  <2>6. PlacedIn(made, z)
    BY <1>1, <2>1, <2>3, <2>5 DEF HandledRequest, PlacedIn
  <2>7. \A b \in cache' : IsOn(made, b.id, b.line)
    BY <1>1, <2>5 DEF OnceInv, Placed
  <2>8. \A j \in 1..Len(reqs') : PlacedIn(made, reqs'[j])
    BY <1>1, <1>z, <2>6 DEF OnceInv, Placed
  <2>9. ASSUME NEW i \in 1..Len(replies'), replies'[i].op = "break"
        PROVE  IsOn(made, replies'[i].no, reqs'[replies'[i].req].add[replies'[i].at].line)
    <3>1. i + 1 \in 1..Len(replies) /\ replies'[i] = replies[i + 1]
      BY <1>2
    <3>2. IsOn(made, replies'[i].no, reqs[replies'[i].req].add[replies'[i].at].line)
      BY <2>9, <3>1 DEF OnceInv, Placed
    <3>3. replies'[i].req \in 1..Len(reqs)
      BY <3>1 DEF OnceInv, RepliesOwed
    <3>4. reqs'[replies'[i].req].add = reqs[replies'[i].req].add
      BY <1>1, <1>q, <1>z, <3>3 DEF HandledRequest
    <3>5. QED
      BY <3>2, <3>4
  <2>10. QED
    BY <1>3, <2>7, <2>8, <2>9 DEF Placed
<1>16. Finite'
  <2>1. IsFiniteSet(cache) /\ IsFiniteSet(q.existing) /\ IsFiniteSet(q.added)
    BY <1>1, <1>q DEF OnceInv, Finite
  <2>2. IsFiniteSet(z.added)
    <3>1. IsFiniteSet(q.added \cup {ResultOf(r)})
      BY <2>1, FS_AddElement
    <3>2. QED
      BY <1>1, <1>4, <2>1, <3>1 DEF HandledRequest
  <2>3. IsFiniteSet(z.existing)
    <3>1. IsFiniteSet(NewEntries(z))
      BY <2>2, EntriesFinite
    <3>2. IsFiniteSet(q.existing \cup NewEntries(z))
      BY <2>1, <3>1, FS_Union
    <3>3. QED
      BY <1>1, <2>1, <3>2 DEF HandledRequest
  <2>4. QED
    BY <1>1, <1>z, <2>1, <2>2, <2>3 DEF OnceInv, Finite
<1>17. QED
  BY <1>7, <1>9, <1>10, <1>11, <1>12, <1>13, <1>14, <1>15, <1>16 DEF OnceInv

\* A command is taken out of the queue and answered; nothing is known yet of
\* what the debugger made of it.
LEMMA Carried ==
    ASSUME OnceInv, queue # <<>>, NEW no \in Nat, NEW line \in Nat,
           Reply(no, line), UNCHANGED <<reqs, cache>>
    PROVE  /\ queue' \in Seq(Command) /\ replies' \in Seq(Replies)
           /\ QueueOwed' /\ RepliesOwed' /\ CommandsDiffer' /\ RepliesDiffer'
           /\ NotYetAnswered' /\ Settled' /\ Finite'
           /\ Len(replies) \in Nat /\ Len(replies') = Len(replies) + 1
           /\ \A i \in 1..Len(replies) : replies'[i] = replies[i]
           /\ \A i \in 1..Len(replies') : i \in 1..Len(replies) \/ i = Len(replies) + 1
           /\ LET a == replies'[Len(replies) + 1] IN
              SamePromise(queue[1], a) /\ a.no = no
<1>h. PICK h : h = queue[1]
  OBVIOUS
<1>n. PICK n : n = Len(replies) + 1
  OBVIOUS
<1>1. /\ queue' \in Seq(Command) /\ Len(queue) \in Nat /\ 1 \in 1..Len(queue)
      /\ Head(queue) = h /\ h \in Command /\ Len(queue') = Len(queue) - 1
      /\ \A i \in 1..Len(queue') : i + 1 \in 1..Len(queue) /\ queue'[i] = queue[i + 1]
  <2>1. queue' = Tail(queue) /\ queue \in Seq(Command)
    BY DEF Reply, OnceInv, TypeOK
  <2>2. QED
    BY <1>h, <2>1, Dropped
<1>x. PICK x : x = [req |-> h.req, op |-> h.op, at |-> h.at, no |-> no, line |-> line]
  OBVIOUS
<1>2. x \in Replies
  <2>1. h.op \in {"delete", "break"} /\ h.req \in Nat /\ h.at \in Nat
    BY <1>1, CommandFields
  <2>2. QED
    BY <1>x, <2>1 DEF Replies
<1>3. SamePromise(h, x) /\ x.req = h.req /\ x.op = h.op /\ x.at = h.at /\ x.no = no
  BY <1>x DEF SamePromise
<1>4. replies' = Append(replies, x) /\ replies \in Seq(Replies)
  BY <1>1, <1>x DEF Reply, OnceInv, TypeOK
<1>5. /\ replies' \in Seq(Replies) /\ Len(replies) \in Nat /\ Len(replies') = n
      /\ replies'[n] = x
      /\ \A i \in 1..Len(replies) : replies'[i] = replies[i]
      /\ \A i \in 1..Len(replies') : i \in 1..Len(replies) \/ i = n
      /\ n \notin 1..Len(replies)
  BY <1>2, <1>4, <1>n, Appended
<1>6. QueueOwed'
  <2>1. SUFFICES ASSUME NEW i \in 1..Len(queue')
                 PROVE  /\ queue'[i].req \in 1..Len(reqs)
                        /\ queue'[i].at \in Unsettled(reqs[queue'[i].req], queue'[i].op)
                        /\ queue'[i].bp = ArrayOf(reqs[queue'[i].req], queue'[i].op)[queue'[i].at]
    BY DEF QueueOwed, Unsettled, ArrayOf, ResultsOf
  <2>2. QED
    BY <1>1 DEF OnceInv, QueueOwed
<1>7. RepliesOwed'
  <2>1. SUFFICES ASSUME NEW i \in 1..Len(replies')
                 PROVE  /\ replies'[i].req \in 1..Len(reqs)
                        /\ replies'[i].at \in Unsettled(reqs[replies'[i].req], replies'[i].op)
    BY DEF RepliesOwed, Unsettled, ArrayOf, ResultsOf
  <2>2. CASE i \in 1..Len(replies)
    BY <1>5, <2>2 DEF OnceInv, RepliesOwed
  <2>3. CASE i = n
    BY <1>1, <1>3, <1>5, <1>h, <2>3 DEF OnceInv, QueueOwed
  <2>4. QED
    BY <1>5, <2>2, <2>3
<1>8. CommandsDiffer'
  <2>1. SUFFICES ASSUME NEW i \in 1..Len(queue'), NEW j \in 1..Len(queue'),
                        SamePromise(queue'[i], queue'[j])
                 PROVE  i = j
    BY DEF CommandsDiffer, SamePromise
  <2>2. /\ i + 1 \in 1..Len(queue) /\ queue'[i] = queue[i + 1]
        /\ j + 1 \in 1..Len(queue) /\ queue'[j] = queue[j + 1]
    BY <1>1
  <2>3. i + 1 = j + 1
    BY <2>1, <2>2, Zenon DEF OnceInv, CommandsDiffer
  <2>4. QED
    BY <2>3
<1>9. RepliesDiffer'
  <2>1. SUFFICES ASSUME NEW i \in 1..Len(replies'), NEW j \in 1..Len(replies'),
                        SamePromise(replies'[i], replies'[j])
                 PROVE  i = j
    BY DEF RepliesDiffer, SamePromise
  <2>2. \A a \in 1..Len(replies) : ~SamePromise(h, replies[a])
    BY <1>1, <1>h DEF OnceInv, NotYetAnswered
  <2>3. CASE i \in 1..Len(replies) /\ j \in 1..Len(replies)
    BY <1>5, <2>1, <2>3 DEF OnceInv, RepliesDiffer
  <2>4. CASE i = n /\ j = n
    BY <2>4
  <2>5. QED
    BY <1>3, <1>5, <2>1, <2>2, <2>3, <2>4 DEF SamePromise
<1>10. NotYetAnswered'
  <2>1. SUFFICES ASSUME NEW i \in 1..Len(queue'), NEW j \in 1..Len(replies')
                 PROVE  ~SamePromise(queue'[i], replies'[j])
    BY DEF NotYetAnswered, SamePromise
  <2>2. i + 1 \in 1..Len(queue) /\ queue'[i] = queue[i + 1] /\ i + 1 # 1
    BY <1>1
  <2>3. CASE j \in 1..Len(replies)
    BY <1>5, <2>2, <2>3 DEF OnceInv, NotYetAnswered
  <2>4. CASE j = n
    <3>1. ~SamePromise(queue[i + 1], queue[1])
      BY <1>1, <2>2 DEF OnceInv, CommandsDiffer
    <3>2. QED
      BY <1>3, <1>5, <1>h, <2>2, <2>4, <3>1 DEF SamePromise
  <2>5. QED
    BY <1>5, <2>3, <2>4
<1>11. Settled'
  BY DEF OnceInv, Settled
<1>12. Finite'
  BY DEF OnceInv, Finite
<1>13. SamePromise(queue[1], replies'[Len(replies) + 1]) /\ replies'[Len(replies) + 1].no = no
  BY <1>3, <1>5, <1>h, <1>n
<1>14. QED
  BY <1>1, <1>5, <1>6, <1>7, <1>8, <1>9, <1>10, <1>11, <1>12, <1>13, <1>n

\* Placing is kept while what the debugger was told to break on only grows.
LEMMA StillPlaced ==
    ASSUME OnceInv, NEW x \in Nat, UNCHANGED <<reqs, cache>>,
           \A id, line : IsOn(made, id, line) => IsOn(made', id, line),
           \A i \in 1..Len(replies) : replies'[i] = replies[i],
           \A i \in 1..Len(replies') : i \in 1..Len(replies) \/ i = x,
           replies'[x].op = "break" =>
               IsOn(made', replies'[x].no, reqs[replies'[x].req].add[replies'[x].at].line)
    PROVE  Placed'
<1>1. \A b \in cache : IsOn(made', b.id, b.line)
  BY DEF OnceInv, Placed
<1>2. \A k \in 1..Len(reqs) : PlacedIn(made', reqs[k])
  BY DEF OnceInv, Placed, PlacedIn
<1>3. ASSUME NEW i \in 1..Len(replies'), replies'[i].op = "break"
      PROVE  IsOn(made', replies'[i].no, reqs[replies'[i].req].add[replies'[i].at].line)
  <2>1. CASE i \in 1..Len(replies)
    BY <1>3, <2>1 DEF OnceInv, Placed
  <2>2. CASE i = x
    BY <1>3, <2>2
  <2>3. QED
    BY <2>1, <2>2
<1>4. QED
  BY <1>1, <1>2, <1>3 DEF Placed

LEMMA DeleteKeepsOnce ==
    ASSUME OnceInv, Delete
    PROVE  OnceInv'
<1>id. PICK id : id = Head(queue).bp.id
  OBVIOUS
<1>no. PICK no : no = IF id \in armed THEN id ELSE NaN
  OBVIOUS
<1>1. Reply(no, NaN) /\ armed' = armed \ {id}
  BY <1>id, <1>no DEF Delete
<1>2. /\ queue # <<>> /\ Head(queue).op = "delete"
      /\ UNCHANGED <<cache, reqs, failed, made, overlapped>>
  BY DEF Delete
<1>n. PICK n \in Nat : n = Len(replies) + 1
  BY LenProperties DEF OnceInv, TypeOK
<1>3. no \in Nat /\ NaN \in Nat /\ armed' \subseteq 1..Len(made)
  <2>1. armed \subseteq 1..Len(made) /\ Len(made) \in Nat
    BY LenProperties DEF OnceInv, TypeOK
  <2>2. \A x \in armed : x \in Nat
    BY <2>1
  <2>3. NaN \in Nat
    BY DEF NaN
  <2>4. no \in Nat
    BY <1>no, <2>2, <2>3
  <2>5. QED
    BY <1>1, <2>1, <2>3, <2>4
<1>4. /\ queue' \in Seq(Command) /\ replies' \in Seq(Replies)
      /\ QueueOwed' /\ RepliesOwed' /\ CommandsDiffer' /\ RepliesDiffer'
      /\ NotYetAnswered' /\ Settled' /\ Finite'
      /\ Len(replies) \in Nat
      /\ \A i \in 1..Len(replies) : replies'[i] = replies[i]
      /\ \A i \in 1..Len(replies') : i \in 1..Len(replies) \/ i = n
      /\ SamePromise(queue[1], replies'[n])
  BY <1>1, <1>2, <1>3, <1>n, Carried
<1>5. replies'[n].op = "delete"
  BY <1>2, <1>4, Dropped DEF OnceInv, TypeOK, SamePromise
<1>6. Placed'
  <2>1. \A x, line : IsOn(made, x, line) => IsOn(made', x, line)
    BY <1>2
  <2>2. QED
    BY <1>2, <1>4, <1>5, <2>1, StillPlaced
<1>7. TypeOK'
  BY <1>2, <1>3, <1>4 DEF OnceInv, TypeOK
<1>8. QED
  BY <1>4, <1>6, <1>7 DEF OnceInv

LEMMA BreakKeepsOnce ==
    ASSUME OnceInv, Break
    PROVE  OnceInv'
<1>id. PICK id \in Nat : id = Len(made) + 1
  BY LenProperties DEF OnceInv, TypeOK
<1>n. PICK n \in Nat : n = Len(replies) + 1
  BY LenProperties DEF OnceInv, TypeOK
<1>bp. PICK bp : bp = Head(queue).bp
  OBVIOUS
<1>1. \/ /\ Reply(id, bp.line)
         /\ made' = Append(made, bp)
         /\ armed' = armed \cup {id}
      \/ /\ Refusing
         /\ Reply(NaN, NaN)
         /\ UNCHANGED <<made, armed>>
  BY <1>id, <1>bp DEF Break
<1>2. /\ queue # <<>> /\ Head(queue).op = "break"
      /\ UNCHANGED <<cache, reqs, failed, overlapped>>
  BY DEF Break
<1>3. bp \in Source /\ bp.line \in Nat /\ queue[1].op = "break" /\ 1 \in 1..Len(queue)
      /\ bp = queue[1].bp
  <2>1. /\ bp \in Source /\ queue[1].op = "break" /\ 1 \in 1..Len(queue) /\ bp = queue[1].bp
    BY <1>2, <1>bp, Dropped, CommandFields DEF OnceInv, TypeOK
  <2>2. QED
    BY <2>1, LinesAssumption DEF Source
<1>4. made \in Seq(Source) /\ Len(made) \in Nat /\ armed \subseteq 1..Len(made)
  BY LenProperties DEF OnceInv, TypeOK
<1>5. PICK no \in Nat, line \in Nat :
         /\ Reply(no, line)
         /\ made' \in Seq(Source) /\ armed' \subseteq 1..Len(made')
         /\ \A x, l : IsOn(made, x, l) => IsOn(made', x, l)
         /\ IsOn(made', no, bp.line)
  <2>1. CASE Reply(id, bp.line) /\ made' = Append(made, bp) /\ armed' = armed \cup {id}
    <3>1. /\ made' \in Seq(Source) /\ Len(made') = id /\ made'[id] = bp
          /\ \A i \in 1..Len(made) : made'[i] = made[i]
          /\ \A i \in 1..Len(made) : i \in 1..Len(made')
          /\ id \in 1..Len(made')
      BY <1>3, <1>4, <1>id, <2>1, Appended
    <3>2. armed' \subseteq 1..Len(made')
      BY <1>4, <2>1, <3>1, Zenon
    <3>3. \A x, l : IsOn(made, x, l) => IsOn(made', x, l)
      BY <1>4, <3>1 DEF IsOn
    <3>4. IsOn(made', id, bp.line)
      BY <1>4, <3>1 DEF IsOn
    <3>5. QED
      BY <1>3, <2>1, <3>1, <3>2, <3>3, <3>4
  <2>2. CASE Reply(NaN, NaN) /\ UNCHANGED <<made, armed>>
    <3>1. \A x, l : IsOn(made, x, l) => IsOn(made', x, l)
      BY <2>2
    <3>2. IsOn(made', NaN, bp.line) /\ NaN \in Nat
      BY DEF IsOn, NaN
    <3>3. QED
      BY <1>4, <2>2, <3>1, <3>2
  <2>3. QED
    BY <1>1, <2>1, <2>2
<1>6. /\ queue' \in Seq(Command) /\ replies' \in Seq(Replies)
      /\ QueueOwed' /\ RepliesOwed' /\ CommandsDiffer' /\ RepliesDiffer'
      /\ NotYetAnswered' /\ Settled' /\ Finite'
      /\ Len(replies) \in Nat
      /\ \A i \in 1..Len(replies) : replies'[i] = replies[i]
      /\ \A i \in 1..Len(replies') : i \in 1..Len(replies) \/ i = n
      /\ SamePromise(queue[1], replies'[n]) /\ replies'[n].no = no
  BY <1>2, <1>5, <1>n, Carried
<1>7. reqs[replies'[n].req].add[replies'[n].at] = bp
  BY <1>3, <1>6 DEF SamePromise, OnceInv, QueueOwed, ArrayOf
<1>8. Placed'
  BY <1>2, <1>5, <1>6, <1>7, StillPlaced
<1>9. TypeOK'
  BY <1>2, <1>5, <1>6 DEF OnceInv, TypeOK
<1>10. QED
  BY <1>6, <1>8, <1>9 DEF OnceInv

(***************************************************************************)
(* The theorems.                                                           *)
(***************************************************************************)

\* OnceInv holds in every state.
THEOREM OnceInvariant == Spec => []OnceInv
<1>1. Init => OnceInv
  <2>1. SUFFICES ASSUME Init PROVE OnceInv
    OBVIOUS
  <2>2. TypeOK
    <3>1. /\ reqs = <<>> /\ queue = <<>> /\ replies = <<>> /\ made = <<>>
          /\ cache = {} /\ failed = {} /\ armed = {} /\ overlapped \in BOOLEAN
      BY <2>1 DEF Init
    <3>2. QED
      BY <3>1, EmptySeq DEF TypeOK
  <2>3. Len(reqs) = 0 /\ Len(queue) = 0 /\ Len(replies) = 0 /\ cache = {}
    BY <2>1 DEF Init
  <2>4. QED
    BY <2>2, <2>3, FS_EmptySet DEF OnceInv, QueueOwed, RepliesOwed, CommandsDiffer,
       RepliesDiffer, NotYetAnswered, Settled, Placed, Finite
<1>2. OnceInv /\ [Next]_vars => OnceInv'
  <2>1. SUFFICES ASSUME OnceInv, [Next]_vars PROVE OnceInv'
    OBVIOUS
  <2>2. CASE AnyRequest
    <3>1. PICK want \in Wanted :
             \E remove \in ArraysOf(Removals(want)), add \in ArraysOf(Additions(want)) :
                 SetBreakPoints(want, remove, add)
      BY <2>2 DEF AnyRequest
    <3>2. QED
      BY <2>1, <3>1, SetBreakPointsKeepsOnce
  <2>3. CASE HandleReply
    BY <2>1, <2>3, HandleReplyKeepsOnce
  <2>4. CASE Delete
    BY <2>1, <2>4, DeleteKeepsOnce
  <2>5. CASE Break
    BY <2>1, <2>5, BreakKeepsOnce
  <2>6. CASE UNCHANGED vars
    <3>1. UNCHANGED <<cache, reqs, failed, queue, replies, made, armed, overlapped>>
      BY <2>6 DEF vars
    <3>2. TypeOK' /\ QueueOwed' /\ RepliesOwed' /\ CommandsDiffer' /\ RepliesDiffer'
      BY <2>1, <3>1, Zenon DEF OnceInv, TypeOK, QueueOwed, RepliesOwed, CommandsDiffer,
         RepliesDiffer
    <3>3. NotYetAnswered' /\ Settled' /\ Placed' /\ Finite'
      BY <2>1, <3>1, Zenon DEF OnceInv, NotYetAnswered, Settled, Placed, Finite
    <3>4. QED
      BY <3>2, <3>3 DEF OnceInv
  <2>7. QED
    BY <2>1, <2>2, <2>3, <2>4, <2>5, <2>6 DEF Next
<1>3. QED
  BY <1>1, <1>2, PTL DEF Spec

\* Every variable has its type.
THEOREM TypeCorrect == Spec => []TypeOK
<1>1. OnceInv => TypeOK
  BY DEF OnceInv
<1>2. QED
  BY <1>1, OnceInvariant, PTL

\* A request with something unsettled is not complete.
LEMMA CompleteMeansNone ==
    ASSUME NEW q, Complete(q)
    PROVE  \A op : Unsettled(q, op) = {}
BY DEF Complete, RemovalsDone, AdditionsDone, Unsettled, ArrayOf, ResultsOf

\* No request is answered twice, and none before its last command has been
\* carried out and its reply handled.
THEOREM AlwaysAnsweredOnce == Spec => []AnsweredOnce
<1>1. OnceInv => AnsweredOnce
  <2>1. SUFFICES ASSUME OnceInv, NEW k \in 1..Len(reqs)
                 PROVE  /\ reqs[k].answers <= 1
                        /\ Answered(k) => /\ \A i \in 1..Len(queue) : queue[i].req # k
                                          /\ \A i \in 1..Len(replies) : replies[i].req # k
    BY DEF AnsweredOnce
  <2>2. reqs[k].answers <= 1 /\ (Answered(k) => Complete(reqs[k]))
    BY <2>1 DEF OnceInv, Settled, SettledOf, Answered
  <2>3. Complete(reqs[k]) => \A op : Unsettled(reqs[k], op) = {}
    BY CompleteMeansNone
  <2>4. \A i \in 1..Len(queue) : queue[i].req = k => Unsettled(reqs[k], queue[i].op) # {}
    BY <2>1 DEF OnceInv, QueueOwed
  <2>5. \A i \in 1..Len(replies) : replies[i].req = k => Unsettled(reqs[k], replies[i].op) # {}
    BY <2>1 DEF OnceInv, RepliesOwed
  <2>6. QED
    BY <2>2, <2>3, <2>4, <2>5
<1>2. QED
  BY <1>1, OnceInvariant, PTL

\* However many requests overlap and whatever is refused, the positions of the
\* replies and of the breakpoints they are about agree: an id that is cached or
\* reported is that of a breakpoint on the line it stands for.
THEOREM IdsAlwaysBelongToLines == Spec => []IdsBelongToLines
<1>1. OnceInv => IdsBelongToLines
  BY DEF OnceInv, Placed, PlacedIn, IsOn, IdsBelongToLines
<1>2. QED
  BY <1>1, OnceInvariant, PTL

(***************************************************************************)
(* What client, adapter and debugger agree on while requests do not overlap *)
(***************************************************************************)

\* The debugger holds id because of the cache, of a delete it has not carried
\* out, or of a break whose reply is on its way or waits for the others.
Deleting(id) == \E i \in 1..Len(queue) : queue[i].op = "delete" /\ queue[i].bp.id = id
Placing(id)  == \E i \in 1..Len(replies) : replies[i].op = "break" /\ replies[i].no = id

Held(q, id) ==
    \/ \E b \in cache : b.id = id
    \/ Deleting(id)
    \/ Placing(id)
    \/ \E a \in q.added : a.no = id

AgreedOn(q) ==
    /\ \A j \in 1..Len(reqs) : j # Len(reqs) => Answered(j)
    /\ cache = q.existing
    /\ \A id \in Nat \ {NaN} : id \in armed <=> Held(q, id)
    /\ LinesOf(q.want) = LinesOf(cache) \cup LinesOf(Elements(q.add))
    /\ LinesOf(Elements(q.remove)) \cap LinesOf(q.want) = {}
    /\ Elements(q.add) \subseteq q.want
    /\ OnePerLine(cache) /\ OnePerLine(Elements(q.remove))
    /\ AdditionsDone(q) => NewEntries(q) \subseteq cache
    /\ ~AdditionsDone(q) => LinesOf(cache) \cap LinesOf(Elements(q.add)) = {}

Agreement ==
    /\ reqs = <<>> => cache = {} /\ armed = {}
    /\ ~overlapped /\ reqs # <<>> => AgreedOn(reqs[Len(reqs)])

AgreedInv == OnceInv /\ Agreement

LEMMA LineIn ==
    /\ \A bps, b : b \in bps => b.line \in LinesOf(bps)
    /\ \A bps, l : l \in LinesOf(bps) => \E b \in bps : b.line = l
BY DEF LinesOf

\* Nothing is on its way when every request has been answered.
LEMMA NothingOwed ==
    ASSUME OnceInv, Quiet
    PROVE  Len(queue) = 0 /\ Len(replies) = 0
<1>1. \A k \in 1..Len(reqs) : Complete(reqs[k])
  BY DEF OnceInv, Settled, SettledOf, Quiet, Answered
<1>2. \A k \in 1..Len(reqs) : \A op : Unsettled(reqs[k], op) = {}
  BY <1>1, CompleteMeansNone
<1>3. \A i \in 1..Len(queue) : FALSE
  BY <1>2 DEF OnceInv, QueueOwed
<1>4. \A i \in 1..Len(replies) : FALSE
  BY <1>2 DEF OnceInv, RepliesOwed
<1>5. Len(queue) \in Nat /\ Len(replies) \in Nat
  BY LenProperties DEF OnceInv, TypeOK
<1>6. QED
  BY <1>3, <1>4, <1>5

\* The new entries of a request, by the position of their promise.
LEMMA EntryOf ==
    ASSUME NEW q
    PROVE  /\ \A e \in NewEntries(q) : \E a \in q.added :
                 e.id = a.no /\ e.line = q.add[a.at].line /\ e = WithId(q.add[a.at], a.no)
           /\ \A a \in q.added : \E e \in NewEntries(q) :
                 e.id = a.no /\ e.line = q.add[a.at].line
<1>1. ASSUME NEW a
      PROVE  LET e == WithId(q.add[a.at], a.no) IN e.id = a.no /\ e.line = q.add[a.at].line
  BY DEF WithId
<1>2. QED
  BY <1>1 DEF NewEntries

\* When every addition is resolved, the new entries are on the lines asked for.
LEMMA EntriesOnLines ==
    ASSUME NEW q, AdditionsDone(q)
    PROVE  LinesOf(NewEntries(q)) = LinesOf(Elements(q.add))
<1>1. ASSUME NEW l \in LinesOf(NewEntries(q)) PROVE l \in LinesOf(Elements(q.add))
  <2>0. PICK e \in NewEntries(q) : e.line = l
    BY LineIn
  <2>1. PICK a \in q.added : l = q.add[a.at].line
    BY <2>0, EntryOf
  <2>2. q.add[a.at] \in Elements(q.add)
    BY DEF AdditionsDone, Positions, Elements
  <2>3. QED
    BY <2>1, <2>2, LineIn
<1>2. ASSUME NEW l \in LinesOf(Elements(q.add)) PROVE l \in LinesOf(NewEntries(q))
  <2>1. PICK i \in 1..Len(q.add) : q.add[i].line = l
    BY LineIn DEF Elements
  <2>2. PICK a \in q.added : a.at = i
    BY DEF AdditionsDone, Positions
  <2>3. PICK e \in NewEntries(q) : e.line = q.add[a.at].line
    BY EntryOf
  <2>4. QED
    BY <2>1, <2>2, <2>3, LineIn
<1>3. QED
  BY <1>1, <1>2

\* Between requests the cache and the debugger agree on what is held.
LEMMA QuietFacts ==
    ASSUME AgreedInv, Quiet, ~overlapped
    PROVE  /\ Len(queue) = 0 /\ Len(replies) = 0
           /\ OnePerLine(cache)
           /\ \A id \in Nat \ {NaN} : id \in armed <=> \E b \in cache : b.id = id
           /\ reqs # <<>> => LinesOf(reqs[Len(reqs)].want) = LinesOf(cache)
<1>1. Len(queue) = 0 /\ Len(replies) = 0
  BY NothingOwed DEF AgreedInv
<1>2. CASE reqs = <<>>
  BY <1>1, <1>2 DEF AgreedInv, Agreement, OnePerLine
<1>3. CASE reqs # <<>>
  <2>q. PICK q : q = reqs[Len(reqs)]
    OBVIOUS
  <2>1. AgreedOn(q) /\ Len(reqs) \in 1..Len(reqs)
    <3>1. Len(reqs) \in 1..Len(reqs)
      BY <1>3, LenProperties, EmptySeq DEF AgreedInv, OnceInv, TypeOK
    <3>2. QED
      BY <1>3, <2>q, <3>1 DEF AgreedInv, Agreement
  <2>2. AdditionsDone(q)
    BY <2>1, <2>q DEF Quiet, Answered, AgreedInv, OnceInv, Settled, SettledOf, Complete
  <2>3. NewEntries(q) \subseteq cache
    BY <2>1, <2>2 DEF AgreedOn
  <2>4. \A a \in q.added : \E b \in cache : b.id = a.no
    BY <2>3, EntryOf
  <2>5. \A id : Held(q, id) <=> \E b \in cache : b.id = id
    <3>1. \A i \in 1..Len(queue) : FALSE
      BY <1>1
    <3>2. \A i \in 1..Len(replies) : FALSE
      BY <1>1
    <3>3. QED
      BY <2>4, <3>1, <3>2 DEF Held, Deleting, Placing
  <2>6. LinesOf(Elements(q.add)) \subseteq LinesOf(cache)
    <3>1. LinesOf(NewEntries(q)) \subseteq LinesOf(cache)
      BY <2>3, LineIn
    <3>2. QED
      BY <2>2, <3>1, EntriesOnLines
  <2>7. /\ \A id \in Nat \ {NaN} : id \in armed <=> Held(q, id)
        /\ OnePerLine(cache)
        /\ LinesOf(q.want) = LinesOf(cache) \cup LinesOf(Elements(q.add))
    BY <2>1 DEF AgreedOn
  <2>8. QED
    BY <1>1, <2>5, <2>6, <2>7, <2>q
<1>4. QED
  BY <1>2, <1>3

LEMMA SetBreakPointsKeepsAgreement ==
    ASSUME AgreedInv, NEW want \in Wanted,
           NEW remove \in ArraysOf(Removals(want)), NEW add \in ArraysOf(Additions(want)),
           SetBreakPoints(want, remove, add)
    PROVE  Agreement'
<1>1. PICK n \in Nat : n = Len(reqs) + 1
  BY LenProperties DEF AgreedInv, OnceInv, TypeOK
<1>2. /\ reqs' \in Seq(Request) /\ Len(reqs) \in Nat /\ Len(reqs') = n
      /\ \A k \in 1..Len(reqs) : reqs'[k] = reqs[k]
      /\ \A k \in 1..Len(reqs') : k \in 1..Len(reqs) \/ k = n
      /\ NewRequest(want, remove, add, reqs'[n])
  BY <1>1, Recorded DEF AgreedInv, OnceInv
<1>3. PICK z : z = reqs'[n]
  OBVIOUS
<1>4. reqs' # <<>>
  BY <1>1, <1>2
<1>5. SUFFICES ASSUME ~overlapped' PROVE AgreedOn(z)'
  BY <1>2, <1>3, <1>4 DEF Agreement
<1>6. ~overlapped /\ Quiet
  BY <1>5 DEF SetBreakPoints, Quiet
<1>7. /\ Len(queue) = 0 /\ Len(replies) = 0
      /\ OnePerLine(cache)
      /\ \A id \in Nat \ {NaN} : id \in armed <=> \E b \in cache : b.id = id
  BY <1>6, QuietFacts
<1>8. cache' = Kept(want) /\ UNCHANGED <<replies, armed>>
  BY DEF SetBreakPoints
<1>a. Elements(remove) = Removals(want) /\ Elements(add) = Additions(want)
  <2>1. IsFiniteSet(Removals(want)) /\ IsFiniteSet(Additions(want))
    BY ListsFinite DEF AgreedInv, OnceInv
  <2>2. Elements(remove) = Removals(want)
    BY <2>1, ArrayShape
  <2>3. Elements(add) = Additions(want)
    BY <2>1, ArrayShape
  <2>4. QED
    BY <2>2, <2>3
<1>9. \A id : Deleting(id)' <=> \E b \in Removals(want) : b.id = id
  <2>1. /\ \A i \in 1..Len(queue') : IsNew(queue'[i], Len(reqs) + 1, remove, add)
        /\ \A p \in 1..Len(remove) : \E i \in 1..Len(queue') :
              queue'[i].op = "delete" /\ queue'[i].bp = remove[p]
    BY <1>7, Sent DEF AgreedInv, OnceInv
  <2>2. \A i \in 1..Len(queue') : queue'[i].op = "delete" => queue'[i].bp \in Removals(want)
    BY <1>a, <2>1 DEF IsNew, Elements
  <2>3. \A b \in Removals(want) : \E i \in 1..Len(queue') :
           queue'[i].op = "delete" /\ queue'[i].bp = b
    BY <1>a, <2>1 DEF Elements
  <2>4. QED
    BY <2>2, <2>3 DEF Deleting
<1>10. /\ z.want = want /\ z.existing = Kept(want) /\ z.remove = remove
       /\ z.add = add /\ z.added = {}
  BY <1>2, <1>3 DEF NewRequest
<1>11. (\A j \in 1..Len(reqs) : j # Len(reqs) => Answered(j))'
  BY <1>1, <1>2, <1>6 DEF Quiet, Answered
<1>12. (\A id \in Nat \ {NaN} : id \in armed <=> Held(z, id))'
  <2>1. \A id : Held(z, id)' <=> \E b \in Kept(want) \cup Removals(want) : b.id = id
    <3>1. \A i \in 1..Len(replies') : FALSE
      BY <1>7, <1>8
    <3>2. \A id : ~Placing(id)'
      BY <3>1 DEF Placing
    <3>3. QED
      BY <1>8, <1>9, <1>10, <3>2 DEF Held
  <2>2. Kept(want) \cup Removals(want) = cache
    BY DEF Kept, Removals
  <2>3. QED
    BY <1>7, <1>8, <2>1, <2>2
<1>13. LinesOf(want) = LinesOf(Kept(want)) \cup LinesOf(Additions(want))
  <2>1. ASSUME NEW l \in LinesOf(want)
        PROVE  l \in LinesOf(Kept(want)) \cup LinesOf(Additions(want))
    BY LineIn DEF Kept, Removals, Additions
  <2>2. LinesOf(Kept(want)) \subseteq LinesOf(want)
    BY LineIn DEF Kept, Removals
  <2>3. LinesOf(Additions(want)) \subseteq LinesOf(want)
    BY LineIn DEF Additions
  <2>4. QED
    BY <2>1, <2>2, <2>3
<1>14. LinesOf(Removals(want)) \cap LinesOf(want) = {}
  BY LineIn DEF Removals
<1>15. Additions(want) \subseteq want
  BY DEF Additions
<1>16. OnePerLine(Kept(want)) /\ OnePerLine(Removals(want))
  BY <1>7 DEF OnePerLine, Kept, Removals
<1>17. NewEntries(z) = {}
  BY <1>10 DEF NewEntries
<1>18. LinesOf(Kept(want)) \cap LinesOf(Additions(want)) = {}
  <2>1. LinesOf(Kept(want)) \subseteq LinesOf(cache)
    BY LineIn DEF Kept
  <2>2. LinesOf(Additions(want)) \cap LinesOf(cache) = {}
    BY LineIn DEF Additions
  <2>3. QED
    BY <2>1, <2>2
<1>19. QED
  BY <1>8, <1>a, <1>10, <1>11, <1>12, <1>13, <1>14, <1>15, <1>16, <1>17, <1>18 DEF AgreedOn

\* While requests do not overlap, only the last one has commands on their way.
LEMMA OnlyTheLast ==
    ASSUME AgreedInv, ~overlapped, reqs # <<>>
    PROVE  /\ Len(reqs) \in 1..Len(reqs) /\ AgreedOn(reqs[Len(reqs)])
           /\ \A i \in 1..Len(queue) : queue[i].req = Len(reqs)
           /\ \A i \in 1..Len(replies) : replies[i].req = Len(reqs)
<1>1. Len(reqs) \in 1..Len(reqs) /\ AgreedOn(reqs[Len(reqs)])
  <2>1. Len(reqs) \in 1..Len(reqs)
    BY LenProperties, EmptySeq DEF AgreedInv, OnceInv, TypeOK
  <2>2. QED
    BY <2>1 DEF AgreedInv, Agreement
<1>2. \A j \in 1..Len(reqs) : j # Len(reqs) => \A op : Unsettled(reqs[j], op) = {}
  <2>1. \A j \in 1..Len(reqs) : j # Len(reqs) => Complete(reqs[j])
    BY <1>1 DEF AgreedOn, Answered, AgreedInv, OnceInv, Settled, SettledOf
  <2>2. QED
    BY <2>1, CompleteMeansNone
<1>3. QED
  BY <1>1, <1>2 DEF AgreedInv, OnceInv, QueueOwed, RepliesOwed

LEMMA HandleReplyKeepsAgreement ==
    ASSUME AgreedInv, HandleReply
    PROVE  Agreement'
<1>1. PICK r : r = Head(replies)
  OBVIOUS
<1>2. PICK k : k = r.req
  OBVIOUS
<1>3. PICK q : q = reqs[k]
  OBVIOUS
<1>4. PICK z : z = reqs'[k]
  OBVIOUS
<1>5. /\ replies # <<>> /\ r \in Replies /\ r = replies[1]
      /\ k \in 1..Len(reqs) /\ q \in Request
      /\ reqs' \in Seq(Request) /\ Len(reqs') = Len(reqs) /\ Len(reqs) \in Nat
      /\ HandledRequest(q, r, z)
      /\ \A j \in 1..Len(reqs) : j # k => reqs'[j] = reqs[j]
      /\ cache' = IF r.op = "break" /\ AdditionsDone(z) THEN z.existing ELSE cache
  BY <1>1, <1>2, <1>3, <1>4, Handled, Zenon DEF AgreedInv, OnceInv
<1>6. /\ Len(replies) \in Nat /\ 1 \in 1..Len(replies)
      /\ Len(replies') = Len(replies) - 1
      /\ \A i \in 1..Len(replies') : i + 1 \in 1..Len(replies) /\ replies'[i] = replies[i + 1]
  <2>1. replies' = Tail(replies) /\ replies \in Seq(Replies)
    BY DEF HandleReply, AgreedInv, OnceInv, TypeOK
  <2>2. QED
    BY <1>5, <2>1, Dropped
<1>7. UNCHANGED <<queue, made, armed, overlapped>>
  BY DEF HandleReply
<1>8. reqs # <<>> /\ reqs' # <<>>
  BY <1>5
<1>9. SUFFICES ASSUME ~overlapped PROVE AgreedOn(reqs[Len(reqs)])'
  BY <1>7, <1>8 DEF Agreement
<1>10. k = Len(reqs) /\ AgreedOn(q)
  BY <1>2, <1>3, <1>5, <1>6, <1>8, <1>9, OnlyTheLast
<1>11. reqs'[Len(reqs')] = z
  BY <1>4, <1>5, <1>10
<1>12. SUFFICES AgreedOn(z)'
  BY <1>11 DEF AgreedOn, Held, Deleting, Placing
<1>13. r.op \in {"delete", "break"} /\ z.want = q.want /\ z.remove = q.remove /\ z.add = q.add
  BY <1>5, ReplyFields DEF HandledRequest
<1>14. (\A j \in 1..Len(reqs) : j # Len(reqs) => Answered(j))'
  BY <1>5, <1>10 DEF AgreedOn, Answered
<1>15. \A i \in 1..Len(replies) : i = 1 \/ \E j \in 1..Len(replies') : replies'[j] = replies[i]
  <2>1. ASSUME NEW i \in 1..Len(replies), i # 1
        PROVE  i - 1 \in 1..Len(replies') /\ replies'[i - 1] = replies[i]
    <3>1. i - 1 \in 1..Len(replies') /\ (i - 1) + 1 = i
      BY <1>6, <2>1
    <3>2. QED
      BY <1>6, <3>1
  <2>2. QED
    BY <2>1
<1>16. \A j \in 1..Len(replies') : \E i \in 1..Len(replies) : replies'[j] = replies[i]
  BY <1>6
<1>17. ResultOf(r).at = r.at /\ ResultOf(r).no = r.no
  BY DEF ResultOf
<1>0. ASSUME NEW id
      PROVE  Placing(id) <=> Placing(id)' \/ (r.op = "break" /\ r.no = id)
  <2>1. Placing(id)' => Placing(id)
    BY <1>16, Zenon DEF Placing
  <2>2. r.op = "break" /\ r.no = id => Placing(id)
    BY <1>5, <1>6, Zenon DEF Placing
  <2>3. Placing(id) => Placing(id)' \/ (r.op = "break" /\ r.no = id)
    BY <1>5, <1>15, Zenon DEF Placing
  <2>4. QED
    BY <2>1, <2>2, <2>3
<1>b. \A id : Deleting(id)' <=> Deleting(id)
  BY <1>7 DEF Deleting
<1>18. CASE r.op = "delete"
  <2>1. z.added = q.added /\ z.existing = q.existing /\ cache' = cache
    BY <1>5, <1>18 DEF HandledRequest
  <2>2. \A id : Held(z, id)' <=> Held(q, id)
    <3>1. ASSUME NEW id PROVE Placing(id)' <=> Placing(id)
      BY <1>0, <1>18
    <3>2. ASSUME NEW id PROVE Held(z, id)' <=> Held(q, id)
      BY <1>b, <2>1, <3>1 DEF Held
    <3>3. QED
      BY <3>2
  <2>3. NewEntries(z) = NewEntries(q) /\ (AdditionsDone(z) <=> AdditionsDone(q))
    BY <1>13, <2>1 DEF NewEntries, AdditionsDone
  <2>4. QED
    BY <1>7, <1>10, <1>13, <1>14, <2>1, <2>2, <2>3 DEF AgreedOn
<1>c. ASSUME r.op = "break" PROVE LinesOf(cache) \cap LinesOf(Elements(q.add)) = {}
  <2>1. r.at \in 1..Len(q.add) /\ r.at \notin Positions(q.added)
    BY <1>c, <1>1, <1>2, <1>3, <1>5, <1>6
       DEF AgreedInv, OnceInv, RepliesOwed, Unsettled, ArrayOf, ResultsOf
  <2>2. ~AdditionsDone(q)
    BY <2>1 DEF AdditionsDone
  <2>3. QED
    BY <1>10, <2>2 DEF AgreedOn
<1>d. ASSUME r.op = "break"
      PROVE  /\ \A id : Placing(id) <=> Placing(id)' \/ r.no = id
             /\ z.added = q.added \cup {ResultOf(r)}
             /\ \A id : (\E a \in z.added : a.no = id)
                        <=> (\E a \in q.added : a.no = id) \/ r.no = id
  <2>1. ASSUME NEW id PROVE Placing(id) <=> Placing(id)' \/ r.no = id
    BY <1>0, <1>d
  <2>2. z.added = q.added \cup {ResultOf(r)}
    BY <1>5, <1>d DEF HandledRequest
  <2>3. QED
    BY <1>17, <2>1, <2>2
<1>19. CASE r.op = "break" /\ ~AdditionsDone(z)
  <2>1. z.existing = q.existing /\ cache' = cache
    BY <1>5, <1>19 DEF HandledRequest
  <2>2. \A id : Held(z, id)' <=> Held(q, id)
    <3>1. ASSUME NEW id PROVE Held(z, id)' <=> Held(q, id)
      BY <1>19, <1>b, <1>d, <2>1 DEF Held
    <3>2. QED
      BY <3>1
  <2>3. QED
    BY <1>7, <1>10, <1>13, <1>14, <1>19, <1>c, <2>1, <2>2 DEF AgreedOn
<1>20. CASE r.op = "break" /\ AdditionsDone(z)
  <2>1. cache' = cache \cup NewEntries(z) /\ cache' = z.existing
    BY <1>5, <1>10, <1>20 DEF HandledRequest, AgreedOn
  <2>2. \A id : Held(z, id)' <=> Held(q, id)
    <3>1. \A id : (\E b \in cache' : b.id = id)
                  <=> (\E b \in cache : b.id = id) \/ (\E a \in z.added : a.no = id)
      <4>1. \A id : (\E b \in NewEntries(z) : b.id = id) <=> (\E a \in z.added : a.no = id)
        <5>1. ASSUME NEW e \in NewEntries(z) PROVE \E a \in z.added : a.no = e.id
          BY EntryOf
        <5>2. ASSUME NEW a \in z.added PROVE \E e \in NewEntries(z) : e.id = a.no
          BY EntryOf
        <5>3. QED
          BY <5>1, <5>2
      <4>2. QED
        BY <2>1, <4>1
    <3>2. ASSUME NEW id PROVE Held(z, id)' <=> Held(q, id)
      BY <1>20, <1>b, <1>d, <3>1 DEF Held
    <3>3. QED
      BY <3>2
  <2>3. LinesOf(NewEntries(z)) = LinesOf(Elements(z.add))
    BY <1>20, EntriesOnLines
  <2>4. LinesOf(cache') = LinesOf(cache) \cup LinesOf(Elements(z.add))
    <3>1. LinesOf(cache') = LinesOf(cache) \cup LinesOf(NewEntries(z))
      BY <2>1 DEF LinesOf
    <3>2. QED
      BY <2>3, <3>1
  <2>5. OnePerLine(NewEntries(z))
    <3>1. SUFFICES ASSUME NEW d \in NewEntries(z), NEW e \in NewEntries(z), d.line = e.line
                   PROVE  d = e
      BY DEF OnePerLine
    <3>2. PICK a \in z.added :
             d.line = z.add[a.at].line /\ d = WithId(z.add[a.at], a.no)
      BY EntryOf
    <3>3. PICK b \in z.added :
             e.line = z.add[b.at].line /\ e = WithId(z.add[b.at], b.no)
      BY EntryOf
    <3>4. a.at \in 1..Len(z.add) /\ b.at \in 1..Len(z.add)
      BY <1>20 DEF AdditionsDone, Positions
    <3>5. z.add[a.at] \in q.want /\ z.add[b.at] \in q.want
      <4>1. Elements(q.add) \subseteq q.want
        BY <1>10 DEF AgreedOn
      <4>2. QED
        BY <1>13, <3>4, <4>1 DEF Elements
    <3>6. OnePerLine(q.want)
      BY <1>5, RequestFields DEF Wanted
    <3>7. z.add[a.at] = z.add[b.at]
      BY <3>1, <3>2, <3>3, <3>5, <3>6 DEF OnePerLine
    <3>8. SettledOf(z)
      <4>1. Settled'
        BY HandleReplyKeepsOnce DEF AgreedInv, OnceInv
      <4>2. SettledOf(reqs'[k])
        BY <1>5, <4>1 DEF Settled, SettledOf, Complete, RemovalsDone, AdditionsDone,
           Positions, Distinct
      <4>3. QED
        BY <1>4, <4>2
    <3>9. a.at = b.at
      BY <3>4, <3>7, <3>8 DEF SettledOf, Distinct
    <3>10. a = b
      BY <3>8, <3>9 DEF SettledOf
    <3>11. QED
      BY <3>2, <3>3, <3>10
  <2>6. OnePerLine(cache')
    <3>1. OnePerLine(cache)
      BY <1>10 DEF AgreedOn
    <3>2. \A d \in cache, e \in NewEntries(z) : d.line # e.line
      BY <1>13, <1>20, <1>c, <2>3, LineIn
    <3>3. QED
      BY <2>1, <2>5, <3>1, <3>2 DEF OnePerLine
  <2>7. LinesOf(z.want) = LinesOf(cache') \cup LinesOf(Elements(z.add))
    BY <1>10, <1>13, <2>4 DEF AgreedOn
  <2>8. QED
    BY <1>7, <1>10, <1>13, <1>14, <1>20, <2>1, <2>2, <2>6, <2>7 DEF AgreedOn
<1>21. QED
  BY <1>13, <1>18, <1>19, <1>20

\* Taking the first command leaves the deletions that come after it.
DeletingLater(id) ==
    \E j \in 1..Len(queue) : j # 1 /\ queue[j].op = "delete" /\ queue[j].bp.id = id

LEMMA Remaining ==
    ASSUME TypeOK, queue # <<>>, queue' = Tail(queue), NEW id
    PROVE  Deleting(id)' <=> DeletingLater(id)
<1>1. /\ Len(queue) \in Nat /\ Len(queue') = Len(queue) - 1
      /\ \A i \in 1..Len(queue') : i + 1 \in 1..Len(queue) /\ queue'[i] = queue[i + 1]
  BY Dropped DEF TypeOK
<1>2. ASSUME Deleting(id)' PROVE DeletingLater(id)
  <2>1. PICK i \in 1..Len(queue') : queue'[i].op = "delete" /\ queue'[i].bp.id = id
    BY <1>2 DEF Deleting
  <2>2. i + 1 \in 1..Len(queue) /\ i + 1 # 1 /\ queue[i + 1] = queue'[i]
    BY <1>1
  <2>3. QED
    BY <2>1, <2>2 DEF DeletingLater
<1>3. ASSUME DeletingLater(id) PROVE Deleting(id)'
  <2>1. PICK j \in 1..Len(queue) : j # 1 /\ queue[j].op = "delete" /\ queue[j].bp.id = id
    BY <1>3 DEF DeletingLater
  <2>2. j - 1 \in 1..Len(queue') /\ (j - 1) + 1 = j
    BY <1>1, <2>1
  <2>3. queue'[j - 1] = queue[j]
    BY <1>1, <2>2
  <2>4. QED
    BY <2>1, <2>2, <2>3 DEF Deleting
<1>4. QED
  BY <1>2, <1>3

\* A reply is added to those that place a breakpoint.
LEMMA OneMorePlacing ==
    ASSUME TypeOK, NEW x, replies' = Append(replies, x), NEW id
    PROVE  Placing(id)' <=> Placing(id) \/ (x.op = "break" /\ x.no = id)
<1>1. /\ Len(replies) \in Nat /\ Len(replies') = Len(replies) + 1
      /\ replies'[Len(replies) + 1] = x
      /\ \A i \in 1..Len(replies) : replies'[i] = replies[i]
      /\ \A i \in 1..Len(replies') : i \in 1..Len(replies) \/ i = Len(replies) + 1
  <2>1. replies \in Seq(Replies \cup {x})
    BY SeqMonotonic DEF TypeOK
  <2>2. QED
    BY <2>1, Appended
<1>2. /\ \A i \in 1..Len(replies) : i \in 1..Len(replies')
      /\ Len(replies) + 1 \in 1..Len(replies')
  BY <1>1
<1>3. QED
  BY <1>1, <1>2, Zenon DEF Placing

\* The agreement of the last request depends on the debugger only through armed
\* and what is on its way.
LEMMA StillAgreed ==
    ASSUME NEW q, AgreedOn(q), UNCHANGED <<reqs, cache>>,
           \A id \in Nat \ {NaN} : id \in armed' <=> Held(q, id)'
    PROVE  AgreedOn(q)'
BY DEF AgreedOn, Answered

LEMMA DeleteKeepsAgreement ==
    ASSUME AgreedInv, Delete
    PROVE  Agreement'
<1>bp. PICK bp : bp = Head(queue).bp
  OBVIOUS
<1>1. /\ Reply(IF bp.id \in armed THEN bp.id ELSE NaN, NaN)
      /\ armed' = armed \ {bp.id}
  BY <1>bp DEF Delete
<1>2. /\ queue # <<>> /\ Head(queue).op = "delete"
      /\ UNCHANGED <<cache, reqs, failed, made, overlapped>>
  BY DEF Delete
<1>3. /\ Len(queue) \in Nat /\ 1 \in 1..Len(queue) /\ Head(queue) = queue[1]
      /\ queue[1].op = "delete" /\ bp = queue[1].bp
  BY <1>2, <1>bp, Dropped DEF AgreedInv, OnceInv, TypeOK
<1>4. reqs # <<>>
  BY <1>3 DEF AgreedInv, OnceInv, QueueOwed
<1>5. SUFFICES ASSUME ~overlapped PROVE AgreedOn(reqs[Len(reqs)])'
  BY <1>2, <1>4 DEF Agreement
<1>6. PICK q : q = reqs[Len(reqs)]
  OBVIOUS
<1>7. /\ Len(reqs) \in 1..Len(reqs) /\ AgreedOn(q)
      /\ \A i \in 1..Len(queue) : queue[i].req = Len(reqs)
      /\ \A i \in 1..Len(replies) : replies[i].req = Len(reqs)
  BY <1>4, <1>5, <1>6, OnlyTheLast
<1>8. SUFFICES ASSUME NEW x \in Nat \ {NaN} PROVE x \in armed' <=> Held(q, x)'
  BY <1>2, <1>6, <1>7, StillAgreed
<1>9. x \in armed' <=> Held(q, x) /\ x # bp.id
  BY <1>1, <1>7 DEF AgreedOn
<1>10. Deleting(x)' <=> DeletingLater(x)
  <2>1. queue' = Tail(queue)
    BY <1>1 DEF Reply
  <2>2. QED
    BY <1>2, <2>1, Remaining DEF AgreedInv, OnceInv
<1>11. Placing(x)' <=> Placing(x)
  <2>1. PICK no : no = IF bp.id \in armed THEN bp.id ELSE NaN
    OBVIOUS
  <2>2. PICK a : a = [req |-> Head(queue).req, op |-> Head(queue).op, at |-> Head(queue).at,
                      no |-> no, line |-> NaN]
    OBVIOUS
  <2>3. a.op = "delete" /\ replies' = Append(replies, a)
    BY <1>1, <1>2, <2>1, <2>2 DEF Reply
  <2>4. QED
    BY <2>3, OneMorePlacing DEF AgreedInv, OnceInv
<1>12. Held(q, x) /\ x # bp.id => Held(q, x)'
  <2>1. Deleting(x) /\ x # bp.id => Deleting(x)'
    BY <1>3, <1>10 DEF Deleting, DeletingLater
  <2>2. QED
    BY <1>2, <1>11, <2>1 DEF Held
<1>13. Held(q, x)' => Held(q, x)
  <2>1. Deleting(x)' => Deleting(x)
    BY <1>10 DEF Deleting, DeletingLater
  <2>2. QED
    BY <1>2, <1>11, <2>1 DEF Held
<1>c. \A i \in 1..Len(queue) : queue[i].op = "delete" =>
         /\ queue[i].bp \in Elements(q.remove)
         /\ queue[i].bp = q.remove[queue[i].at] /\ queue[i].at \in 1..Len(q.remove)
  BY <1>6, <1>7 DEF AgreedInv, OnceInv, QueueOwed, Unsettled, ArrayOf, Elements
<1>14. ASSUME Held(q, x)', x = bp.id PROVE FALSE
  <2>1. bp \in Elements(q.remove)
    BY <1>3, <1>c
  <2>2. \A b \in Elements(q.remove) : IsOn(made, b.id, b.line)
    BY <1>6, <1>7 DEF AgreedInv, OnceInv, Placed, PlacedIn
  <2>3. made[x].line = bp.line
    BY <1>8, <1>14, <2>1, <2>2 DEF IsOn
  <2>4. bp.line \notin LinesOf(q.want)
    BY <1>7, <2>1, LineIn DEF AgreedOn
  <2>5. \A b \in Elements(q.add) \cup cache : b.line # bp.line
    <3>1. \A b \in q.want : b.line # bp.line
      BY <2>4, LineIn
    <3>2. Elements(q.add) \subseteq q.want
      BY <1>7 DEF AgreedOn
    <3>3. \A b \in cache : b.line \in LinesOf(q.want)
      BY <1>7, LineIn DEF AgreedOn
    <3>4. QED
      BY <2>4, <3>1, <3>2, <3>3
  <2>6. \A b \in cache : b.id # x
    <3>1. \A b \in cache : b.id = x => made[x].line = b.line
      BY <1>8 DEF AgreedInv, OnceInv, Placed, IsOn
    <3>2. QED
      BY <2>3, <2>5, <3>1
  <2>7. ~Placing(x)
    <3>1. ASSUME NEW i \in 1..Len(replies), replies[i].op = "break", replies[i].no = x
          PROVE  FALSE
      <4>1. made[x].line = q.add[replies[i].at].line
        BY <1>6, <1>7, <1>8, <3>1 DEF AgreedInv, OnceInv, Placed, IsOn
      <4>2. q.add[replies[i].at] \in Elements(q.add)
        BY <1>6, <1>7, <3>1 DEF AgreedInv, OnceInv, RepliesOwed, Unsettled, ArrayOf, Elements
      <4>3. QED
        BY <2>3, <2>5, <4>1, <4>2
    <3>2. QED
      BY <3>1 DEF Placing
  <2>8. \A a \in q.added : a.no # x
    <3>1. \A a \in q.added : a.no = x => made[x].line = q.add[a.at].line
      BY <1>6, <1>7, <1>8 DEF AgreedInv, OnceInv, Placed, PlacedIn, IsOn
    <3>2. \A a \in q.added : q.add[a.at] \in Elements(q.add)
      BY <1>6, <1>7 DEF AgreedInv, OnceInv, Settled, SettledOf, Positions, Elements
    <3>3. QED
      BY <2>3, <2>5, <3>1, <3>2
  <2>9. Deleting(x)'
    BY <1>2, <1>11, <1>14, <2>6, <2>7, <2>8 DEF Held
  <2>10. PICK j \in 1..Len(queue) : j # 1 /\ queue[j].op = "delete" /\ queue[j].bp.id = x
    BY <1>10, <2>9 DEF DeletingLater
  <2>11. queue[j].bp.line = bp.line
    BY <1>8, <1>c, <2>2, <2>3, <2>10 DEF IsOn
  <2>12. queue[j].bp = bp
    BY <1>7, <1>c, <2>1, <2>10, <2>11 DEF AgreedOn, OnePerLine
  <2>13. queue[j].at = queue[1].at
    <3>1. Distinct(q.remove)
      BY <1>6, <1>7 DEF AgreedInv, OnceInv, Settled, SettledOf
    <3>2. q.remove[queue[j].at] = q.remove[queue[1].at]
      BY <1>3, <1>c, <2>10, <2>12
    <3>3. QED
      BY <1>3, <1>c, <2>10, <3>1, <3>2 DEF Distinct
  <2>14. SamePromise(queue[j], queue[1])
    BY <1>3, <1>7, <2>10, <2>13 DEF SamePromise
  <2>15. QED
    BY <1>3, <2>10, <2>14 DEF AgreedInv, OnceInv, CommandsDiffer
<1>15. QED
  BY <1>9, <1>12, <1>13, <1>14

LEMMA BreakKeepsAgreement ==
    ASSUME AgreedInv, Break
    PROVE  Agreement'
<1>id. PICK id : id = Len(made) + 1
  OBVIOUS
<1>1. PICK no \in {id, NaN} :
         /\ \E line : Reply(no, line)
         /\ no = id => armed' = armed \cup {id}
         /\ no # id => no = NaN /\ armed' = armed
  <2>1. id # NaN
    BY <1>id, LenProperties DEF NaN, AgreedInv, OnceInv, TypeOK
  <2>2. QED
    BY <1>id, <2>1 DEF Break
<1>2. /\ queue # <<>> /\ Head(queue).op = "break"
      /\ UNCHANGED <<cache, reqs, failed, overlapped>>
  BY DEF Break
<1>3. /\ Len(queue) \in Nat /\ 1 \in 1..Len(queue) /\ queue[1].op = "break"
  BY <1>2, Dropped DEF AgreedInv, OnceInv, TypeOK
<1>4. reqs # <<>>
  BY <1>3 DEF AgreedInv, OnceInv, QueueOwed
<1>5. SUFFICES ASSUME ~overlapped PROVE AgreedOn(reqs[Len(reqs)])'
  BY <1>2, <1>4 DEF Agreement
<1>6. PICK q : q = reqs[Len(reqs)]
  OBVIOUS
<1>7. AgreedOn(q)
  BY <1>4, <1>5, <1>6, OnlyTheLast
<1>8. SUFFICES ASSUME NEW x \in Nat \ {NaN} PROVE x \in armed' <=> Held(q, x)'
  BY <1>2, <1>6, <1>7, StillAgreed
<1>9. Deleting(x)' <=> Deleting(x)
  <2>1. queue' = Tail(queue)
    BY <1>1 DEF Reply
  <2>2. Deleting(x)' <=> DeletingLater(x)
    BY <1>2, <2>1, Remaining DEF AgreedInv, OnceInv
  <2>3. DeletingLater(x) <=> Deleting(x)
    BY <1>3 DEF Deleting, DeletingLater
  <2>4. QED
    BY <2>2, <2>3
<1>10. Placing(x)' <=> Placing(x) \/ no = x
  <2>0. PICK line : Reply(no, line)
    BY <1>1
  <2>1. PICK a : a = [req |-> Head(queue).req, op |-> Head(queue).op, at |-> Head(queue).at,
                      no |-> no, line |-> line]
    OBVIOUS
  <2>2. a.op = "break" /\ a.no = no /\ replies' = Append(replies, a)
    BY <1>2, <2>0, <2>1 DEF Reply
  <2>3. QED
    BY <2>2, OneMorePlacing DEF AgreedInv, OnceInv
<1>11. x \in armed' <=> x \in armed \/ no = x
  BY <1>1, <1>8
<1>12. Held(q, x)' <=> Held(q, x) \/ no = x
  BY <1>2, <1>9, <1>10 DEF Held
<1>13. QED
  BY <1>7, <1>11, <1>12 DEF AgreedOn

\* AgreedInv holds in every state.
THEOREM AgreedInvariant == Spec => []AgreedInv
<1>1. Init => Agreement
  BY DEF Init, Agreement
<1>2. OnceInv /\ Agreement /\ [Next]_vars => Agreement'
  <2>1. SUFFICES ASSUME AgreedInv, [Next]_vars PROVE Agreement'
    BY DEF AgreedInv
  <2>2. CASE AnyRequest
    <3>1. PICK want \in Wanted :
             \E remove \in ArraysOf(Removals(want)), add \in ArraysOf(Additions(want)) :
                 SetBreakPoints(want, remove, add)
      BY <2>2 DEF AnyRequest
    <3>2. QED
      BY <2>1, <3>1, SetBreakPointsKeepsAgreement
  <2>3. CASE HandleReply
    BY <2>1, <2>3, HandleReplyKeepsAgreement
  <2>4. CASE Delete
    BY <2>1, <2>4, DeleteKeepsAgreement
  <2>5. CASE Break
    BY <2>1, <2>5, BreakKeepsAgreement
  <2>6. CASE UNCHANGED vars
    BY <2>1, <2>6, Zenon DEF vars, AgreedInv, Agreement, AgreedOn, Held, Deleting, Placing, Answered
  <2>7. QED
    BY <2>1, <2>2, <2>3, <2>4, <2>5, <2>6 DEF Next
<1>3. QED
  BY <1>1, <1>2, OnceInvariant, PTL DEF Spec, AgreedInv

\* As long as the client waits for its answers, the debugger stops on the lines
\* of the last request and nowhere else, and all that it holds is in the cache:
\* for every file, every list of lines and every order of the replies.
THEOREM LastRequestAlwaysWins == Spec => []LastRequestWins
<1>1. AgreedInv => LastRequestWins
  <2>1. SUFFICES ASSUME AgreedInv, Quiet, ~overlapped, reqs # <<>>
                 PROVE  LET lines == {made[id].line : id \in armed} IN
                        /\ lines \cup LinesOf(Refused) = LinesOf(reqs[Len(reqs)].want)
                        /\ \A i, j \in armed : made[i].line = made[j].line => i = j
                        /\ Known(cache \ Refused) = Entries(armed)
                        /\ OnePerLine(cache)
    BY DEF LastRequestWins
  <2>2. /\ OnePerLine(cache)
        /\ \A id \in Nat \ {NaN} : id \in armed <=> \E b \in cache : b.id = id
        /\ LinesOf(reqs[Len(reqs)].want) = LinesOf(cache)
    BY <2>1, QuietFacts
  <2>3. \A id \in armed : id \in Nat \ {NaN}
    <3>1. armed \subseteq 1..Len(made) /\ Len(made) \in Nat
      BY <2>1, LenProperties DEF AgreedInv, OnceInv, TypeOK
    <3>2. QED
      BY <3>1 DEF NaN
  <2>4. \A b \in cache : b.id \in Nat
    BY <2>1 DEF AgreedInv, OnceInv, TypeOK, Cached
  <2>5. \A b \in cache : b.id # NaN => made[b.id].line = b.line
    BY <2>1 DEF AgreedInv, OnceInv, Placed, IsOn
  <2>6. \A id \in armed : \E b \in cache \ Refused : b.id = id /\ made[id].line = b.line
    BY <2>2, <2>3, <2>5 DEF Refused
  <2>7. \A b \in cache \ Refused : b.id \in armed /\ made[b.id].line = b.line
    BY <2>2, <2>4, <2>5 DEF Refused
  <2>8. {made[id].line : id \in armed} \cup LinesOf(Refused) = LinesOf(cache)
    <3>1. Refused \subseteq cache
      BY DEF Refused
    <3>2. ASSUME NEW l \in LinesOf(cache)
          PROVE  l \in {made[id].line : id \in armed} \cup LinesOf(Refused)
      <4>1. PICK b \in cache : b.line = l
        BY LineIn
      <4>2. QED
        BY <2>7, <4>1, LineIn
    <3>3. {made[id].line : id \in armed} \subseteq LinesOf(cache)
      BY <2>6, LineIn
    <3>4. LinesOf(Refused) \subseteq LinesOf(cache)
      BY <3>1 DEF LinesOf
    <3>5. QED
      BY <3>2, <3>3, <3>4
  <2>9. \A i, j \in armed : made[i].line = made[j].line => i = j
    <3>1. SUFFICES ASSUME NEW i \in armed, NEW j \in armed, made[i].line = made[j].line
                   PROVE  i = j
      OBVIOUS
    <3>2. PICK a \in cache : a.id = i /\ made[i].line = a.line
      BY <2>6
    <3>3. PICK b \in cache : b.id = j /\ made[j].line = b.line
      BY <2>6
    <3>4. a = b
      BY <2>2, <3>1, <3>2, <3>3 DEF OnePerLine
    <3>5. QED
      BY <3>2, <3>3, <3>4
  <2>10. Known(cache \ Refused) = Entries(armed)
    <3>1. ASSUME NEW b \in cache \ Refused
          PROVE  [line |-> b.line, id |-> b.id] \in Entries(armed)
      BY <2>7 DEF Entries
    <3>2. ASSUME NEW id \in armed
          PROVE  [line |-> made[id].line, id |-> id] \in Known(cache \ Refused)
      <4>1. PICK b \in cache \ Refused : b.id = id /\ made[id].line = b.line
        BY <2>6
      <4>2. [line |-> b.line, id |-> b.id] \in Known(cache \ Refused)
        BY DEF Known
      <4>3. QED
        BY <4>1, <4>2
    <3>3. QED
      BY <3>1, <3>2 DEF Known, Entries
  <2>11. QED
    BY <2>2, <2>8, <2>9, <2>10
<1>2. QED
  BY <1>1, AgreedInvariant, PTL

=============================================================================
