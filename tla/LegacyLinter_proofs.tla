------------------------- MODULE LegacyLinter_proofs -------------------------
(***************************************************************************)
(* Proofs about LegacyLinter, for all linters, documents and edits: what   *)
(* runs is what is active, and what is shown follows the text and the      *)
(* configuration, unless an entry was deleted under a running process or a *)
(* name threw.                                                             *)
(***************************************************************************)
EXTENDS LegacyLinter, Integers, SequenceTheorems, TLAPS

-----------------------------------------------------------------------------
(* The invariant.                                                           *)

Records == [doc : Nat, entries : SUBSET Linters, active : SUBSET Linters, pend : SUBSET Linters]

\* A list of Linters for the first n documents.
Listed(list, n) ==
    /\ list \in Seq(Records)
    /\ \A i \in 1..Len(list) :
          list[i].doc \in 1..n /\ list[i].active \cup list[i].pend \subseteq list[i].entries

\* A bag of processes of the first n Linters, which read versions up to v.
Running(bag, n, v) ==
    /\ IsABag(bag)
    /\ \A p \in BagToSet(bag) : p \in [by : 1..n, linter : Linters, of : 0..v]

Shapes ==
    /\ text \in Seq(Nat) /\ text # <<>>
    /\ version \in Nat /\ timer \in 0..Len(text)
    /\ on \in SUBSET Linters
    /\ Listed(linters, Len(text))
    /\ Running(procs, Len(linters), version)

\* The open document is the newest, and nothing is about a newer text.
Newest ==
    /\ text[Len(text)] = version
    /\ \A d \in 1..Len(text) : text[d] <= version
    /\ results \in [Linters -> 0..version]

\* The only Linter is that of the open document.
OfOpen ==
    /\ linters = <<>> => Len(text) = 1 /\ \A l \in Linters : results[l] = 0
    /\ OneLinter => linters[1].doc = Len(text)

\* A linter that runs is active, and runs once.
Unique(list, bag) ==
    \A p \in BagToSet(bag) :
        /\ bag[p] = 1 /\ p.linter \in list[p.by].active
        /\ \A q \in BagToSet(bag) : q.by = p.by /\ q.linter = p.linter => q = p

\* One that is active runs.
Alive(list, bag) ==
    \A i \in 1..Len(list) : \A l \in list[i].active :
        \E p \in BagToSet(bag) : p.by = i /\ p.linter = l

\* What runs will not show an older text.
Later == \A p \in BagToSet(procs) : p.of >= results[p.linter]

\* A linter that is on shows the text that is open, or will be run for it.
Follows(l) ==
    \/ timer # 0
    \/ IF l \in linters[1].active
       THEN l \in linters[1].pend \/ \A p \in BagToSet(procs) : p.linter = l => p.of = version
       ELSE results[l] = version

Settled ==
    /\ linters[1].entries = on
    /\ \A l \in on : Follows(l)
    /\ \A l \in Linters \ on : results[l] = 0

LinterInv ==
    /\ Shapes /\ Newest /\ OfOpen
    /\ ~forgotten => Unique(linters, procs)
    /\ ~forgotten /\ OneLinter => Later
    /\ ~forgotten /\ ~thrown => Alive(linters, procs)
    /\ ~forgotten /\ ~thrown /\ OneLinter => Settled

-----------------------------------------------------------------------------
(* Processes that start and end.                                            *)

Begun(i, some, v) == [by : {i}, linter : some, of : {v}]

LEMMA BegunFields ==
    ASSUME NEW i, NEW some, NEW v
    PROVE  /\ \A p \in Begun(i, some, v) : /\ p.by = i /\ p.linter \in some /\ p.of = v
                                           /\ p = [by |-> i, linter |-> p.linter, of |-> v]
           /\ \A l \in some : \E p \in Begun(i, some, v) : p.by = i /\ p.linter = l
<1>1. ASSUME NEW l \in some PROVE \E p \in Begun(i, some, v) : p.by = i /\ p.linter = l
  <2>1. /\ [by |-> i, linter |-> l, of |-> v] \in Begun(i, some, v)
        /\ [by |-> i, linter |-> l, of |-> v].by = i
        /\ [by |-> i, linter |-> l, of |-> v].linter = l
    BY DEF Begun
  <2>2. QED
    BY <2>1
<1>2. QED
  BY <1>1 DEF Begun

LEMMA BagStarted ==
    ASSUME NEW b, IsABag(b), NEW N
    PROVE  /\ IsABag(b (+) SetToBag(N))
           /\ BagToSet(b (+) SetToBag(N)) = BagToSet(b) \cup N
           /\ \A p \in BagToSet(b) \ N : (b (+) SetToBag(N))[p] = b[p]
           /\ \A p \in N \ BagToSet(b) : (b (+) SetToBag(N))[p] = 1
BY DEF IsABag, (+), SetToBag, BagToSet

LEMMA BagEnded ==
    ASSUME NEW b, IsABag(b), NEW p
    PROVE  /\ IsABag(b (-) SetToBag({p}))
           /\ BagToSet(b (-) SetToBag({p})) \subseteq BagToSet(b)
           /\ \A q \in BagToSet(b) : q # p => q \in BagToSet(b (-) SetToBag({p}))
           /\ \A q \in BagToSet(b (-) SetToBag({p})) : q # p => (b (-) SetToBag({p}))[q] = b[q]
           /\ p \in BagToSet(b) /\ b[p] = 1 => p \notin BagToSet(b (-) SetToBag({p}))
BY DEF IsABag, (-), SetToBag, BagToSet

\* What _runLinters does: it deletes entries, marks linters that are due, and
\* starts a process for each, unless it throws.
Effect(list, i, cfg, bag, gone, due, some) ==
    /\ linters' = [list EXCEPT ![i] = After(list[i], gone, due)]
    /\ IsABag(procs')
    /\ BagToSet(procs') = BagToSet(bag) \cup Begun(i, some, text'[list[i].doc])
    /\ \A p \in BagToSet(bag) \ Begun(i, some, text'[list[i].doc]) : procs'[p] = bag[p]
    /\ \A p \in Begun(i, some, text'[list[i].doc]) \ BagToSet(bag) : procs'[p] = 1
    /\ ~forgotten' => ~forgotten /\ gone \cap list[i].active = {}
    /\ ~thrown' => ~thrown /\ gone = Gone(list[i], cfg) /\ due = Due(list[i], cfg) /\ some = due

LEMMA RunEffect ==
    ASSUME NEW list, NEW i, NEW cfg, NEW bag, IsABag(bag), RunLinters(list, i, cfg, bag)
    PROVE  \E gone \in SUBSET Gone(list[i], cfg), due \in SUBSET Due(list[i], cfg) :
              \E some \in SUBSET due : Effect(list, i, cfg, bag, gone, due, some)
<1> DEFINE gone == Gone(list[i], cfg)
           due == Due(list[i], cfg)
           v == text'[list[i].doc]
<1> HIDE DEF gone, due, v
<1>1. CASE /\ linters' = [list EXCEPT ![i] = After(list[i], gone, due)]
           /\ procs' = bag (+) SetToBag(Begun(i, due, v))
           /\ forgotten' = (forgotten \/ gone \cap list[i].active # {})
           /\ UNCHANGED thrown
  <2>1. /\ IsABag(procs')
        /\ BagToSet(procs') = BagToSet(bag) \cup Begun(i, due, v)
        /\ \A p \in BagToSet(bag) \ Begun(i, due, v) : procs'[p] = bag[p]
        /\ \A p \in Begun(i, due, v) \ BagToSet(bag) : procs'[p] = 1
    BY <1>1, BagStarted
  <2>2. ~forgotten' => ~forgotten /\ gone \cap list[i].active = {}
    BY <1>1, Zenon
  <2>3. Effect(list, i, cfg, bag, gone, due, due)
    BY <1>1, <2>1, <2>2 DEF Effect, gone, due, v
  <2>4. QED
    BY <2>3 DEF gone, due
<1>2. CASE /\ \E some \in SUBSET gone, begun \in SUBSET (due \ Unknown) :
                 /\ linters' = [list EXCEPT ![i] = After(list[i], some, begun)]
                 /\ forgotten' = (forgotten \/ some \cap list[i].active # {})
           /\ procs' = bag
           /\ thrown' = TRUE
  <2>1. PICK deleted \in SUBSET gone, begun \in SUBSET (due \ Unknown) :
                 /\ linters' = [list EXCEPT ![i] = After(list[i], deleted, begun)]
                 /\ forgotten' = (forgotten \/ deleted \cap list[i].active # {})
    BY <1>2
  <2>2. Begun(i, {}, v) = {}
    BY DEF Begun
  <2>3. ~forgotten' => ~forgotten /\ deleted \cap list[i].active = {}
    BY <2>1, Zenon
  <2>4. Effect(list, i, cfg, bag, deleted, begun, {})
    BY <1>2, <2>1, <2>2, <2>3 DEF Effect, v
  <2>5. begun \in SUBSET due
    BY <2>1
  <2>6. QED
    BY <2>1, <2>4, <2>5 DEF gone, due
<1>3. QED
  BY <1>1, <1>2 DEF RunLinters, Begun, gone, due, v

-----------------------------------------------------------------------------
(* What _runLinters keeps.                                                  *)

\* The shapes of the list and of the bag.
LEMMA RunShapes ==
    ASSUME NEW list, NEW n \in Nat, Listed(list, n), NEW i \in 1..Len(list), NEW cfg \in SUBSET Linters,
           NEW bag, NEW v \in Nat, Running(bag, Len(list), v), RunLinters(list, i, cfg, bag),
           text'[list[i].doc] \in 0..v
    PROVE  /\ Listed(linters', n) /\ Len(linters') = Len(list)
           /\ Running(procs', Len(linters'), v)
           /\ \A j \in 1..Len(list) : linters'[j].doc = list[j].doc
<1>1. PICK gone \in SUBSET Gone(list[i], cfg), due \in SUBSET Due(list[i], cfg) :
              \E some \in SUBSET due : Effect(list, i, cfg, bag, gone, due, some)
  BY RunEffect DEF Running
<1>2. PICK some \in SUBSET due : Effect(list, i, cfg, bag, gone, due, some)
  BY <1>1
<1> DEFINE x == list[i]
           new == After(x, gone, due)
<1>3. /\ list \in Seq(Records) /\ x \in Records /\ Len(list) \in Nat
      /\ x.active \cup x.pend \subseteq x.entries
      /\ gone \subseteq x.entries \ cfg /\ due \subseteq x.entries \cap cfg /\ due \subseteq Linters
  BY DEF Listed, Gone, Due
<1>4. /\ new \in Records /\ new.doc = x.doc
      /\ new.active \cup new.pend \subseteq new.entries
  <2>1. /\ new.doc = x.doc /\ new.entries = x.entries \ gone
        /\ new.active = (x.active \ gone) \cup due /\ new.pend = x.pend \ (gone \cup due)
    BY <1>3 DEF After, Records
  <2>2. /\ x.entries \ gone \in SUBSET Linters
        /\ (x.active \ gone) \cup due \in SUBSET Linters
        /\ x.pend \ (gone \cup due) \in SUBSET Linters
    BY <1>3 DEF Records
  <2>3. new \in Records
    BY <1>3, <2>2 DEF After, Records
  <2>4. QED
    BY <1>3, <2>1, <2>3
<1>5. /\ linters' = [list EXCEPT ![i] = new]
      /\ IsABag(procs')
      /\ BagToSet(procs') = BagToSet(bag) \cup Begun(i, some, text'[x.doc])
  BY <1>2 DEF Effect
<1> HIDE DEF new
<1>6. /\ linters' \in Seq(Records) /\ Len(linters') = Len(list)
      /\ linters'[i] = new /\ \A j \in 1..Len(list) : j # i => linters'[j] = list[j]
  BY <1>3, <1>4, <1>5
<1>7. Listed(linters', n)
  BY <1>4, <1>6 DEF Listed
<1>8. ASSUME NEW p \in BagToSet(procs') PROVE p \in [by : 1..Len(list), linter : Linters, of : 0..v]
  <2>1. CASE p \in BagToSet(bag)
    BY <2>1 DEF Running
  <2>2. CASE p \in Begun(i, some, text'[x.doc])
    <3>1. some \subseteq Linters
      BY <1>2, <1>3
    <3>2. QED
      BY <2>2, <3>1 DEF Begun
  <2>3. QED
    BY <1>5, <1>8, <2>1, <2>2
<1>9. QED
  BY <1>4, <1>5, <1>6, <1>7, <1>8 DEF Running

\* What runs is active, and what is active runs.
LEMMA RunMatches ==
    ASSUME NEW list, NEW n, Listed(list, n), NEW i \in 1..Len(list), NEW cfg,
           NEW bag, NEW v, Running(bag, Len(list), v), RunLinters(list, i, cfg, bag),
           ~forgotten', Unique(list, bag)
    PROVE  /\ ~forgotten /\ Unique(linters', procs')
           /\ ~thrown' /\ Alive(list, bag) => Alive(linters', procs')
<1>1. PICK gone \in SUBSET Gone(list[i], cfg), due \in SUBSET Due(list[i], cfg) :
              \E some \in SUBSET due : Effect(list, i, cfg, bag, gone, due, some)
  BY RunEffect DEF Running
<1>2. PICK some \in SUBSET due : Effect(list, i, cfg, bag, gone, due, some)
  BY <1>1
<1> DEFINE x == list[i]
           new == After(x, gone, due)
           N == Begun(i, some, text'[x.doc])
<1>3. /\ linters' = [list EXCEPT ![i] = new]
      /\ BagToSet(procs') = BagToSet(bag) \cup N
      /\ \A p \in BagToSet(bag) \ N : procs'[p] = bag[p]
      /\ \A p \in N \ BagToSet(bag) : procs'[p] = 1
      /\ ~forgotten /\ gone \cap x.active = {}
      /\ ~thrown' => some = due
  BY <1>2 DEF Effect
<1>4. /\ list \in Seq(Records) /\ x \in Records /\ due \cap x.active = {}
  BY DEF Listed, Due
<1>5. new.active = x.active \cup due
  <2>1. new.active = (x.active \ gone) \cup due
    BY <1>4 DEF After, Records
  <2>2. QED
    BY <1>3, <2>1
<1> HIDE DEF new
<1>6. /\ Len(linters') = Len(list) /\ linters'[i] = new
      /\ \A j \in 1..Len(list) : j # i => linters'[j] = list[j]
  BY <1>3, <1>4
<1>7. /\ \A p \in N : /\ p.by = i /\ p.linter \in due /\ p.linter \notin x.active
                      /\ p = [by |-> i, linter |-> p.linter, of |-> text'[x.doc]]
  BY <1>4, BegunFields
<1>8. \A l \in some : \E p \in N : p.by = i /\ p.linter = l
  BY BegunFields
<1> HIDE DEF N
<1>9. ASSUME NEW p \in BagToSet(bag)
      PROVE  /\ p.by \in 1..Len(list) /\ p.linter \in list[p.by].active /\ bag[p] = 1
             /\ p \notin N
             /\ \A q \in N : ~(q.by = p.by /\ q.linter = p.linter)
  <2>1. p.by \in 1..Len(list) /\ p.linter \in list[p.by].active /\ bag[p] = 1
    BY DEF Running, Unique
  <2>2. QED
    BY <1>7, <2>1
<1>10. Unique(linters', procs')
  <2>1. SUFFICES ASSUME NEW p \in BagToSet(procs')
                 PROVE  /\ procs'[p] = 1 /\ p.linter \in linters'[p.by].active
                        /\ \A q \in BagToSet(procs') : q.by = p.by /\ q.linter = p.linter => q = p
    BY DEF Unique
  <2>2. CASE p \in BagToSet(bag)
    <3>1. procs'[p] = 1
      BY <1>3, <1>9, <2>2
    <3>2. p.linter \in linters'[p.by].active
      BY <1>5, <1>6, <1>9, <2>2
    <3>3. ASSUME NEW q \in BagToSet(procs'), q.by = p.by, q.linter = p.linter PROVE q = p
      <4>1. q \in BagToSet(bag)
        BY <1>3, <1>9, <2>2, <3>3
      <4>2. QED
        BY <2>2, <3>3, <4>1 DEF Unique
    <3>4. QED
      BY <3>1, <3>2, <3>3
  <2>3. CASE p \in N
    <3>1. p \notin BagToSet(bag)
      BY <1>9, <2>3
    <3>2. procs'[p] = 1
      BY <1>3, <2>3, <3>1
    <3>3. p.linter \in linters'[p.by].active
      BY <1>5, <1>6, <1>7, <2>3
    <3>4. ASSUME NEW q \in BagToSet(procs'), q.by = p.by, q.linter = p.linter PROVE q = p
      <4>1. q \in N
        BY <1>3, <1>9, <2>3, <3>4
      <4>2. QED
        BY <1>7, <2>3, <3>4, <4>1
    <3>5. QED
      BY <3>2, <3>3, <3>4
  <2>4. QED
    BY <1>3, <2>1, <2>2, <2>3
<1>11. ASSUME ~thrown', Alive(list, bag) PROVE Alive(linters', procs')
  <2>1. SUFFICES ASSUME NEW j \in 1..Len(list), NEW l \in linters'[j].active
                 PROVE  \E p \in BagToSet(procs') : p.by = j /\ p.linter = l
    BY <1>6 DEF Alive
  <2>2. CASE l \in list[j].active
    BY <1>3, <1>11, <2>2 DEF Alive
  <2>3. CASE l \notin list[j].active
    <3>1. j = i /\ l \in some
      BY <1>3, <1>5, <1>6, <1>11, <2>3
    <3>2. QED
      BY <1>3, <1>8, <3>1
  <2>4. QED
    BY <2>2, <2>3
<1>12. QED
  BY <1>3, <1>10, <1>11

\* Every linter that pends runs with the present text, or will run again.
LEMMA RunFollows ==
    ASSUME NEW list, NEW n, Listed(list, n), NEW i \in 1..Len(list), NEW cfg,
           NEW bag, NEW v, Running(bag, Len(list), v), RunLinters(list, i, cfg, bag),
           ~forgotten', ~thrown', Unique(list, bag), cfg \subseteq list[i].entries
    PROVE  /\ ~thrown /\ linters'[i].entries = cfg
           /\ \A l \in cfg \cap list[i].pend :
                 /\ l \in linters'[i].active
                 /\ \/ l \in linters'[i].pend
                    \/ \A p \in BagToSet(procs') : p.by = i /\ p.linter = l => p.of = text'[list[i].doc]
           /\ \A l \in cfg \ list[i].pend :
                 /\ l \in linters'[i].active <=> l \in list[i].active
                 /\ \A p \in BagToSet(procs') : p.by = i /\ p.linter = l => p \in BagToSet(bag)
           /\ \A l \in Linters \ cfg : l \notin list[i].active
<1>1. PICK gone \in SUBSET Gone(list[i], cfg), due \in SUBSET Due(list[i], cfg) :
              \E some \in SUBSET due : Effect(list, i, cfg, bag, gone, due, some)
  BY RunEffect DEF Running
<1>2. PICK some \in SUBSET due : Effect(list, i, cfg, bag, gone, due, some)
  BY <1>1
<1> DEFINE x == list[i]
           new == After(x, gone, due)
           N == Begun(i, some, text'[x.doc])
<1>3. /\ linters' = [list EXCEPT ![i] = new]
      /\ BagToSet(procs') = BagToSet(bag) \cup N
      /\ gone \cap x.active = {}
      /\ ~thrown /\ gone = x.entries \ cfg /\ due = (x.entries \cap cfg \cap x.pend) \ x.active
  BY <1>2 DEF Effect, Gone, Due
<1>4. list \in Seq(Records) /\ x \in Records /\ x.active \subseteq x.entries
  BY DEF Listed
<1>5. /\ new.entries = x.entries \ gone /\ new.active = (x.active \ gone) \cup due
      /\ new.pend = x.pend \ (gone \cup due)
  BY <1>4 DEF After, Records
<1> HIDE DEF new
<1>6. linters'[i] = new
  BY <1>3, <1>4
<1>7. \A p \in N : p.by = i /\ p.linter \in due /\ p.of = text'[x.doc]
  BY BegunFields
<1> HIDE DEF N
<1>8. ASSUME NEW l \in cfg \cap x.pend
      PROVE  /\ l \in new.active
             /\ l \in new.pend \/ \A p \in BagToSet(procs') : p.by = i /\ p.linter = l => p.of = text'[x.doc]
  <2>1. l \in x.entries
    BY <1>8
  <2>2. CASE l \in x.active
    BY <1>3, <1>5, <1>8, <2>1, <2>2
  <2>3. CASE l \notin x.active
    <3>1. l \in due
      BY <1>3, <1>8, <2>1, <2>3
    <3>2. ASSUME NEW p \in BagToSet(procs'), p.by = i, p.linter = l PROVE p \in N
      BY <1>3, <2>3, <3>2 DEF Unique
    <3>3. QED
      BY <1>5, <1>7, <3>1, <3>2
  <2>4. QED
    BY <2>2, <2>3
<1>9. ASSUME NEW l \in cfg \ x.pend
      PROVE  /\ l \in new.active <=> l \in x.active
             /\ \A p \in BagToSet(procs') : p.by = i /\ p.linter = l => p \in BagToSet(bag)
  BY <1>3, <1>5, <1>7, <1>9
<1>10. new.entries = cfg /\ \A l \in Linters \ cfg : l \notin x.active
  BY <1>3, <1>4, <1>5
<1>11. QED
  BY <1>3, <1>6, <1>8, <1>9, <1>10

\* A history is kept, and what starts reads the present text.
LEMMA RunHistory ==
    ASSUME NEW list, NEW i, NEW cfg, NEW bag, IsABag(bag), RunLinters(list, i, cfg, bag)
    PROVE  /\ (~forgotten' => ~forgotten) /\ (~thrown' => ~thrown)
           /\ \A p \in BagToSet(procs') : p \in BagToSet(bag) \/ p.of = text'[list[i].doc]
<1>1. PICK gone \in SUBSET Gone(list[i], cfg), due \in SUBSET Due(list[i], cfg) :
              \E some \in SUBSET due : Effect(list, i, cfg, bag, gone, due, some)
  BY RunEffect
<1>2. PICK some \in SUBSET due : Effect(list, i, cfg, bag, gone, due, some)
  BY <1>1
<1>3. \A p \in Begun(i, some, text'[list[i].doc]) : p.of = text'[list[i].doc]
  BY BegunFields
<1>4. QED
  BY <1>2, <1>3 DEF Effect

-----------------------------------------------------------------------------
(* Each step keeps the invariant.                                           *)

LEMMA LinterStarts == Init => LinterInv
<1> SUFFICES ASSUME Init PROVE LinterInv
  OBVIOUS
<1>1. /\ text = <<1>> /\ version = 1 /\ timer = 0 /\ on \in SUBSET Linters
      /\ results = [l \in Linters |-> 0] /\ linters = <<>> /\ procs = EmptyBag
  BY DEF Init
<1>2. IsABag(procs) /\ BagToSet(procs) = {}
  BY <1>1 DEF IsABag, EmptyBag, SetToBag, BagToSet
<1>3. /\ text \in Seq(Nat) /\ Len(text) = 1 /\ text[1] = 1 /\ text # <<>>
      /\ linters \in Seq(Records) /\ Len(linters) = 0
  BY <1>1
<1>4. Shapes /\ Newest /\ OfOpen
  BY <1>1, <1>2, <1>3 DEF Shapes, Listed, Running, Newest, OfOpen, OneLinter
<1>5. Unique(linters, procs) /\ Alive(linters, procs) /\ ~OneLinter
  BY <1>2, <1>3 DEF Unique, Alive, OneLinter
<1>6. QED
  BY <1>4, <1>5 DEF LinterInv

LEMMA EditKeeps == LinterInv /\ Edit => LinterInv'
<1> SUFFICES ASSUME LinterInv, Edit PROVE LinterInv'
  OBVIOUS
<1> DEFINE n == Len(text)
<1>1. /\ version' = version + 1 /\ text' = [text EXCEPT ![n] = version + 1] /\ timer' = n
      /\ UNCHANGED <<on, results, linters, procs, forgotten, thrown>>
  BY DEF Edit, Open
<1>2. /\ text \in Seq(Nat) /\ n \in Nat \ {0} /\ version \in Nat
      /\ Running(procs, Len(linters), version) /\ Listed(linters, n) /\ on \in SUBSET Linters
      /\ \A d \in 1..n : text[d] <= version /\ text[d] \in Nat
      /\ results \in [Linters -> 0..version]
  BY EmptySeq DEF LinterInv, Shapes, Newest
<1>3. /\ text' \in Seq(Nat) /\ Len(text') = n /\ text'[n] = version + 1
      /\ \A d \in 1..n : d # n => text'[d] = text[d]
  BY <1>1, <1>2
<1>4. text' # <<>>
  BY <1>2, <1>3
<1> HIDE DEF n
<1>5. Shapes'
  <2>1. Running(procs', Len(linters'), version')
    BY <1>1, <1>2 DEF Running
  <2>2. Listed(linters', Len(text'))
    BY <1>1, <1>2, <1>3
  <2>3. QED
    BY <1>1, <1>2, <1>3, <1>4, <2>1, <2>2 DEF Shapes
<1>6. Newest'
  <2>1. text'[Len(text')] = version' /\ \A d \in 1..Len(text') : text'[d] <= version'
    BY <1>1, <1>2, <1>3
  <2>2. results' \in [Linters -> 0..version']
    BY <1>1, <1>2
  <2>3. QED
    BY <2>1, <2>2 DEF Newest
<1>7. OfOpen'
  BY <1>1, <1>3 DEF LinterInv, OfOpen, OneLinter, n
<1>8. Later => Later'
  BY <1>1 DEF Later
<1>9. Settled => Settled'
  BY <1>1, <1>2 DEF Settled, Follows
<1>10. QED
  BY <1>1, <1>5, <1>6, <1>7, <1>8, <1>9 DEF LinterInv, Unique, Alive, OneLinter

LEMMA PendingFields ==
    ASSUME NEW x \in Records, NEW cfg \in SUBSET Linters
    PROVE  /\ Pending(x, cfg) \in Records /\ Pending(x, cfg).doc = x.doc
           /\ Pending(x, cfg).active = x.active
           /\ Pending(x, cfg).entries = x.entries \cup cfg
           /\ Pending(x, cfg).pend = x.pend \cup cfg
<1>1. /\ Pending(x, cfg).doc = x.doc /\ Pending(x, cfg).active = x.active
      /\ Pending(x, cfg).entries = x.entries \cup cfg /\ Pending(x, cfg).pend = x.pend \cup cfg
  BY DEF Pending, Records
<1>2. x.entries \cup cfg \in SUBSET Linters /\ x.pend \cup cfg \in SUBSET Linters
  BY DEF Records
<1>3. Pending(x, cfg) \in Records
  BY <1>2 DEF Pending, Records
<1>4. QED
  BY <1>1, <1>3

\* LintCollection.run for one of the documents, with the configuration that holds
\* from now on.
LEMMA CollectionRuns ==
    ASSUME LinterInv, NEW cfg \in SUBSET Linters, on' = cfg, NEW d \in 1..Len(text'), Run(d, cfg),
           text' \in Seq(Nat), text' # <<>>, Len(text) <= Len(text'),
           version' \in Nat, version <= version', timer' \in 0..Len(text'),
           text'[Len(text')] = version', \A e \in 1..Len(text') : text'[e] <= version',
           results' = [l \in Linters |-> IF l \in on \ cfg THEN 0 ELSE results[l]],
           linters = <<>> => d = Len(text'), d = Len(text') \/ text' = text
    PROVE  LinterInv'
<1> DEFINE reused == linters # <<>> /\ linters[Len(linters)].doc = d
           old == IF reused THEN linters ELSE Append(linters, Fresh(d))
           i == Len(old)
           list == [old EXCEPT ![i] = Pending(old[i], cfg)]
           n == Len(text')
<1>1. RunLinters(list, i, cfg, procs)
  BY DEF Run
<1>2. /\ linters \in Seq(Records) /\ Len(linters) \in Nat /\ n \in Nat
      /\ \A j \in 1..Len(linters) : /\ linters[j].doc \in 1..n /\ linters[j] \in Records
                                    /\ linters[j].active \cup linters[j].pend \subseteq linters[j].entries
      /\ Running(procs, Len(linters), version) /\ version \in Nat
      /\ results \in [Linters -> 0..version]
      /\ Len(text) \in Nat
      /\ linters = <<>> <=> Len(linters) = 0
  <2>1. linters \in Seq(Records) /\ text \in Seq(Nat)
    BY DEF LinterInv, Shapes, Listed
  <2>2. /\ Len(linters) \in Nat /\ n \in Nat /\ Len(text) \in Nat
        /\ linters = <<>> <=> Len(linters) = 0
        /\ \A j \in 1..Len(linters) : linters[j] \in Records
    BY <2>1, EmptySeq, LenProperties
  <2>3. \A j \in 1..Len(linters) : /\ linters[j].doc \in 1..Len(text)
                                    /\ linters[j].active \cup linters[j].pend \subseteq linters[j].entries
    BY DEF LinterInv, Shapes, Listed
  <2>4. \A e \in 1..Len(text) : e \in 1..n
    BY <2>2
  <2>5. /\ Running(procs, Len(linters), version) /\ version \in Nat
        /\ results \in [Linters -> 0..version]
    BY DEF LinterInv, Shapes, Newest
  <2>6. QED
    BY <2>1, <2>2, <2>3, <2>4, <2>5
<1>3. Fresh(d) \in Records /\ Fresh(d).doc = d /\ Fresh(d).active = {} /\ Fresh(d).pend = {}
  BY <1>2 DEF Fresh, Records
<1>4. /\ old \in Seq(Records) /\ i \in Nat \ {0} /\ Len(linters) <= i
      /\ \A j \in 1..Len(linters) : old[j] = linters[j]
      /\ reused => i = Len(linters)
      /\ ~reused => i = Len(linters) + 1 /\ old[i] = Fresh(d)
      /\ old[i].doc = d
  BY <1>2, <1>3
<1>5. \A j \in 1..i : /\ old[j] \in Records /\ old[j].doc \in 1..n
                      /\ old[j].active \cup old[j].pend \subseteq old[j].entries
  <2>1. ASSUME NEW j \in 1..i
        PROVE  /\ old[j] \in Records /\ old[j].doc \in 1..n
               /\ old[j].active \cup old[j].pend \subseteq old[j].entries
    <3>1. CASE j \in 1..Len(linters)
      BY <1>2, <1>4, <3>1
    <3>2. CASE j \notin 1..Len(linters)
      <4>1. j = i /\ old[j] = Fresh(d)
        BY <1>2, <1>4, <3>2
      <4>2. QED
        BY <1>3, <4>1
    <3>3. QED
      BY <3>1, <3>2
  <2>2. QED
    BY <2>1
<1>6. /\ Pending(old[i], cfg) \in Records /\ Pending(old[i], cfg).doc = d
      /\ Pending(old[i], cfg).active = old[i].active
      /\ Pending(old[i], cfg).entries = old[i].entries \cup cfg
      /\ Pending(old[i], cfg).pend = old[i].pend \cup cfg
  <2>1. old[i] \in Records
    BY <1>4, <1>5
  <2> HIDE DEF old, i
  <2>2. QED
    BY <1>4, <2>1, PendingFields
<1> HIDE DEF reused, old, n
<1>7. /\ Listed(list, n) /\ Len(list) = i
      /\ \A j \in 1..i : list[j].doc = old[j].doc /\ list[j].active = old[j].active
      /\ list[i].doc = d /\ cfg \subseteq list[i].entries /\ cfg \subseteq list[i].pend
  <2>1. /\ list \in Seq(Records) /\ Len(list) = i
        /\ list[i] = Pending(old[i], cfg) /\ \A j \in 1..i : j # i => list[j] = old[j]
    BY <1>4, <1>6
  <2> HIDE DEF list, i
  <2>2. \A j \in 1..i : /\ list[j].doc = old[j].doc /\ list[j].active = old[j].active
                        /\ list[j].doc \in 1..n
                        /\ list[j].active \cup list[j].pend \subseteq list[j].entries
    <3>1. ASSUME NEW j \in 1..i
          PROVE  /\ list[j].doc = old[j].doc /\ list[j].active = old[j].active
                 /\ list[j].doc \in 1..n
                 /\ list[j].active \cup list[j].pend \subseteq list[j].entries
      <4>1. CASE j = i
        <5>1. list[j] = Pending(old[i], cfg)
          BY <2>1, <4>1
        <5>2. /\ old[i].doc \in 1..n
              /\ old[i].active \cup old[i].pend \subseteq old[i].entries
          BY <1>5, <4>1
        <5>4. list[i] = Pending(old[i], cfg)
          BY <4>1, <5>1
        <5>5. /\ list[i].doc = old[i].doc /\ list[i].active = old[i].active
              /\ list[i].pend = old[i].pend \cup cfg /\ list[i].entries = old[i].entries \cup cfg
          BY <1>4, <1>6, <5>4
        <5>6. list[i].active \cup list[i].pend \subseteq list[i].entries
          BY <5>2, <5>5
        <5>7. QED
          BY <4>1, <5>2, <5>5, <5>6
      <4>2. CASE j # i
        BY <1>5, <2>1, <4>2
      <4>3. QED
        BY <4>1, <4>2
    <3>2. QED
      BY <3>1
  <2>3. QED
    BY <1>6, <2>1, <2>2 DEF Listed
<1> HIDE DEF list, i
<1>8. i \in 1..Len(list) /\ Running(procs, Len(list), version')
  <2>1. 1..Len(linters) \subseteq 1..Len(list) /\ i \in 1..Len(list)
    BY <1>2, <1>4, <1>7
  <2>2. 0..version \subseteq 0..version'
    BY <1>2
  <2>3. QED
    BY <1>2, <2>1, <2>2 DEF Running
<1>9. text'[list[i].doc] = text'[d] /\ text'[d] \in 0..version'
  <2>1. text'[d] \in Nat /\ text'[d] <= version'
    OBVIOUS
  <2>2. QED
    BY <1>7, <2>1
<1>10. /\ Listed(linters', n) /\ Len(linters') = i
       /\ Running(procs', Len(linters'), version')
       /\ \A j \in 1..i : linters'[j].doc = old[j].doc
  <2>1. Listed(list, n) /\ Len(list) = i /\ n \in Nat /\ text'[list[i].doc] \in 0..version'
    BY <1>2, <1>7, <1>9
  <2>2. /\ Listed(linters', n) /\ Len(linters') = Len(list)
        /\ Running(procs', Len(linters'), version')
        /\ \A j \in 1..Len(list) : linters'[j].doc = list[j].doc
    <3> HIDE DEF n
    <3>1. QED
      BY <1>1, <1>8, <2>1, RunShapes
  <2>3. QED
    BY <1>7, <2>1, <2>2
<1>11. Shapes'
  <2>1. Listed(linters', Len(text')) /\ Running(procs', Len(linters'), version')
    BY <1>10 DEF n
  <2>2. QED
    BY <2>1 DEF Shapes
<1>12. results' \in [Linters -> 0..version'] /\ \A l \in Linters : results'[l] <= results[l] /\ results'[l] \in Nat
  BY <1>2
<1>13. Newest'
  BY <1>12 DEF Newest
<1>14. OneLinter' => /\ i = 1 /\ d = n /\ linters'[1].doc = d
                     /\ linters = <<>> \/ OneLinter
  <2>1. SUFFICES ASSUME OneLinter' PROVE /\ i = 1 /\ d = n /\ linters'[1].doc = d
                                         /\ linters = <<>> \/ OneLinter
    OBVIOUS
  <2>2. i = 1
    BY <1>10, <2>1 DEF OneLinter
  <2>3. linters'[1].doc = d
    BY <1>4, <1>10, <2>2
  <2>4. CASE reused
    <3>1. Len(linters) = 1
      BY <1>4, <2>2, <2>4
    <3>2. OneLinter /\ linters[1].doc = d /\ linters[1].doc = Len(text)
      BY <2>4, <3>1 DEF OneLinter, LinterInv, OfOpen, reused
    <3>3. QED
      BY <2>2, <2>3, <3>2 DEF n
  <2>5. CASE ~reused
    <3>1. linters = <<>>
      BY <1>2, <1>4, <2>2, <2>5
    <3>2. QED
      BY <2>2, <2>3, <3>1 DEF n
  <2>6. QED
    BY <2>4, <2>5
<1>15. OfOpen'
  <2>1. linters' # <<>>
    BY <1>4, <1>10
  <2>2. QED
    BY <1>14, <2>1 DEF OfOpen, n
<1>16. /\ (~forgotten' => ~forgotten) /\ (~thrown' => ~thrown)
       /\ \A p \in BagToSet(procs') : p \in BagToSet(procs) \/ p.of = text'[list[i].doc]
  BY <1>1, <1>8, RunHistory DEF Running
<1>17. ~forgotten' => Unique(list, procs)
  <2>1. ASSUME Unique(linters, procs) PROVE Unique(list, procs)
    <3>1. \A p \in BagToSet(procs) : p.by \in 1..Len(linters)
      BY <1>2 DEF Running
    <3>2. ASSUME NEW j \in 1..Len(linters) PROVE list[j].active = linters[j].active
      <4>1. j \in 1..i /\ old[j] = linters[j]
        BY <1>2, <1>4, <1>7
      <4>2. QED
        BY <1>7, <4>1
    <3>3. QED
      BY <2>1, <3>1, <3>2 DEF Unique
  <2>2. QED
    BY <1>16, <2>1 DEF LinterInv
<1>18. Alive(linters, procs) => Alive(list, procs)
  <2>1. SUFFICES ASSUME Alive(linters, procs), NEW j \in 1..Len(list), NEW l \in list[j].active
                 PROVE  \E p \in BagToSet(procs) : p.by = j /\ p.linter = l
    BY DEF Alive
  <2>2. list[j].active = old[j].active
    BY <1>7
  <2>3. CASE j \in 1..Len(linters)
    <3>1. l \in linters[j].active
      BY <1>4, <2>1, <2>2, <2>3
    <3>2. QED
      BY <2>1, <2>3, <3>1 DEF Alive
  <2>4. CASE j \notin 1..Len(linters)
    <3>1. old[j] = Fresh(d)
      <4>1. j \in 1..i /\ i \in Nat /\ Len(linters) \in Nat
        BY <1>2, <1>4, <1>7
      <4>2. ~reused
        BY <1>4, <2>4, <4>1
      <4>3. i = Len(linters) + 1
        BY <1>4, <4>2
      <4>4. j = i
        BY <2>4, <4>1, <4>3
      <4>5. QED
        BY <1>4, <4>2, <4>4
    <3>2. QED
      BY <1>3, <2>2, <3>1
  <2>5. QED
    BY <2>3, <2>4
<1>19. ~forgotten' => Unique(linters', procs')
  BY <1>1, <1>7, <1>8, <1>17, RunMatches
<1>20. ~forgotten' /\ ~thrown' => Alive(linters', procs')
  BY <1>1, <1>7, <1>8, <1>16, <1>17, <1>18, RunMatches DEF LinterInv
<1>21. ASSUME OneLinter', ~forgotten' PROVE Later'
  <2>1. SUFFICES ASSUME NEW p \in BagToSet(procs') PROVE p.of >= results'[p.linter]
    BY DEF Later
  <2>2. p.linter \in Linters /\ p.of \in 0..version'
    BY <1>10 DEF Running
  <2>3. CASE p \in BagToSet(procs)
    <3>1. linters # <<>>
      <4>1. p.by \in 1..Len(linters)
        BY <1>2, <2>3 DEF Running
      <4>2. QED
        BY <1>2, <4>1
    <3>2. OneLinter
      BY <1>14, <1>21, <3>1
    <3>3. p.of >= results[p.linter]
      BY <1>16, <1>21, <2>3, <3>2 DEF LinterInv, Later
    <3>4. results'[p.linter] <= results[p.linter] /\ results[p.linter] \in 0..version
      BY <1>2, <1>12, <2>2
    <3>5. results'[p.linter] \in 0..version' /\ p.of \in Nat
      BY <1>12, <2>2
    <3>6. QED
      BY <3>3, <3>4, <3>5
  <2>4. CASE p \notin BagToSet(procs)
    <3>1. p.of = version'
      BY <1>9, <1>14, <1>16, <1>21, <2>4 DEF n
    <3>2. QED
      BY <1>12, <2>2, <3>1
  <2>5. QED
    BY <2>3, <2>4
<1>22. ASSUME OneLinter', ~forgotten', ~thrown' PROVE Settled'
  <2>1. i = 1 /\ text'[list[i].doc] = version'
    BY <1>9, <1>14, <1>22 DEF n
  <2>2. /\ linters'[1].entries = cfg
        /\ \A l \in cfg \cap list[1].pend :
                 /\ l \in linters'[1].active
                 /\ \/ l \in linters'[1].pend
                    \/ \A p \in BagToSet(procs') : p.by = 1 /\ p.linter = l => p.of = version'
    <3>1. /\ linters'[i].entries = cfg
          /\ \A l \in cfg \cap list[i].pend :
                 /\ l \in linters'[i].active
                 /\ \/ l \in linters'[i].pend
                    \/ \A p \in BagToSet(procs') : p.by = i /\ p.linter = l => p.of = text'[list[i].doc]
      BY <1>1, <1>7, <1>8, <1>17, <1>22, RunFollows
    <3>2. QED
      BY <2>1, <3>1
  <2>3. \A p \in BagToSet(procs') : p.by = 1
    BY <1>10, <2>1 DEF Running
  <2>4. \A l \in on' : Follows(l)'
    BY <1>7, <2>1, <2>2, <2>3 DEF Follows
  <2>5. ASSUME NEW l \in Linters \ cfg PROVE results'[l] = 0
    <3>1. CASE l \in on
      BY <2>5, <3>1
    <3>2. CASE l \notin on
      <4>1. results[l] = 0
        BY <1>14, <1>16, <1>22, <2>5, <3>2 DEF LinterInv, OfOpen, Settled
      <4>2. QED
        BY <2>5, <3>2, <4>1
    <3>3. QED
      BY <3>1, <3>2
  <2>6. QED
    BY <2>2, <2>4, <2>5 DEF Settled
<1>23. QED
  BY <1>11, <1>13, <1>15, <1>19, <1>20, <1>21, <1>22 DEF LinterInv

\* A process is over: what it had is shown, and its linter runs again if it
\* pends or has failed.
LEMMA EndKeeps ==
    ASSUME LinterInv, NEW p, NEW failed, ProcessEnds(p, failed) PROVE LinterInv'
<1> DEFINE j == p.by
           k == p.linter
           bag == procs (-) SetToBag({p})
           x == linters[j]
           list == [linters EXCEPT ![j].active = @ \ {k}]
           n == Len(text)
<1>1. /\ p \in BagToSet(procs) /\ results' = [results EXCEPT ![k] = p.of]
      /\ UNCHANGED <<text, version, timer, on>> /\ Final(p, failed, bag)
  BY DEF ProcessEnds, BagIn, Update, editorVars
<1>2. /\ linters \in Seq(Records) /\ Len(linters) \in Nat /\ n \in Nat /\ version \in Nat
      /\ \A m \in 1..Len(linters) : /\ linters[m].doc \in 1..n /\ linters[m] \in Records
                                    /\ linters[m].active \cup linters[m].pend \subseteq linters[m].entries
      /\ Running(procs, Len(linters), version) /\ on \in SUBSET Linters
      /\ results \in [Linters -> 0..version] /\ text \in Seq(Nat)
  <2>1. linters \in Seq(Records) /\ text \in Seq(Nat) /\ version \in Nat
    BY DEF LinterInv, Shapes, Listed
  <2>2. /\ Len(linters) \in Nat /\ n \in Nat
        /\ \A m \in 1..Len(linters) : linters[m] \in Records
    BY <2>1, LenProperties
  <2>3. QED
    BY <2>1, <2>2 DEF LinterInv, Shapes, Listed, Newest
<1>3. j \in 1..Len(linters) /\ k \in Linters /\ p.of \in 0..version /\ IsABag(procs)
  BY <1>1, <1>2 DEF Running
<1>4. /\ IsABag(bag) /\ BagToSet(bag) \subseteq BagToSet(procs)
      /\ \A q \in BagToSet(procs) : q # p => q \in BagToSet(bag)
      /\ \A q \in BagToSet(bag) : q # p => bag[q] = procs[q]
      /\ procs[p] = 1 => p \notin BagToSet(bag)
  BY <1>1, <1>3, BagEnded
<1> HIDE DEF bag, j, k, n
<1>5. Running(bag, Len(linters), version)
  BY <1>2, <1>4 DEF Running
<1>6. results' \in [Linters -> 0..version] /\ results'[k] = p.of /\ \A l \in Linters : l # k => results'[l] = results[l]
  BY <1>1, <1>2, <1>3
<1>7. Newest'
  BY <1>1, <1>6 DEF LinterInv, Newest
<1>8. linters # <<>>
  BY <1>3
<1>9. /\ x \in Records
      /\ [x EXCEPT !.active = @ \ {k}] \in Records
      /\ [x EXCEPT !.active = @ \ {k}].doc = x.doc
      /\ [x EXCEPT !.active = @ \ {k}].active = x.active \ {k}
      /\ [x EXCEPT !.active = @ \ {k}].pend = x.pend
      /\ [x EXCEPT !.active = @ \ {k}].entries = x.entries
  <2>1. x \in Records
    BY <1>2, <1>3
  <2> HIDE DEF x
  <2>2. x.active \ {k} \in SUBSET Linters
    BY <2>1 DEF Records
  <2>3. QED
    BY <2>1, <2>2 DEF Records
<1>10. /\ list \in Seq(Records) /\ Len(list) = Len(linters)
       /\ list[j] = [x EXCEPT !.active = @ \ {k}]
       /\ \A m \in 1..Len(linters) : m # j => list[m] = linters[m]
  <2> DEFINE y == [x EXCEPT !.active = @ \ {k}]
  <2>1. list = [linters EXCEPT ![j] = y]
    OBVIOUS
  <2>2. y \in Records
    BY <1>9
  <2> HIDE DEF y, list, x
  <2>3. QED
    BY <1>2, <1>3, <2>1, <2>2 DEF y
<1> HIDE DEF list, x
<1>11. \A m \in 1..Len(linters) :
          /\ list[m].doc = linters[m].doc /\ list[m].pend = linters[m].pend
          /\ list[m].entries = linters[m].entries /\ list[m].active \subseteq linters[m].active
          /\ m # j => list[m].active = linters[m].active
  <2>1. ASSUME NEW m \in 1..Len(linters)
        PROVE  /\ list[m].doc = linters[m].doc /\ list[m].pend = linters[m].pend
               /\ list[m].entries = linters[m].entries /\ list[m].active \subseteq linters[m].active
               /\ m # j => list[m].active = linters[m].active
    <3>1. CASE m = j
      BY <1>9, <1>10, <3>1 DEF x
    <3>2. CASE m # j
      BY <1>10, <3>2
    <3>3. QED
      BY <3>1, <3>2
  <2>2. QED
    BY <2>1
<1>12. list[j].active = linters[j].active \ {k}
  BY <1>9, <1>10 DEF x
<1>13. Listed(list, n)
  <2>1. \A m \in 1..Len(linters) : list[m].doc \in 1..n /\ list[m].active \cup list[m].pend \subseteq list[m].entries
    BY <1>2, <1>11
  <2>2. QED
    BY <1>10, <2>1 DEF Listed
<1>14. Running(bag, Len(list), version)
  BY <1>5, <1>10
<1>15. Unique(linters, procs) =>
         /\ Unique(list, bag) /\ k \in linters[j].active /\ k \in linters[j].entries
         /\ \A q \in BagToSet(bag) : ~(q.by = j /\ q.linter = k)
  <2>1. SUFFICES ASSUME Unique(linters, procs)
                 PROVE  /\ Unique(list, bag) /\ k \in linters[j].active /\ k \in linters[j].entries
                        /\ \A q \in BagToSet(bag) : ~(q.by = j /\ q.linter = k)
    OBVIOUS
  <2>2. procs[p] = 1 /\ k \in linters[j].active
    BY <1>1, <2>1 DEF Unique, j, k
  <2>3. ASSUME NEW q \in BagToSet(bag)
        PROVE  /\ q \in BagToSet(procs) /\ q # p /\ bag[q] = 1
               /\ ~(q.by = j /\ q.linter = k)
               /\ q.by \in 1..Len(linters) /\ q.linter \in linters[q.by].active
    <3>1. q \in BagToSet(procs) /\ q # p
      BY <1>4, <2>2
    <3>2. ~(q.by = j /\ q.linter = k)
      BY <1>1, <2>1, <3>1 DEF Unique, j, k
    <3>3. QED
      BY <1>2, <1>4, <2>1, <3>1, <3>2 DEF Unique, Running
  <2>4. ASSUME NEW q \in BagToSet(bag) PROVE q.linter \in list[q.by].active
    BY <1>11, <1>12, <2>3
  <2>5. Unique(list, bag)
    BY <2>1, <2>3, <2>4 DEF Unique
  <2>6. k \in linters[j].entries
    BY <1>2, <1>3, <2>2
  <2>7. QED
    BY <2>2, <2>3, <2>5, <2>6
<1>16. Alive(linters, procs) => Alive(list, bag)
  <2>1. SUFFICES ASSUME Alive(linters, procs), NEW m \in 1..Len(linters), NEW l \in list[m].active
                 PROVE  \E q \in BagToSet(bag) : q.by = m /\ q.linter = l
    BY <1>10 DEF Alive
  <2>2. l \in linters[m].active /\ ~(m = j /\ l = k)
    BY <1>11, <1>12
  <2>3. PICK q \in BagToSet(procs) : q.by = m /\ q.linter = l
    BY <2>1, <2>2 DEF Alive
  <2>4. q # p
    BY <2>2, <2>3 DEF j, k
  <2>5. QED
    BY <1>4, <2>3, <2>4
<1>17. CASE k \notin linters[j].entries
  <2>1. procs' = bag /\ UNCHANGED <<linters, forgotten, thrown>>
    BY <1>1, <1>17 DEF Final, j, k
  <2>2. forgotten
    BY <1>15, <1>17 DEF LinterInv
  <2>3. Shapes'
    BY <1>1, <1>5, <2>1 DEF LinterInv, Shapes
  <2>4. OfOpen'
    BY <1>1, <1>8, <2>1 DEF LinterInv, OfOpen, OneLinter
  <2>5. QED
    BY <1>7, <2>1, <2>2, <2>3, <2>4 DEF LinterInv
<1>18. CASE k \in linters[j].entries /\ (failed \/ k \in linters[j].pend)
  <2>1. RunLinters(list, j, on, bag)
    BY <1>1, <1>18 DEF Final, j, k, list
  <2>2. j \in 1..Len(list) /\ list[j].doc = linters[j].doc /\ text'[list[j].doc] \in 0..version
    <3>1. j \in 1..Len(list) /\ list[j].doc = linters[j].doc /\ list[j].doc \in 1..n
      BY <1>2, <1>3, <1>10, <1>11
    <3>2. \A d \in 1..n : text[d] \in Nat /\ text[d] <= version
      BY <1>2 DEF LinterInv, Newest, n
    <3>3. QED
      BY <1>1, <1>2, <3>1, <3>2
  <2>3. /\ Listed(linters', n) /\ Len(linters') = Len(list)
        /\ Running(procs', Len(linters'), version)
        /\ \A m \in 1..Len(list) : linters'[m].doc = list[m].doc
    BY <1>2, <1>13, <1>14, <2>1, <2>2, RunShapes
  <2>4. Shapes'
    BY <1>1, <2>3 DEF LinterInv, Shapes, n
  <2>5. linters' # <<>> /\ (OneLinter' => OneLinter /\ j = 1 /\ linters[1].doc = n /\ linters'[1].doc = n)
    <3>1. linters' # <<>>
      BY <1>3, <1>10, <2>3
    <3>2. ASSUME OneLinter' PROVE OneLinter /\ j = 1 /\ linters[1].doc = n /\ linters'[1].doc = n
      <4>1. Len(linters) = 1
        BY <1>10, <2>3, <3>2 DEF OneLinter
      <4>2. OneLinter /\ j = 1 /\ linters[1].doc = n
        BY <1>3, <4>1 DEF OneLinter, LinterInv, OfOpen, n
      <4>3. QED
        BY <1>10, <2>2, <2>3, <4>1, <4>2
    <3>3. QED
      BY <3>1, <3>2
  <2>6. OfOpen'
    BY <1>1, <2>5 DEF OfOpen, n
  <2>7. /\ (~forgotten' => ~forgotten) /\ (~thrown' => ~thrown)
        /\ \A q \in BagToSet(procs') : q \in BagToSet(bag) \/ q.of = text'[list[j].doc]
    BY <1>4, <2>1, RunHistory
  <2>8. ~forgotten' => Unique(list, bag) /\ Unique(linters, procs)
    BY <1>15, <2>7 DEF LinterInv
  <2>9. ~forgotten' => Unique(linters', procs')
    BY <1>13, <1>14, <2>1, <2>2, <2>8, RunMatches
  <2>10. ~forgotten' /\ ~thrown' => Alive(linters', procs')
    BY <1>13, <1>14, <1>16, <2>1, <2>2, <2>7, <2>8, RunMatches DEF LinterInv
  <2>11. OneLinter' => text'[list[j].doc] = version
    BY <1>1, <2>2, <2>5 DEF LinterInv, Newest, n
  <2>12. ASSUME OneLinter', ~forgotten' PROVE Later'
    <3>1. SUFFICES ASSUME NEW q \in BagToSet(procs') PROVE q.of >= results'[q.linter]
      BY DEF Later
    <3>2. q.linter \in Linters
      BY <2>3 DEF Running
    <3>3. CASE q \in BagToSet(bag)
      <4>1. q.by = 1 /\ q \in BagToSet(procs)
        <5>1. q.by \in 1..Len(linters) /\ Len(linters) = 1
          BY <1>5, <2>5, <2>12, <3>3 DEF Running, OneLinter
        <5>2. QED
          BY <1>4, <3>3, <5>1
      <4>2. q.linter # k
        BY <1>15, <2>5, <2>8, <2>12, <3>3, <4>1
      <4>3. q.of >= results[q.linter]
        BY <2>5, <2>7, <2>12, <4>1 DEF LinterInv, Later
      <4>4. QED
        BY <1>6, <3>2, <4>2, <4>3
    <3>4. CASE q.of = version
      <4>1. results'[q.linter] \in 0..version
        BY <1>6, <3>2
      <4>2. QED
        BY <3>4, <4>1
    <3>5. QED
      BY <2>7, <2>11, <2>12, <3>3, <3>4
  <2>13. ASSUME OneLinter', ~forgotten', ~thrown' PROVE Settled'
    <3>1. j = 1 /\ OneLinter /\ Settled
      BY <2>5, <2>7, <2>13 DEF LinterInv
    <3>2. on \subseteq list[j].entries
      BY <1>3, <1>11, <3>1 DEF Settled
    <3>3. /\ linters'[1].entries = on
          /\ \A l \in on \cap list[1].pend :
               /\ l \in linters'[1].active
               /\ \/ l \in linters'[1].pend
                  \/ \A q \in BagToSet(procs') : q.by = 1 /\ q.linter = l => q.of = version
          /\ \A l \in on \ list[1].pend :
               /\ l \in linters'[1].active <=> l \in list[1].active
               /\ \A q \in BagToSet(procs') : q.by = 1 /\ q.linter = l => q \in BagToSet(bag)
      <4>1. /\ linters'[j].entries = on
            /\ \A l \in on \cap list[j].pend :
                 /\ l \in linters'[j].active
                 /\ \/ l \in linters'[j].pend
                    \/ \A q \in BagToSet(procs') : q.by = j /\ q.linter = l => q.of = text'[list[j].doc]
            /\ \A l \in on \ list[j].pend :
                 /\ l \in linters'[j].active <=> l \in list[j].active
                 /\ \A q \in BagToSet(procs') : q.by = j /\ q.linter = l => q \in BagToSet(bag)
        BY <1>13, <1>14, <2>1, <2>2, <2>8, <2>13, <3>2, RunFollows
      <4>2. QED
        BY <2>11, <2>13, <3>1, <4>1
    <3>4. \A q \in BagToSet(procs') : q.by = 1
      BY <2>3, <2>13 DEF Running, OneLinter
    <3>5. k \in on
      BY <1>18, <3>1 DEF Settled
    <3>6. \A l \in Linters \ on : results'[l] = 0
      BY <1>6, <3>1, <3>5 DEF Settled
    <3>7. ASSUME NEW l \in on PROVE Follows(l)'
      <4>1. CASE l \in list[1].pend
        BY <1>1, <3>3, <3>4, <4>1 DEF Follows
      <4>2. CASE l \notin list[1].pend
        <5>1. l \notin linters[1].pend
          BY <1>3, <1>11, <3>1, <4>2
        <5>2. SUFFICES ASSUME timer = 0
                       PROVE  IF l \in linters'[1].active
                              THEN \A q \in BagToSet(procs') : q.linter = l => q.of = version
                              ELSE results'[l] = version
          BY <1>1 DEF Follows
        <5>3. IF l \in linters[1].active
              THEN \A q \in BagToSet(procs) : q.linter = l => q.of = version
              ELSE results[l] = version
          BY <3>1, <5>1, <5>2 DEF Settled, Follows
        <5>4. l \in linters'[1].active <=> l \in list[1].active
          BY <3>3, <4>2
        <5>5. CASE l = k
          <6>1. l \notin linters'[1].active
            BY <1>12, <3>1, <5>4, <5>5
          <6>2. p.of = version
            BY <1>1, <1>15, <2>8, <2>13, <3>1, <5>3, <5>5 DEF k
          <6>3. QED
            BY <1>6, <5>5, <6>1, <6>2
        <5>6. CASE l # k
          <6>1. l \in linters'[1].active <=> l \in linters[1].active
            BY <1>12, <3>1, <5>4, <5>6
          <6>2. \A q \in BagToSet(procs') : q.linter = l => q \in BagToSet(procs)
            BY <1>4, <3>3, <3>4, <4>2
          <6>3. l \in Linters
            BY <1>2
          <6>4. results'[l] = results[l]
            BY <1>6, <5>6, <6>3
          <6>5. QED
            BY <5>3, <6>1, <6>2, <6>4
        <5>7. QED
          BY <5>5, <5>6
      <4>3. QED
        BY <4>1, <4>2
    <3>8. QED
      BY <1>1, <3>3, <3>6, <3>7 DEF Settled
  <2>14. QED
    BY <1>7, <2>4, <2>6, <2>9, <2>10, <2>12, <2>13 DEF LinterInv
<1>19. CASE k \in linters[j].entries /\ ~(failed \/ k \in linters[j].pend)
  <2>1. linters' = list /\ procs' = bag /\ UNCHANGED <<forgotten, thrown>>
    BY <1>1, <1>19 DEF Final, j, k, list
  <2>2. Shapes'
    BY <1>1, <1>13, <1>14, <2>1 DEF LinterInv, Shapes, n
  <2>3. linters' # <<>> /\ (OneLinter' => OneLinter /\ j = 1 /\ linters'[1].doc = n)
    <3>1. linters' # <<>>
      BY <1>3, <1>10, <2>1
    <3>2. ASSUME OneLinter' PROVE OneLinter /\ j = 1 /\ linters'[1].doc = n
      <4>1. Len(linters) = 1
        BY <1>10, <2>1, <3>2 DEF OneLinter
      <4>2. OneLinter /\ j = 1 /\ linters[1].doc = n
        BY <1>3, <4>1 DEF OneLinter, LinterInv, OfOpen, n
      <4>3. QED
        BY <1>3, <1>11, <2>1, <4>2
    <3>3. QED
      BY <3>1, <3>2
  <2>4. OfOpen'
    BY <1>1, <2>3 DEF OfOpen, n
  <2>5. ~forgotten => Unique(linters', procs') /\ Unique(linters, procs)
    BY <1>15, <2>1 DEF LinterInv
  <2>6. ~forgotten /\ ~thrown => Alive(linters', procs')
    BY <1>16, <2>1 DEF LinterInv
  <2>7. ASSUME OneLinter', ~forgotten PROVE Later'
    <3>1. SUFFICES ASSUME NEW q \in BagToSet(bag) PROVE q.of >= results'[q.linter]
      BY <2>1 DEF Later
    <3>2. q.linter \in Linters /\ q.by = 1 /\ q \in BagToSet(procs)
      <4>1. q.linter \in Linters /\ q.by \in 1..Len(linters) /\ Len(linters) = 1
        BY <1>5, <2>3, <2>7 DEF Running, OneLinter
      <4>2. QED
        BY <1>4, <4>1
    <3>3. q.linter # k
      BY <1>15, <2>3, <2>5, <2>7, <3>2
    <3>4. q.of >= results[q.linter]
      BY <2>3, <2>7, <3>2 DEF LinterInv, Later
    <3>5. QED
      BY <1>6, <3>2, <3>3, <3>4
  <2>8. ASSUME OneLinter', ~forgotten, ~thrown PROVE Settled'
    <3>1. j = 1 /\ Settled
      BY <2>3, <2>8 DEF LinterInv
    <3>2. k \in on
      BY <1>19, <3>1 DEF Settled
    <3>3. linters'[1].entries = on /\ linters'[1].pend = linters[1].pend
      BY <1>3, <1>11, <2>1, <3>1 DEF Settled
    <3>4. \A l \in Linters \ on : results'[l] = 0
      BY <1>6, <3>1, <3>2 DEF Settled
    <3>5. ASSUME NEW l \in on PROVE Follows(l)'
      <4>1. l \in Linters /\ Follows(l)
        BY <1>2, <3>1 DEF Settled
      <4>2. SUFFICES ASSUME timer = 0
                     PROVE  IF l \in linters'[1].active
                            THEN \/ l \in linters[1].pend
                                 \/ \A q \in BagToSet(bag) : q.linter = l => q.of = version
                            ELSE results'[l] = version
        BY <1>1, <2>1, <3>3 DEF Follows
      <4>3. IF l \in linters[1].active
            THEN l \in linters[1].pend \/ \A q \in BagToSet(procs) : q.linter = l => q.of = version
            ELSE results[l] = version
        BY <4>1, <4>2 DEF Follows
      <4>4. CASE l = k
        <5>1. l \notin linters'[1].active
          BY <1>12, <2>1, <3>1, <4>4
        <5>2. p.of = version
          BY <1>1, <1>15, <1>19, <2>5, <2>8, <3>1, <4>3, <4>4 DEF k
        <5>3. QED
          BY <1>6, <4>4, <5>1, <5>2
      <4>5. CASE l # k
        <5>1. l \in linters'[1].active <=> l \in linters[1].active
          BY <1>12, <2>1, <3>1, <4>5
        <5>2. results'[l] = results[l]
          BY <1>6, <4>1, <4>5
        <5>3. QED
          BY <1>4, <4>3, <5>1, <5>2
      <4>6. QED
        BY <4>4, <4>5
    <3>6. QED
      BY <1>1, <3>3, <3>4, <3>5 DEF Settled
  <2>9. QED
    BY <1>7, <2>1, <2>2, <2>4, <2>5, <2>6, <2>7, <2>8 DEF LinterInv
<1>20. QED
  BY <1>17, <1>18, <1>19

LEMMA LinterKeeps == LinterInv /\ [Next]_vars => LinterInv'
<1> SUFFICES ASSUME LinterInv, [Next]_vars PROVE LinterInv'
  OBVIOUS
<1>1. /\ text \in Seq(Nat) /\ text # <<>> /\ version \in Nat /\ timer \in 0..Len(text)
      /\ on \in SUBSET Linters /\ results \in [Linters -> 0..version]
      /\ text[Len(text)] = version /\ \A e \in 1..Len(text) : text[e] <= version
      /\ linters = <<>> => Len(text) = 1
  BY DEF LinterInv, Shapes, Newest, OfOpen
<1>2. Len(text) \in Nat \ {0}
  BY <1>1, EmptySeq
<1>3. results = [l \in Linters |-> IF l \in on \ on THEN 0 ELSE results[l]]
  BY <1>1
<1>4. CASE Edit
  BY <1>4, EditKeeps
<1>5. CASE Debounced
  <2>1. /\ timer # 0 /\ timer' = 0 /\ UNCHANGED <<text, version, on, results>> /\ Run(timer, on)
    BY <1>5 DEF Debounced
  <2>2. timer \in 1..Len(text') /\ (linters = <<>> => timer = Len(text'))
    BY <1>1, <1>2, <2>1
  <2>3. timer' \in 0..Len(text')
    BY <1>2, <2>1
  <2>4. results' = [l \in Linters |-> IF l \in on \ on THEN 0 ELSE results[l]]
    BY <1>3, <2>1
  <2>5. QED
    BY <1>1, <1>2, <2>1, <2>2, <2>3, <2>4, CollectionRuns
<1>6. CASE Reopen
  <2> DEFINE n == Len(text)
  <2>1. /\ version' = version + 1 /\ text' = Append(text, version + 1)
        /\ UNCHANGED <<timer, on, results>> /\ Run(n + 1, on)
    BY <1>6 DEF Reopen
  <2>2. /\ text' \in Seq(Nat) /\ Len(text') = n + 1 /\ text'[n + 1] = version + 1
        /\ \A e \in 1..n : text'[e] = text[e]
    BY <1>1, <2>1
  <2>3. n \in Nat
    BY <1>2
  <2>4. text' # <<>> /\ n + 1 \in 1..Len(text') /\ n + 1 = Len(text') /\ Len(text) <= Len(text')
    BY <2>2, <2>3
  <2>5. \A e \in 1..Len(text') : text'[e] <= version'
    <3>1. ASSUME NEW e \in 1..Len(text') PROVE text'[e] <= version'
      <4>1. CASE e \in 1..n
        <5>1. text'[e] = text[e]
          BY <2>2, <4>1
        <5>2. text[e] \in Nat /\ text[e] <= version
          BY <1>1, <4>1
        <5>3. QED
          BY <1>1, <2>1, <5>1, <5>2
      <4>2. CASE e = n + 1
        BY <1>1, <2>1, <2>2, <4>2
      <4>3. QED
        BY <2>2, <2>3, <4>1, <4>2
    <3>2. QED
      BY <3>1
  <2>6. version' \in Nat /\ version <= version' /\ timer' \in 0..Len(text')
    BY <1>1, <2>1, <2>2, <2>3
  <2>7. results' = [l \in Linters |-> IF l \in on \ on THEN 0 ELSE results[l]] /\ on' = on
    BY <1>3, <2>1
  <2>8. text'[Len(text')] = version'
    BY <2>1, <2>2
  <2> HIDE DEF n
  <2>9. QED
    BY <1>1, <2>1, <2>2, <2>4, <2>5, <2>6, <2>7, <2>8, CollectionRuns
<1>7. CASE Activate
  <2>1. UNCHANGED <<text, version, timer, on, results>> /\ Run(Len(text), on)
    BY <1>7 DEF Activate, Open
  <2>2. Len(text) \in 1..Len(text') /\ Len(text) = Len(text')
    BY <1>2, <2>1
  <2>3. results' = [l \in Linters |-> IF l \in on \ on THEN 0 ELSE results[l]]
    BY <1>3, <2>1
  <2>4. QED
    BY <1>1, <1>2, <2>1, <2>2, <2>3, CollectionRuns
<1>8. ASSUME NEW cfg \in SUBSET Linters, ChangeConfiguration(cfg) PROVE LinterInv'
  <2>1. /\ UNCHANGED <<text, version, timer>> /\ on' = cfg /\ Run(Len(text), cfg)
        /\ results' = [l \in Linters |-> IF l \in on \ cfg THEN 0 ELSE results[l]]
    BY <1>8 DEF ChangeConfiguration, Open
  <2>2. Len(text) \in 1..Len(text') /\ Len(text) = Len(text')
    BY <1>2, <2>1
  <2>3. QED
    BY <1>1, <1>2, <2>1, <2>2, CollectionRuns
<1>9. ASSUME NEW p, NEW failed, ProcessEnds(p, failed) PROVE LinterInv'
  BY <1>9, EndKeeps
<1>10. CASE UNCHANGED vars
  <2>1. UNCHANGED <<text, version, timer, on, results, linters, procs, forgotten, thrown>>
    BY <1>10 DEF vars, editorVars
  <2>2. Shapes' /\ Newest' /\ OfOpen'
    BY <2>1 DEF LinterInv, Shapes, Newest, OfOpen, OneLinter
  <2>3. Later = Later' /\ Settled = Settled' /\ OneLinter = OneLinter'
    BY <2>1 DEF Later, Settled, Follows, OneLinter
  <2>4. QED
    BY <2>1, <2>2, <2>3 DEF LinterInv, Unique, Alive
<1>11. QED
  BY <1>4, <1>5, <1>6, <1>7, <1>8, <1>9, <1>10 DEF Next

-----------------------------------------------------------------------------
(* What the invariant says.                                                 *)

LEMMA InvActive == LinterInv => ActiveIsRunning
<1>1. SUFFICES ASSUME LinterInv, ~forgotten, ~thrown, NEW i \in 1..Len(linters), NEW l \in Linters
               PROVE  IF l \in linters[i].active
                      THEN \E p \in Runs(i, l) : Runs(i, l) = {p} /\ procs[p] = 1
                      ELSE Runs(i, l) = {}
  BY DEF ActiveIsRunning
<1>2. Unique(linters, procs) /\ Alive(linters, procs)
  BY <1>1 DEF LinterInv
<1>3. CASE l \in linters[i].active
  <2>1. PICK p \in BagToSet(procs) : p.by = i /\ p.linter = l
    BY <1>2, <1>3 DEF Alive
  <2>2. Runs(i, l) = {p} /\ procs[p] = 1
    BY <1>2, <2>1 DEF Unique, Runs
  <2>3. QED
    BY <1>3, <2>2
<1>4. CASE l \notin linters[i].active
  BY <1>2, <1>4 DEF Unique, Runs
<1>5. QED
  BY <1>3, <1>4

LEMMA InvLatest == LinterInv => LatestText
<1>1. SUFFICES ASSUME LinterInv, Quiet, OneLinter, ~forgotten, ~thrown, NEW l \in on
               PROVE  results[l] = text[Open]
  BY DEF LatestText
<1>2. Follows(l) /\ timer = 0 /\ text[Open] = version /\ Alive(linters, procs)
  BY <1>1 DEF LinterInv, Settled, Quiet, Newest, Open
<1>3. BagToSet(procs) = {}
  BY <1>1 DEF Quiet, EmptyBag, SetToBag, BagToSet
<1>4. l \notin linters[1].active
  BY <1>1, <1>2, <1>3 DEF Alive, OneLinter
<1>5. QED
  BY <1>2, <1>4 DEF Follows

LEMMA InvOff == LinterInv => OffIsClear
BY DEF LinterInv, Settled, OffIsClear

\* The end of a process makes no Linter.
LEMMA EndsKeepList ==
    ASSUME LinterInv, NEW p \in BagToSet(procs), NEW failed, ProcessEnds(p, failed)
    PROVE  Len(linters') = Len(linters)
<1> DEFINE bag == procs (-) SetToBag({p})
           j == p.by
           list == [linters EXCEPT ![j].active = @ \ {p.linter}]
<1>1. /\ linters \in Seq(Records) /\ IsABag(procs)
      /\ j \in 1..Len(linters) /\ linters[j] \in Records
  BY DEF LinterInv, Shapes, Listed, Running
<1>2. IsABag(bag)
  BY <1>1, BagEnded
<1>3. Final(p, failed, bag)
  BY DEF ProcessEnds
<1> HIDE DEF bag
<1>4. DOMAIN list = DOMAIN linters
  BY <1>1
<1>5. CASE RunLinters(list, j, on, bag)
  <2> HIDE DEF list
  <2>1. PICK gone \in SUBSET Gone(list[j], on), due \in SUBSET Due(list[j], on) :
              \E some \in SUBSET due : Effect(list, j, on, bag, gone, due, some)
    BY <1>2, <1>5, RunEffect
  <2>2. DOMAIN linters' = DOMAIN list
    BY <2>1 DEF Effect
  <2>3. Len(linters') = Len(linters)
    BY <1>1, <1>4, <2>2
  <2>4. QED
    BY <2>3
<1>6. QED
  BY <1>1, <1>3, <1>4, <1>5 DEF Final

\* A step shows nothing older than what was shown.
LEMMA InvOrder ==
    LinterInv /\ [Next]_vars =>
      [(OneLinter' /\ ~forgotten) => \A l \in Linters : results'[l] # 0 => results'[l] >= results[l]]_vars
<1>1. SUFFICES ASSUME LinterInv, Next, OneLinter', ~forgotten, NEW l \in Linters, results'[l] # 0
               PROVE  results'[l] >= results[l]
  OBVIOUS
<1>2. results \in [Linters -> 0..version] /\ version \in Nat
  BY <1>1 DEF LinterInv, Newest, Shapes
<1>3. CASE Edit \/ Debounced \/ Reopen \/ Activate
  <2>1. results' = results
    BY <1>3 DEF Edit, Debounced, Reopen, Activate
  <2>2. QED
    BY <1>2, <2>1
<1>4. ASSUME NEW cfg \in SUBSET Linters, ChangeConfiguration(cfg) PROVE results'[l] >= results[l]
  <2>1. results'[l] = IF l \in on \ cfg THEN 0 ELSE results[l]
    BY <1>4 DEF ChangeConfiguration
  <2>2. QED
    BY <1>1, <1>2, <2>1
<1>5. ASSUME NEW p \in BagToSet(procs), NEW failed, ProcessEnds(p, failed) PROVE results'[l] >= results[l]
  <2>1. results' = [results EXCEPT ![p.linter] = p.of]
    BY <1>5 DEF ProcessEnds, Update
  <2>2. CASE l = p.linter
    <3>1. Len(linters') = Len(linters)
      BY <1>1, <1>5, EndsKeepList
    <3>2. Later
      BY <1>1, <3>1 DEF LinterInv, OneLinter
    <3>3. QED
      BY <1>2, <2>1, <2>2, <3>2 DEF Later
  <2>3. CASE l # p.linter
    BY <1>2, <2>1, <2>3
  <2>4. QED
    BY <2>2, <2>3
<1>6. QED
  BY <1>1, <1>3, <1>4, <1>5 DEF Next

-----------------------------------------------------------------------------
(* Types.                                                                   *)

\* The bounds hold, and history is kept in flags.
Bounded ==
    /\ version \in Versions /\ Len(text) \in Docs /\ changes \in 0..MaxChanges
    /\ forgotten \in BOOLEAN /\ thrown \in BOOLEAN

LEMMA BoundedStarts == Init => Bounded
<1>1. SUFFICES ASSUME Init PROVE Bounded
  OBVIOUS
<1>2. text = <<1>> /\ version = 1 /\ changes = 0 /\ forgotten = FALSE /\ thrown = FALSE
  BY <1>1 DEF Init
<1>3. Len(text) = 1
  BY <1>2
<1>4. 1 \in Versions /\ 1 \in Docs /\ 0 \in 0..MaxChanges
  BY BoundAssumption DEF Versions, Docs
<1>5. QED
  BY <1>2, <1>3, <1>4 DEF Bounded

LEMMA FlagsKept ==
    ASSUME Bounded, NEW list, NEW i, NEW cfg, NEW bag, RunLinters(list, i, cfg, bag)
    PROVE  forgotten' \in BOOLEAN /\ thrown' \in BOOLEAN
BY DEF Bounded, RunLinters

LEMMA BoundedKept == LinterInv /\ Bounded /\ [Next]_vars => Bounded'
<1>1. SUFFICES ASSUME LinterInv, Bounded, Next PROVE Bounded'
  BY DEF vars, editorVars, Bounded
<1>2. text \in Seq(Nat) /\ text # <<>> /\ version \in Nat
  BY <1>1 DEF LinterInv, Shapes
<1>3. MaxEdits \in Nat /\ MaxDocs \in Nat /\ MaxChanges \in Nat
  BY BoundAssumption
<1>4. CASE Edit
  <2>1. Len(text') = Len(text)
    BY <1>2, <1>4 DEF Edit
  <2>2. QED
    BY <1>1, <1>3, <1>4, <2>1 DEF Edit, Bounded, Versions
<1>5. CASE Debounced
  <2>1. UNCHANGED <<text, version, changes>> /\ Run(timer, on)
    BY <1>5 DEF Debounced
  <2>2. forgotten' \in BOOLEAN /\ thrown' \in BOOLEAN
    BY <1>1, <2>1, FlagsKept DEF Run
  <2>3. QED
    BY <1>1, <2>1, <2>2 DEF Bounded
<1>6. CASE Reopen
  <2>1. /\ Len(text) < MaxDocs /\ version < MaxEdits /\ version' = version + 1
        /\ text' = Append(text, version + 1) /\ UNCHANGED changes /\ Run(Len(text) + 1, on)
    BY <1>6 DEF Reopen
  <2>2. forgotten' \in BOOLEAN /\ thrown' \in BOOLEAN
    BY <1>1, <2>1, FlagsKept DEF Run
  <2>3. Len(text') = Len(text) + 1 /\ Len(text) \in Nat
    BY <1>2, <2>1
  <2>4. QED
    BY <1>1, <1>2, <1>3, <2>1, <2>2, <2>3 DEF Bounded, Versions, Docs
<1>7. ASSUME changes < MaxChanges, changes' = changes + 1, UNCHANGED <<text, version>>,
             NEW cfg, Run(Open, cfg)
      PROVE  Bounded'
  <2>1. forgotten' \in BOOLEAN /\ thrown' \in BOOLEAN
    BY <1>1, <1>7, FlagsKept DEF Run
  <2>2. QED
    BY <1>1, <1>3, <1>7, <2>1 DEF Bounded
<1>8. CASE Activate
  BY <1>7, <1>8 DEF Activate
<1>9. CASE \E cfg \in SUBSET Linters : ChangeConfiguration(cfg)
  BY <1>7, <1>9 DEF ChangeConfiguration
<1>10. ASSUME NEW p, NEW failed, ProcessEnds(p, failed) PROVE Bounded'
  <2>1. /\ UNCHANGED editorVars /\ Final(p, failed, procs (-) SetToBag({p}))
    BY <1>10 DEF ProcessEnds
  <2>2. forgotten' \in BOOLEAN /\ thrown' \in BOOLEAN
    BY <1>1, <2>1, FlagsKept DEF Final, Bounded
  <2>3. QED
    BY <1>1, <2>1, <2>2 DEF Bounded, editorVars
<1>11. QED
  BY <1>1, <1>4, <1>5, <1>6, <1>8, <1>9, <1>10 DEF Next

LEMMA InvTypes == LinterInv /\ Bounded => TypeOK
<1>1. SUFFICES ASSUME LinterInv, Bounded PROVE TypeOK
  OBVIOUS
<1>2. /\ text \in Seq(Nat) /\ version \in Nat /\ timer \in 0..Len(text) /\ on \in SUBSET Linters
      /\ \A d \in 1..Len(text) : text[d] <= version
      /\ results \in [Linters -> 0..version]
      /\ Listed(linters, Len(text)) /\ Running(procs, Len(linters), version)
  BY <1>1 DEF LinterInv, Shapes, Newest
<1>3. /\ MaxEdits \in Nat /\ MaxDocs \in Nat /\ Len(text) \in Nat
      /\ version <= MaxEdits /\ Len(text) <= MaxDocs
  BY <1>1, <1>2, BoundAssumption DEF Bounded, Versions, Docs
<1>4. 0..version \subseteq Versions /\ 1..Len(text) \subseteq Docs /\ 0..Len(text) \subseteq 0..MaxDocs
  BY <1>2, <1>3 DEF Versions, Docs
<1>5. text \in Seq(Versions)
  <2>1. \A d \in 1..Len(text) : text[d] \in Nat
    BY <1>2
  <2>2. \A d \in 1..Len(text) : text[d] \in 0..version
    BY <1>2, <2>1
  <2>3. QED
    BY <1>2, <1>4, <2>2
<1>6. linters \in Seq(Records) /\ Len(linters) \in Nat
  BY <1>2 DEF Listed
<1>7. linters \in Seq(Objects)
  <2>1. \A i \in 1..Len(linters) : linters[i] \in Records /\ linters[i].doc \in Docs
    BY <1>2, <1>4, <1>6 DEF Listed
  <2>2. \A i \in 1..Len(linters) : linters[i] \in Objects
    BY <2>1 DEF Records, Objects
  <2>3. QED
    BY <1>6, <2>2
<1>8. IsABag(procs) /\ BagToSet(procs) \subseteq Processes
  <2>1. 1..Len(linters) \subseteq Nat \ {0}
    BY <1>6
  <2>2. QED
    BY <1>2, <1>4, <2>1 DEF Running, Processes
<1>9. \A i \in 1..Len(linters) : linters[i].active \cup linters[i].pend \subseteq linters[i].entries
  BY <1>2 DEF Listed
<1>10. results \in [Linters -> Versions]
  BY <1>2, <1>4
<1>11. QED
  BY <1>1, <1>2, <1>4, <1>5, <1>7, <1>8, <1>9, <1>10 DEF TypeOK, Bounded

-----------------------------------------------------------------------------
(* Theorems.                                                                *)

\* Type correctness; what is active or pends has an entry (linter.js:23-35, 138-152).
THEOREM TypeCorrect == Spec => []TypeOK
BY LinterStarts, LinterKeeps, BoundedStarts, BoundedKept, InvTypes, PTL DEF Spec

\* Whether a linter is active tells whether a process of it runs, so that none
\* runs twice and none is blocked for ever (linter.js:138-150).
THEOREM ActiveAlwaysRunning == Spec => []ActiveIsRunning
BY LinterStarts, LinterKeeps, InvActive, PTL DEF Spec

\* At rest every linter that is on has seen the present text (linter.js:31-35,
\* 150-152).
THEOREM TextAlwaysLatest == Spec => []LatestText
BY LinterStarts, LinterKeeps, InvLatest, PTL DEF Spec

\* A linter that is off shows nothing (lintCollection.ts:42-51).
THEOREM OffAlwaysClear == Spec => []OffIsClear
BY LinterStarts, LinterKeeps, InvOff, PTL DEF Spec

\* What is shown never gives way to what was found in an older text
\* (lintCollection.ts:35-40).
THEOREM ResultsAlwaysInOrder == Spec => ResultsInOrder
BY LinterStarts, LinterKeeps, InvOrder, PTL DEF Spec, ResultsInOrder
=============================================================================
