----------------------- MODULE WorkspaceFeatures_proofs -----------------------
(***************************************************************************)
(* Proofs about WorkspaceFeatures: the index of symbols, the rake tasks,   *)
(* the environment and the formatter of the extension, for all files,      *)
(* bounds, codes, processes, variables and values.                         *)
(***************************************************************************)
EXTENDS WorkspaceFeatures, SequenceTheorems, FiniteSetTheorems, WellFoundedInduction, TLAPS

-----------------------------------------------------------------------------
(* The rake tasks.  A promise or a process that has read an older Rakefile *)
(* is always followed by an event that forgets it.                         *)

Reported == creations = 0 /\ changes = 0

\* Before there is a watcher there are neither events nor tasks.
Unwatched ==
  registration # "watching" =>
    Reported /\ rakePromise \in {Undefined} /\ rake \in {NoRake}

\* A set without a file has seen every Rakefile but the missed one.
Found ==
  registration # "searching" /\ ~rakeFiles /\ creations = 0 => rakefile = Gone \/ missed

Current(t) == t.kind = "tasks" => t.rakefile = rakefile

PromiseFresh == Reported => Current(rakePromise) /\ (rakePromise = NoTasks => rakefile = Gone \/ missed)
RakeFresh == Reported => Current(rake)

RakeInv == RakeTypeOK /\ Unwatched /\ Found /\ PromiseFresh /\ RakeFresh

\* The kinds of answers and of runs of rake.
LEMMA RakeKinds ==
    /\ Undefined.kind = "undefined" /\ Pending.kind = "pending" /\ NoTasks.kind = "empty"
    /\ Failed.kind = "failed" /\ NoRake.kind = "none" /\ Reading.kind = "unread"
    /\ \A t \in AllTasks : t.kind = "tasks" /\ t.rakefile \in Nat
    /\ \A r, l \in Nat : Tasks(r, l) \in AllTasks /\ Tasks(r, l).rakefile = r
BY DEF Undefined, Pending, NoTasks, Failed, NoRake, Reading, AllTasks, Tasks

\* The numbers, and the rest of the type.
Numbers ==
  version \in Nat /\ rakefile \in Nat /\ loaded \in Nat /\ creations \in Nat /\ changes \in Nat

LEMMA RakeNumbers == RakeTypeOK => Numbers
<1>1. RakeTypeOK => /\ version \in Nat /\ rakefile \in {Gone, version} /\ loaded \in Nat
                    /\ creations \in Nat /\ changes \in Nat
  BY Zenon DEF RakeTypeOK
<1>2. QED
  BY <1>1 DEF Numbers, Gone

LEMMA RakeStarts == RakeInit => RakeInv
<1> SUFFICES ASSUME RakeInit PROVE RakeInv
  OBVIOUS
<1>1. version \in Nat /\ loaded \in Nat /\ creations \in Nat /\ changes \in Nat
  BY DEF RakeInit
<1>2. RakeTypeOK
  BY <1>1, Zenon DEF RakeInit, RakeTypeOK
<1>3. Unwatched /\ Found
  BY Zenon DEF RakeInit, Unwatched, Reported, Found
<1>4. PromiseFresh /\ RakeFresh
  BY RakeKinds DEF RakeInit, PromiseFresh, RakeFresh, Current
<1>5. QED
  BY <1>2, <1>3, <1>4 DEF RakeInv

\* A change of the files comes with an event, when there is a watcher.
LEMMA FilesKeep == RakeInv /\ (ChangeRakefile \/ RemoveRakefile \/ ChangeLoaded) => RakeInv'
<1> USE DEF RakeInv
<1>1. ASSUME RakeInv, ChangeRakefile PROVE RakeInv'
  <2>1. RakeTypeOK'
    <3>1. version + 1 \in Nat /\ creations' \in Nat /\ changes' \in Nat
      BY <1>1, RakeNumbers DEF Numbers, ChangeRakefile
    <3>2. missed' \in BOOLEAN
      BY <1>1 DEF ChangeRakefile, RakeTypeOK
    <3>3. QED
      BY <1>1, <3>1, <3>2, Zenon DEF ChangeRakefile, RakeTypeOK
  <2>2. registration' = "watching" => ~Reported'
    BY <1>1 DEF ChangeRakefile, RakeTypeOK, Reported
  <2>3. Unwatched'
    BY <1>1 DEF ChangeRakefile, Unwatched, Reported
  <2>4. Found'
    <3>1. creations' = 0 => creations = 0 /\ (registration = "watching" => rakefile # Gone)
      BY <1>1, RakeNumbers DEF Numbers, ChangeRakefile
    <3>2. rakeFiles' = rakeFiles /\ registration' = registration
      BY <1>1 DEF ChangeRakefile
    <3>3. rakefile = Gone => missed' = (registration = "found")
      BY <1>1 DEF ChangeRakefile
    <3>4. rakefile # Gone => missed' = missed
      BY <1>1 DEF ChangeRakefile
    <3>5. registration \in {"searching", "found", "watching"}
      BY <1>1, Zenon DEF RakeTypeOK
    <3>6. QED
      BY <1>1, <3>1, <3>2, <3>3, <3>4, <3>5 DEF Found
  <2>5. PromiseFresh' /\ RakeFresh'
    BY <2>2, <2>3, RakeKinds DEF Unwatched, PromiseFresh, RakeFresh, Current
  <2>6. QED
    BY <2>1, <2>3, <2>4, <2>5
<1>2. ASSUME RakeInv, RemoveRakefile PROVE RakeInv'
  <2>1. RakeTypeOK'
    BY <1>2 DEF RemoveRakefile, RakeTypeOK
  <2>2. registration' = "watching" => ~Reported'
    BY <1>2 DEF RemoveRakefile, RakeTypeOK, Reported
  <2>3. Unwatched' /\ Found'
    BY <1>2 DEF RemoveRakefile, Unwatched, Reported, Found
  <2>4. PromiseFresh' /\ RakeFresh'
    BY <2>2, <2>3, RakeKinds DEF Unwatched, PromiseFresh, RakeFresh, Current
  <2>5. QED
    BY <2>1, <2>3, <2>4
<1>3. ASSUME RakeInv, ChangeLoaded PROVE RakeInv'
  BY <1>3 DEF ChangeLoaded, RakeTypeOK, Unwatched, Reported, Found, PromiseFresh, RakeFresh, Current
<1>4. QED
  BY <1>1, <1>2, <1>3

LEMMA ProviderKeeps ==
    RakeInv /\ (FindFiles \/ Watch \/ ReportCreation \/ ReportChange) => RakeInv'
<1> USE DEF RakeInv
<1>1. ASSUME RakeInv, FindFiles PROVE RakeInv'
  BY <1>1 DEF FindFiles, RakeTypeOK, Unwatched, Reported, Found, PromiseFresh, RakeFresh, Current
<1>2. ASSUME RakeInv, Watch PROVE RakeInv'
  BY <1>2 DEF Watch, RakeTypeOK, Unwatched, Reported, Found, PromiseFresh, RakeFresh, Current
<1>3. ASSUME RakeInv, ReportCreation PROVE RakeInv'
  BY <1>3, RakeKinds DEF ReportCreation, Forget, RakeTypeOK, Unwatched, Reported, Found, PromiseFresh,
     RakeFresh, Current
<1>4. ASSUME RakeInv, ReportChange PROVE RakeInv'
  BY <1>4, RakeKinds DEF ReportChange, Forget, RakeTypeOK, Unwatched, Reported, Found, PromiseFresh,
     RakeFresh, Current
<1>5. QED
  BY <1>1, <1>2, <1>3, <1>4

LEMMA TasksKeep == RakeInv /\ (ProvideTasks \/ ReadRakefile \/ RakeEnds) => RakeInv'
<1> USE DEF RakeInv
<1>1. ASSUME RakeInv, ProvideTasks PROVE RakeInv'
  <2>1. RakeTypeOK'
    BY <1>1 DEF ProvideTasks, RakeTypeOK
  <2>2. Unwatched' /\ Found'
    BY <1>1 DEF ProvideTasks, Unwatched, Found
  <2>3. PromiseFresh' /\ RakeFresh'
    BY <1>1, RakeKinds DEF ProvideTasks, Found, PromiseFresh, RakeFresh, Reported, Current
  <2>4. QED
    BY <2>1, <2>2, <2>3
<1>2. ASSUME RakeInv, ReadRakefile PROVE RakeInv'
  <2>1. rakefile \in Nat /\ loaded \in Nat
    BY <1>2, RakeNumbers DEF Numbers
  <2>2. rake' \in {Tasks(rakefile, loaded), Failed}
    BY <1>2 DEF ReadRakefile
  <2>3. RakeTypeOK'
    BY <1>2, <2>1, <2>2, RakeKinds DEF ReadRakefile, RakeTypeOK
  <2>4. Unwatched'
    BY <1>2, RakeKinds DEF ReadRakefile, Unwatched
  <2>5. RakeFresh'
    BY <1>2, <2>1, <2>2, RakeKinds DEF ReadRakefile, RakeFresh, Current
  <2>6. Found' /\ PromiseFresh'
    BY <1>2 DEF ReadRakefile, Found, PromiseFresh, Reported, Current
  <2>7. QED
    BY <2>3, <2>4, <2>5, <2>6
<1>3. ASSUME RakeInv, RakeEnds PROVE RakeInv'
  <2>1. rake \in {Failed} \cup AllTasks
    BY <1>3 DEF RakeEnds, RakeTypeOK
  <2>2. RakeTypeOK'
    BY <1>3, <2>1 DEF RakeEnds, RakeTypeOK
  <2>3. Unwatched' /\ Found'
    BY <1>3 DEF RakeEnds, Unwatched, Found
  <2>4. PromiseFresh' /\ RakeFresh'
    BY <1>3, <2>1, RakeKinds DEF RakeEnds, PromiseFresh, RakeFresh, Reported, Current
  <2>5. QED
    BY <2>2, <2>3, <2>4
<1>4. QED
  BY <1>1, <1>2, <1>3

LEMMA RakeKeeps == RakeInv /\ [RakeNext]_rakeVars => RakeInv'
<1>1. RakeInv /\ UNCHANGED rakeVars => RakeInv'
  BY DEF rakeVars, RakeInv, RakeTypeOK, Unwatched, Reported, Found, PromiseFresh, RakeFresh, Current
<1>2. QED
  BY <1>1, FilesKeep, ProviderKeeps, TasksKeep DEF RakeNext

-----------------------------------------------------------------------------
(* The formatter that corrects a file in place.                            *)

\* RuboCop runs while the request waits for it, and leaves no half of a file
\* with an exit that reports success or offenses.
CorrectInv ==
  /\ stage \in {"none", "folder", "file"} => rubo = "none"
  /\ rubo = "running" => stage = "process"
  /\ rubo \in {"0", "1"} => tmpfile # "cut"
  /\ stage = "read" => rubo \in {"0", "1", Signal}
  /\ NeverCut

\* The kinds of replies.
LEMMA Replies ==
    /\ \A t : Whole(t) # NoEdits /\ Whole(t) # None
    /\ \A t, u : Whole(t) = Whole(u) => t = u
<1>1. \A t : Whole(t).kind = "replace" /\ Whole(t).text = t
  BY DEF Whole
<1>2. NoEdits.kind = "empty" /\ None.kind = "none"
  BY DEF NoEdits, None
<1>3. QED
  BY <1>1, <1>2

LEMMA CorrectStarts == CorrectInit => CorrectInv
BY Replies DEF CorrectInit, CorrectInv, NeverCut, Signal

LEMMA CorrectKeeps == CorrectInv /\ [CorrectNext]_correctVars => CorrectInv'
<1> SUFFICES ASSUME CorrectInv, [CorrectNext]_correctVars PROVE CorrectInv'
  OBVIOUS
<1> USE DEF CorrectInv, NeverCut, Signal
<1>1. CASE Test \/ Provide \/ MakeFolder
  BY <1>1, Replies DEF Test, Provide, MakeFolder, Answer
<1>2. CASE WriteFile
  BY <1>2, Replies DEF WriteFile, Answer
<1>3. CASE Rewrite
  BY <1>3 DEF Rewrite
<1>4. ASSUME NEW code \in Exits, Exit(code) PROVE CorrectInv'
  <2>1. code # "running" /\ code # "none"
    BY CodesAssumption DEF Exits
  <2>2. QED
    BY <1>4, <2>1 DEF Exit
<1>5. CASE OnExit
  <2>1. rubo # "running"
    BY <1>5, CodesAssumption DEF OnExit, Exits
  <2>2. QED
    BY <1>5, <2>1, Replies DEF OnExit, Answer
<1>6. CASE ReadFile
  BY <1>6, Replies DEF ReadFile, Answer
<1>7. CASE UNCHANGED correctVars
  BY <1>7 DEF correctVars
<1>8. QED
  BY <1>1, <1>2, <1>3, <1>4, <1>5, <1>6, <1>7 DEF CorrectNext

-----------------------------------------------------------------------------
(* The shim.                                                               *)

EnvTypeOK ==
  /\ shim \in {"missing", "empty", "whole", "hollow", "executable"}
  /\ phase \in [Processes -> {"start", "mkdir", "look", "create", "write", "chmod", "run", "over"}]
  /\ DOMAIN sound = Processes /\ DOMAIN env = Processes

\* Once a process has found the shim in order, with nobody at work on it, it
\* stays so.
ShimStays ==
  (\E p \in Processes : sound[p]) =>
    shim = "executable" /\ Untouched

\* A process that has found it so runs it, and reads what the shell prints.
SoundEnvironment ==
  \A p \in Processes : sound[p] =>
    /\ phase[p] \in {"run", "over"}
    /\ phase[p] = "over" => env[p] = Loaded(ProcessEnvironment(Output))

EnvInv == EnvTypeOK /\ ShimStays /\ SoundEnvironment

LEMMA EnvStarts == EnvInit => EnvInv
BY DEF EnvInit, EnvInv, EnvTypeOK, ShimStays, SoundEnvironment

\* The output is that of the shell, which does not change.
LEMMA SameOutput ==
    UNCHANGED <<shell, quote>> => UNCHANGED Loaded(ProcessEnvironment(Output))
BY DEF Output, Printed, Prefix, Quoted

LEMMA EnvKeeps == EnvInv /\ [EnvNext]_envVars => EnvInv'
<1> SUFFICES ASSUME EnvInv, [EnvNext]_envVars PROVE EnvInv'
  OBVIOUS
<1> USE DEF EnvInv
<1>0. ASSUME NEW p \in Processes, LookForShimDir(p) \/ MakeShimDir(p) PROVE EnvInv'
  <2>1. /\ phase[p] \in {"start", "mkdir"} /\ UNCHANGED <<shell, quote, shim, sound>>
        /\ \E to \in {"mkdir", "look", "over"} : Go(p, to)
        /\ env' = env \/ env' = [env EXCEPT ![p] = Thrown]
    BY <1>0, Zenon DEF LookForShimDir, MakeShimDir
  <2>2. /\ phase \in [Processes -> {"start", "mkdir", "look", "create", "write", "chmod", "run", "over"}]
        /\ DOMAIN env = Processes /\ ~sound[p]
    BY <2>1 DEF EnvTypeOK, SoundEnvironment
  <2>3. /\ phase'[p] \in {"mkdir", "look", "over"}
        /\ phase' \in [Processes -> {"start", "mkdir", "look", "create", "write", "chmod", "run", "over"}]
        /\ DOMAIN env' = Processes
        /\ \A q \in Processes : q # p => phase'[q] = phase[q] /\ env'[q] = env[q]
    BY <2>1, <2>2 DEF Go
  <2>4. EnvTypeOK'
    BY <2>1, <2>3 DEF EnvTypeOK
  <2>5. ShimStays'
    BY <2>1, <2>3 DEF ShimStays, Untouched
  <2>6. SoundEnvironment'
    BY <2>1, <2>2, <2>3, SameOutput DEF SoundEnvironment
  <2>7. QED
    BY <2>4, <2>5, <2>6
<1>1. ASSUME NEW p \in Processes, GetShim(p) PROVE EnvInv'
  <2>1. EnvTypeOK'
    BY <1>1 DEF GetShim, Go, EnvTypeOK
  <2>2. ShimStays'
    BY <1>1 DEF GetShim, Go, EnvTypeOK, ShimStays, Untouched
  <2>3. SoundEnvironment'
    BY <1>1, SameOutput DEF GetShim, Go, EnvTypeOK, SoundEnvironment
  <2>4. QED
    BY <2>1, <2>2, <2>3
<1>2. ASSUME NEW p \in Processes, CreateShim(p) \/ WriteShim(p) \/ ChmodShim(p) PROVE EnvInv'
  <2>1. phase[p] \in {"create", "write", "chmod"} /\ UNCHANGED <<sound, shell, quote>>
    BY <1>2 DEF CreateShim, WriteShim, ChmodShim
  <2>2. \A q \in Processes : ~sound[q]
    BY <2>1 DEF ShimStays, Untouched
  <2>3. EnvTypeOK'
    BY <1>2 DEF CreateShim, WriteShim, ChmodShim, Go, EnvTypeOK
  <2>4. QED
    BY <2>1, <2>2, <2>3 DEF ShimStays, SoundEnvironment
<1>3. ASSUME NEW p \in Processes, RunShim(p) PROVE EnvInv'
  <2>1. EnvTypeOK'
    BY <1>3 DEF RunShim, Go, EnvTypeOK
  <2>2. ShimStays'
    BY <1>3 DEF RunShim, Go, EnvTypeOK, ShimStays, Untouched
  <2>3. SoundEnvironment'
    <3>1. shim = "executable" => env' = [env EXCEPT ![p] = Loaded(ProcessEnvironment(Output))]
      BY <1>3 DEF RunShim
    <3>2. UNCHANGED Loaded(ProcessEnvironment(Output)) /\ UNCHANGED sound
      BY <1>3, SameOutput DEF RunShim
    <3>3. ASSUME NEW q \in Processes, sound[q], phase'[q] = "over"
          PROVE  env'[q] = Loaded(ProcessEnvironment(Output))
      BY <1>3, <3>1, <3>3 DEF RunShim, Go, EnvTypeOK, ShimStays, SoundEnvironment
    <3>4. ASSUME NEW q \in Processes, sound[q] PROVE phase'[q] \in {"run", "over"}
      BY <1>3, <3>4 DEF RunShim, Go, EnvTypeOK, SoundEnvironment
    <3>5. QED
      BY <3>2, <3>3, <3>4 DEF SoundEnvironment
  <2>4. QED
    BY <2>1, <2>2, <2>3
<1>4. CASE UNCHANGED envVars
  BY <1>4, SameOutput DEF envVars, EnvTypeOK, ShimStays, Untouched, SoundEnvironment
<1>5. QED
  BY <1>0, <1>1, <1>2, <1>3, <1>4 DEF EnvNext

-----------------------------------------------------------------------------
(* What is read from the shell's output.  By induction over its variables, *)
(* the output has one line for each; the key of a line is the name, and    *)
(* reading a value takes away what printing it has added.                  *)

\* A set of natural numbers has a least element, and if it is bounded a greatest.
LEMMA HasMin == ASSUME NEW S \in SUBSET Nat, S # {} PROVE \E m \in S : \A k \in S : m <= k
<1> DEFINE Below == {ss \in Nat \X Nat : ss[1] < ss[2]}
<1>1. IsWellFoundedOn(Below, Nat)
  BY NatLessThanWellFounded DEF OpToRel
<1>2. PICK m \in S : \A k \in S : ~(<<k, m>> \in Below)
  <2> HIDE DEF Below
  <2> QED BY <1>1, WFMin
<1>3. ASSUME NEW k \in S PROVE m <= k
  <2>1. ~(<<k, m>> \in Below)
    BY <1>2
  <2>2. ~(k < m)
    BY <2>1
  <2> QED BY <2>2
<1> QED BY <1>3

LEMMA MinOfNats == ASSUME NEW S \in SUBSET Nat, S # {}
                   PROVE Min(S) \in S /\ \A k \in S : Min(S) <= k
BY HasMin, Zenon DEF Min

LEMMA MaxOfNats == ASSUME NEW S \in SUBSET Nat, S # {}, NEW n \in Nat, \A k \in S : k <= n
                   PROVE Max(S) \in S /\ \A k \in S : k <= Max(S)
<1> DEFINE Mirror == {n - k : k \in S}
<1>1. PICK m \in Mirror : \A k \in Mirror : m <= k
  <2>1. \A k \in S : n - k \in Nat
    OBVIOUS
  <2>2. Mirror \in SUBSET Nat /\ Mirror # {}
    BY <2>1
  <2> HIDE DEF Mirror
  <2> QED BY <2>2, HasMin
<1>2. PICK x \in S : m = n - x
  OBVIOUS
<1>3. \A y \in S : x >= y
  <2> TAKE y \in S
  <2>1. n - y \in Mirror
    OBVIOUS
  <2>2. m <= n - y
    BY <1>1, <2>1
  <2>3. x \in Nat /\ y \in Nat
    OBVIOUS
  <2> QED BY <1>2, <2>2, <2>3
<1>4. Max(S) \in S /\ \A y \in S : Max(S) >= y
  BY <1>3, Zenon DEF Max
<1>5. Max(S) \in Nat
  BY <1>4
<1> QED BY <1>4, <1>5


\* Induction up to a bound, for a set.
LEMMA Reaching ==
  ASSUME NEW n \in Nat, NEW S, 0 \in S, \A i \in 0 .. n - 1 : i \in S => i + 1 \in S
  PROVE  \A i \in 0 .. n : i \in S
<1> DEFINE Missed == {i \in 0 .. n : i \notin S}
<1> SUFFICES ASSUME Missed # {} PROVE FALSE
  OBVIOUS
<1>1. Missed \in SUBSET Nat
  OBVIOUS
<1>2. PICK m \in Missed : \A k \in Missed : m <= k
  <2> HIDE DEF Missed
  <2> QED BY <1>1, HasMin
<1>3. m \in 0 .. n /\ m \notin S /\ m # 0
  OBVIOUS
<1>4. m - 1 \in 0 .. n - 1 /\ m - 1 \in 0 .. n
  BY <1>3
<1>5. m - 1 \in S
  BY <1>2, <1>4
<1>6. (m - 1) + 1 \in S
  BY <1>4, <1>5
<1> QED BY <1>3, <1>6

-----------------------------------------------------------------------------
(* One line.                                                               *)

Bare(variable) == Prefix \o <<variable.name>> \o Quoted(variable.value)

\* A text with a newline at its end and nowhere else.
IsLine(text) ==
  /\ text \in Seq(Characters) /\ text # <<>>
  /\ text[Len(text)] = Newline
  /\ \A i \in 1 .. Len(text) - 1 : text[i] # Newline

Joined(s, t) == s \o t

Variables == [name : Names, value : Values]
Quotes == {Double, Single, NoQuote}

LEMMA InCharacters ==
  /\ \A c \in Names : c \in Characters
  /\ Newline \in Characters /\ Blank \in Characters /\ Word \in Characters
  /\ Double \in Characters /\ Single \in Characters
BY DEF Characters

LEMMA ValueFacts ==
  ASSUME NEW v \in Variables
  PROVE  /\ v.value \in Seq(Characters) /\ Len(v.value) \in Nat
         /\ DOMAIN v.value = 1 .. Len(v.value)
         /\ \A i \in 1 .. Len(v.value) : v.value[i] \notin {Double, Single}
         /\ OneLine(v) => \A i \in 1 .. Len(v.value) : v.value[i] # Newline
         /\ v.name \in Names /\ v.name \in Characters
         /\ v.name \notin {Newline, Blank, Word, Escape, Double, Single}
<1>1. v.value \in Seq(Characters) /\ Len(v.value) \in Nat /\ DOMAIN v.value = 1 .. Len(v.value)
  BY ValuesAssumption, LenProperties DEF Variables
<1>2. \A i \in 1 .. Len(v.value) : v.value[i] \in ToSet(v.value)
  BY <1>1 DEF ToSet
<1>3. \A i \in 1 .. Len(v.value) : v.value[i] \notin {Double, Single}
  BY <1>2, ValuesAssumption DEF Variables
<1>4. OneLine(v) => \A i \in 1 .. Len(v.value) : v.value[i] # Newline
  BY <1>2 DEF OneLine
<1>5. v.name \in Names /\ v.name \in Characters
  BY InCharacters DEF Variables
<1>6. v.name \notin {Newline, Blank, Word, Escape, Double, Single}
  BY <1>5, NamesAssumption
<1> QED BY <1>1, <1>3, <1>4, <1>5, <1>6

LEMMA QuotedFacts ==
  ASSUME NEW v \in Variables, quote \in Quotes
  PROVE  /\ Quoted(v.value) \in Seq(Characters)
         /\ quote = NoQuote => Quoted(v.value) = v.value
         /\ quote # NoQuote =>
              /\ Len(Quoted(v.value)) = Len(v.value) + 2
              /\ Quoted(v.value)[1] = quote
              /\ Quoted(v.value)[Len(v.value) + 2] = quote
              /\ \A i \in 1 .. Len(v.value) : Quoted(v.value)[i + 1] = v.value[i]
<1>1. v.value \in Seq(Characters) /\ Len(v.value) \in Nat
  BY ValueFacts
<1>2. CASE quote = NoQuote
  BY <1>1, <1>2 DEF Quoted
<1>3. CASE quote # NoQuote
  <2> DEFINE q == <<quote>>
             front == q \o v.value
  <2>1. q \in Seq(Characters) /\ Len(q) = 1 /\ q[1] = quote
    <3>1. quote \in Characters
      BY <1>3, InCharacters DEF Quotes
    <3> QED BY <3>1
  <2> HIDE DEF q
  <2>2. /\ front \in Seq(Characters) /\ Len(front) = 1 + Len(v.value)
        /\ \A i \in 1 .. 1 + Len(v.value) : front[i] = IF i <= 1 THEN q[i] ELSE v.value[i - 1]
    <3>1. /\ front \in Seq(Characters) /\ Len(front) = Len(q) + Len(v.value)
          /\ \A i \in 1 .. Len(q) + Len(v.value) :
               front[i] = IF i <= Len(q) THEN q[i] ELSE v.value[i - Len(q)]
      BY <1>1, <2>1, ConcatProperties
    <3> HIDE DEF front
    <3> QED BY <2>1, <3>1
  <2> HIDE DEF front
  <2>3. /\ front \o q \in Seq(Characters) /\ Len(front \o q) = Len(front) + Len(q)
        /\ \A i \in 1 .. Len(front) + Len(q) :
             (front \o q)[i] = IF i <= Len(front) THEN front[i] ELSE q[i - Len(front)]
    BY <2>1, <2>2, ConcatProperties
  <2>4. Quoted(v.value) = front \o q
    BY <1>3 DEF Quoted, front, q
  <2> DEFINE whole == Quoted(v.value)
  <2>5. /\ whole \in Seq(Characters) /\ Len(whole) = Len(v.value) + 2
        /\ \A i \in 1 .. Len(v.value) + 2 :
             whole[i] = IF i <= Len(v.value) + 1 THEN front[i] ELSE q[i - (Len(v.value) + 1)]
    <3> DEFINE all == front \o q
    <3>1. whole = all
      BY <2>4
    <3>2. /\ all \in Seq(Characters) /\ Len(all) = Len(front) + Len(q)
          /\ \A i \in 1 .. Len(front) + Len(q) :
               all[i] = IF i <= Len(front) THEN front[i] ELSE q[i - Len(front)]
      BY <2>3
    <3>3. Len(front) = Len(v.value) + 1 /\ Len(front) + Len(q) = Len(v.value) + 2
      BY <1>1, <2>1, <2>2
    <3> HIDE DEF all, whole
    <3> QED BY <3>1, <3>2, <3>3
  <2> HIDE DEF whole
  <2>6. whole[1] = quote /\ whole[Len(v.value) + 2] = quote
    <3> DEFINE m == Len(v.value)
    <3>1. m \in Nat /\ 1 \in 1 .. m + 2 /\ m + 2 \in 1 .. m + 2 /\ 1 \in 1 .. 1 + m
          /\ ~(m + 2 <= m + 1) /\ (m + 2) - (m + 1) = 1 /\ 1 <= m + 1
      BY <1>1
    <3>2. whole[1] = front[1] /\ whole[m + 2] = q[1]
      BY <2>5, <3>1
    <3>3. front[1] = q[1]
      BY <2>2, <3>1
    <3> QED BY <2>1, <3>2, <3>3
  <2>7. ASSUME NEW i \in 1 .. Len(v.value) PROVE whole[i + 1] = v.value[i]
    <3>1. i + 1 \in 1 .. Len(v.value) + 1 /\ i + 1 > 1 /\ (i + 1) - 1 = i
      BY <1>1
    <3>2. whole[i + 1] = front[i + 1]
      BY <1>1, <2>5, <3>1
    <3>3. front[i + 1] = v.value[i]
      BY <1>1, <2>2, <3>1
    <3> QED BY <3>2, <3>3
  <2> QED BY <1>3, <2>5, <2>6, <2>7 DEF whole
<1> QED BY <1>2, <1>3

LEMMA BareFacts ==
  ASSUME NEW v \in Variables, quote \in Quotes
  PROVE  /\ Bare(v) \in Seq(Characters)
         /\ quote = NoQuote =>
              /\ Len(Bare(v)) = Len(Quoted(v.value)) + 1
              /\ Bare(v)[1] = v.name
              /\ \A i \in 1 .. Len(Quoted(v.value)) : Bare(v)[i + 1] = Quoted(v.value)[i]
         /\ quote # NoQuote =>
              /\ Len(Bare(v)) = Len(Quoted(v.value)) + 3
              /\ Bare(v)[1] = Word /\ Bare(v)[2] = Blank /\ Bare(v)[3] = v.name
              /\ \A i \in 1 .. Len(Quoted(v.value)) : Bare(v)[i + 3] = Quoted(v.value)[i]
<1> DEFINE head == Prefix \o <<v.name>>
           text == Quoted(v.value)
           n == IF quote = NoQuote THEN 1 ELSE 3
<1>1. text \in Seq(Characters) /\ Len(text) \in Nat
  BY QuotedFacts, LenProperties
<1>2. v.name \in Characters /\ Word \in Characters /\ Blank \in Characters
  BY ValueFacts, InCharacters
<1>3. /\ head \in Seq(Characters) /\ Len(head) = n
      /\ quote = NoQuote => head[1] = v.name
      /\ quote # NoQuote => head[1] = Word /\ head[2] = Blank /\ head[3] = v.name
  <2>1. CASE quote = NoQuote
    <3> DEFINE name == <<v.name>>
    <3>1. name \in Seq(Characters) /\ Len(name) = 1 /\ name[1] = v.name
      BY <1>2
    <3>2. head = <<>> \o name
      BY <2>1 DEF Prefix
    <3> HIDE DEF name, head
    <3>3. head = name
      BY <3>1, <3>2, ConcatEmptySeq
    <3> QED BY <2>1, <3>1, <3>3
  <2>2. CASE quote # NoQuote
    <3> DEFINE command == <<Word, Blank>>
               name == <<v.name>>
    <3>1. /\ command \in Seq(Characters) /\ Len(command) = 2
          /\ command[1] = Word /\ command[2] = Blank
      BY <1>2
    <3>2. name \in Seq(Characters) /\ Len(name) = 1 /\ name[1] = v.name
      BY <1>2
    <3>3. head = command \o name
      BY <2>2 DEF Prefix
    <3> HIDE DEF command, name, head
    <3>4. /\ command \o name \in Seq(Characters)
          /\ Len(command \o name) = Len(command) + Len(name)
          /\ \A i \in 1 .. Len(command) + Len(name) :
               (command \o name)[i] = IF i <= Len(command) THEN command[i] ELSE name[i - Len(command)]
      BY <3>1, <3>2, ConcatProperties
    <3>5. head \in Seq(Characters) /\ Len(head) = 3
      BY <3>1, <3>2, <3>3, <3>4
    <3>6. head[1] = command[1] /\ head[2] = command[2] /\ head[3] = name[1]
      BY <3>1, <3>2, <3>3, <3>4
    <3> QED BY <2>2, <3>1, <3>2, <3>5, <3>6
  <2> QED BY <2>1, <2>2
<1>4. Bare(v) = head \o text
  BY DEF Bare
<1> HIDE DEF head, text
<1>6. n \in {1, 3}
  OBVIOUS
<1>5. /\ Bare(v) \in Seq(Characters) /\ Len(Bare(v)) = n + Len(text)
      /\ \A i \in 1 .. n + Len(text) : Bare(v)[i] = IF i <= n THEN head[i] ELSE text[i - n]
  <2> HIDE DEF n
  <2> QED BY <1>1, <1>3, <1>4, <1>6, ConcatProperties
<1>7. ASSUME NEW i \in 1 .. Len(text) PROVE Bare(v)[i + n] = text[i]
  <2>1. i + n \in 1 .. n + Len(text) /\ ~(i + n <= n) /\ (i + n) - n = i
    BY <1>1, <1>6
  <2> HIDE DEF n
  <2> QED BY <1>5, <2>1
<1>8. \A i \in 1 .. n : Bare(v)[i] = head[i]
  <2> HIDE DEF n
  <2> QED BY <1>1, <1>5, <1>6
<1> QED BY <1>1, <1>3, <1>5, <1>7, <1>8 DEF text

\* Where the name is, and what is behind it.
LEMMA BareKey ==
  ASSUME NEW v \in Variables, quote \in Quotes
  PROVE  Key(Bare(v)) = v.name /\ Value(Bare(v)) = Cleaned(Quoted(v.value))
<1> DEFINE line == Bare(v)
           text == Quoted(v.value)
           n == IF quote = NoQuote THEN 1 ELSE 3
<1>1. text \in Seq(Characters) /\ Len(text) \in Nat
  BY QuotedFacts, LenProperties
<1>2. /\ line \in Seq(Characters) /\ Len(line) = Len(text) + n /\ line[n] = v.name
      /\ \A i \in 1 .. Len(text) : line[i + n] = text[i]
      /\ n = 3 => line[1] = Word /\ line[2] = Blank
  <2>1. CASE quote = NoQuote
    <3>1. n = 1 /\ n # 3
      BY <2>1
    <3>2. QED
      BY <2>1, <3>1, BareFacts
  <2>2. CASE quote # NoQuote
    <3>1. n = 3
      BY <2>2
    <3>2. QED
      BY <2>2, <3>1, BareFacts
  <2>3. QED
    BY <2>1, <2>2
<1>3. n \in {1, 3} /\ DOMAIN line = 1 .. Len(line)
  BY <1>2, LenProperties
<1>4. v.name \in Names
  BY ValueFacts
<1> HIDE DEF line, text, n
<1>5. Word \notin Names \cup {Escape, Double, Single} /\ Blank \notin Names \cup {Escape, Double, Single}
  BY NamesAssumption DEF Word, Blank, Escape, Double, Single
<1>6. n \in DOMAIN line
  BY <1>1, <1>2, <1>3
<1>7. n \in KeyAt(line)
  <2>1. n = 1 \/ line[n - 1] = Blank
    BY <1>2, <1>3
  <2>2. \A j \in 1 .. n - 1 : line[j] \notin Names \cup {Escape, Double, Single}
    BY <1>2, <1>3, <1>5
  <2> QED BY <1>2, <1>4, <1>6, <2>1, <2>2 DEF KeyAt
<1>8. ASSUME NEW i \in KeyAt(line) PROVE i = n
  <2>1. /\ i \in 1 .. Len(line) /\ line[i] \in Names
        /\ \A j \in 1 .. i - 1 : line[j] \notin Names
    BY <1>3 DEF KeyAt
  <2>2. ~(n < i)
    BY <1>2, <1>3, <1>4, <2>1
  <2>3. ~(i < n)
    BY <1>2, <1>3, <1>5, <2>1
  <2> QED BY <1>3, <2>1, <2>2, <2>3
<1>9. KeyAt(line) = {n}
  BY <1>7, <1>8
<1>10. Min(KeyAt(line)) = n
  <2>1. {n} \in SUBSET Nat /\ {n} # {}
    BY <1>3
  <2>2. Min({n}) \in {n}
    BY <2>1, MinOfNats
  <2> QED BY <1>9, <2>2
<1>11. Key(line) = v.name
  BY <1>2, <1>9, <1>10 DEF Key
<1>12. SubSeq(line, n + 1, Len(line)) = text
  <2> DEFINE rest == SubSeq(line, n + 1, Len(line))
  <2>1. \A i \in n + 1 .. Len(line) : line[i] \in Characters
    BY <1>1, <1>2, <1>3, ElementOfSeq
  <2>2. n + 1 \in Int /\ Len(line) \in Int
    BY <1>1, <1>2, <1>3
  <2>3. /\ rest \in Seq(Characters)
        /\ Len(rest) = IF n + 1 <= Len(line) THEN Len(line) - (n + 1) + 1 ELSE 0
        /\ \A i \in 1 .. Len(line) - (n + 1) + 1 : rest[i] = line[n + 1 + i - 1]
    BY <2>1, <2>2, SubSeqProperties
  <2> HIDE DEF rest
  <2>4. Len(rest) = Len(text)
    BY <1>1, <1>2, <1>3, <2>3
  <2>5. ASSUME NEW i \in 1 .. Len(text) PROVE rest[i] = text[i]
    <3>1. i \in 1 .. Len(line) - (n + 1) + 1 /\ n + 1 + i - 1 = i + n
      BY <1>1, <1>2, <1>3
    <3> QED BY <1>2, <2>3, <3>1
  <2>6. rest = text
    BY <1>1, <2>3, <2>4, <2>5, SeqEqual
  <2> QED BY <2>6 DEF rest
<1>13. Value(line) = Cleaned(text)
  BY <1>10, <1>12 DEF Value
<1> QED BY <1>11, <1>13 DEF line, text

\* Reading a value takes away what printing it has added.
LEMMA CleanedQuoted ==
  ASSUME NEW v \in Variables, quote \in Quotes, Verbatim(v)
  PROVE  Cleaned(Quoted(v.value)) = Trimmed(v.value)
<1> DEFINE text == v.value
           q == Quoted(text)
<1>1. /\ text \in Seq(Characters) /\ Len(text) \in Nat /\ DOMAIN text = 1 .. Len(text)
      /\ \A i \in 1 .. Len(text) : text[i] \notin {Double, Single}
  BY ValueFacts
<1>2. /\ q \in Seq(Characters)
      /\ quote = NoQuote => q = text
      /\ quote # NoQuote =>
           /\ Len(q) = Len(text) + 2
           /\ q[1] = quote
           /\ q[Len(text) + 2] = quote
           /\ \A i \in 1 .. Len(text) : q[i + 1] = text[i]
  BY QuotedFacts
<1>3. Len(q) \in Nat /\ DOMAIN q = 1 .. Len(q)
  BY <1>2, LenProperties
<1>4. quote = Double => \A i \in 1 .. Len(text) : text[i] # Escape
  BY <1>1 DEF Verbatim, ToSet
<1> HIDE DEF q, text
<1>5. text # <<>> => Len(text) > 0
  BY <1>1, EmptySeq, SeqEqual
<1>6. Expanded(q) = q
  <2>1. CASE quote = Double
    <3>1. \A i \in 1 .. Len(q) : q[i] # Escape
      <4> TAKE i \in 1 .. Len(q)
      <4>1. CASE i = 1 \/ i = Len(text) + 2
        BY <1>2, <2>1, <4>1 DEF Double, NoQuote, Escape
      <4>2. CASE i # 1 /\ i # Len(text) + 2
        <5>1. i - 1 \in 1 .. Len(text) /\ (i - 1) + 1 = i
          BY <1>1, <1>2, <1>3, <2>1, <4>2 DEF Double, NoQuote
        <5>2. q[(i - 1) + 1] = text[i - 1]
          BY <1>2, <2>1, <5>1 DEF Double, NoQuote
        <5> QED BY <1>4, <2>1, <5>1, <5>2
      <4> QED BY <4>1, <4>2
    <3>2. [i \in DOMAIN q |-> IF q[i] = Escape THEN Newline ELSE q[i]] = q
      <4>1. q = [i \in DOMAIN q |-> q[i]]
        BY <1>2
      <4> QED BY <1>3, <3>1, <4>1
    <3> QED BY <3>2 DEF Expanded
  <2>2. CASE quote = Single
    BY <1>2, <2>2 DEF Expanded, Double, Single, NoQuote
  <2>3. CASE quote = NoQuote
    <3>1. q # <<>> => q[1] # Double
      BY <1>1, <1>2, <1>5, <2>3
    <3> QED BY <3>1 DEF Expanded
  <2> QED BY <2>1, <2>2, <2>3 DEF Quotes
<1>7. CASE quote = NoQuote
  <2>1. q = text
    BY <1>2, <1>7
  <2>2. ~Leading(text) /\ ~Trailing(text)
    BY <1>1, <1>5 DEF Leading, Trailing
  <2>3. Unquoted(text) = text
    BY <1>1, <2>2, SubSeqFull DEF Unquoted
  <2>4. Cleaned(q) = Trimmed(text)
    BY <1>6, <2>1, <2>3 DEF Cleaned
  <2> QED BY <2>4 DEF q, text
<1>8. CASE quote # NoQuote
  <2>1. quote \in {Double, Single}
    BY <1>8 DEF Quotes
  <2>2. Leading(q) /\ Trailing(q)
    <3>1. q # <<>>
      BY <1>1, <1>2, <1>8
    <3> QED BY <1>2, <1>8, <2>1, <3>1 DEF Leading, Trailing
  <2> DEFINE inner == SubSeq(q, 2, Len(q) - 1)
  <2>3. Unquoted(q) = inner
    BY <2>2 DEF Unquoted
  <2>4. ASSUME NEW i \in 2 .. Len(q) - 1 PROVE q[i] \in Characters
    <3>1. i \in 1 .. Len(q)
      BY <1>3
    <3> QED BY <1>2, <3>1, ElementOfSeq
  <2>5. /\ inner \in Seq(Characters)
        /\ Len(inner) = IF 2 <= Len(q) - 1 THEN (Len(q) - 1) - 2 + 1 ELSE 0
        /\ \A i \in 1 .. (Len(q) - 1) - 2 + 1 : inner[i] = q[2 + i - 1]
    <3>1. 2 \in Int /\ Len(q) - 1 \in Int
      BY <1>3
    <3> QED BY <2>4, <3>1, SubSeqProperties
  <2> HIDE DEF inner
  <2>6. Len(inner) = Len(text)
    BY <1>1, <1>2, <1>8, <2>5
  <2>7. ASSUME NEW i \in 1 .. Len(text) PROVE inner[i] = text[i]
    <3>1. i \in 1 .. (Len(q) - 1) - 2 + 1 /\ 2 + i - 1 = i + 1
      BY <1>1, <1>2, <1>8
    <3> QED BY <1>2, <1>8, <2>5, <3>1
  <2>8. inner = text
    BY <1>1, <2>5, <2>6, <2>7, SeqEqual
  <2>9. Cleaned(q) = Trimmed(text)
    BY <1>6, <2>3, <2>8 DEF Cleaned
  <2> QED BY <2>9 DEF q, text
<1> QED BY <1>7, <1>8

LEMMA PrintedIsLine ==
  ASSUME NEW v \in Variables, quote \in Quotes, OneLine(v)
  PROVE  /\ IsLine(Printed(v))
         /\ Printed(v) = Bare(v) \o <<Newline>>
<1> DEFINE line == Bare(v)
           nl == <<Newline>>
<1>1. line \in Seq(Characters) /\ Len(line) \in Nat
  BY BareFacts, LenProperties
<1>2. nl \in Seq(Characters) /\ Len(nl) = 1 /\ nl[1] = Newline
  BY InCharacters
<1>3. Printed(v) = line \o nl
  <2>1. Joined(Joined(Joined(Prefix, <<v.name>>), Quoted(v.value)), nl) = Printed(v)
    BY DEF Printed, Joined
  <2> QED BY <2>1 DEF Bare, Joined
<1>4. \A i \in 1 .. Len(line) : line[i] # Newline
  <2> TAKE i \in 1 .. Len(line)
  <2> DEFINE text == Quoted(v.value)
  <2>1. /\ v.name # Newline /\ Len(v.value) \in Nat
        /\ \A j \in 1 .. Len(v.value) : v.value[j] # Newline
    BY ValueFacts
  <2>2. \A j \in 1 .. Len(text) : text[j] # Newline
    <3>1. CASE quote = NoQuote
      BY <2>1, <3>1, QuotedFacts
    <3>2. CASE quote # NoQuote
      <4> TAKE j \in 1 .. Len(text)
      <4>1. /\ Len(text) = Len(v.value) + 2 /\ text[1] = quote /\ text[Len(v.value) + 2] = quote
            /\ \A k \in 1 .. Len(v.value) : text[k + 1] = v.value[k]
        BY <3>2, QuotedFacts
      <4> HIDE DEF text
      <4>2. CASE j = 1 \/ j = Len(v.value) + 2
        BY <3>2, <4>1, <4>2 DEF Quotes, Double, Single, Newline
      <4>3. CASE j # 1 /\ j # Len(v.value) + 2
        <5>1. j - 1 \in 1 .. Len(v.value) /\ (j - 1) + 1 = j
          BY <2>1, <4>1, <4>3
        <5>2. text[(j - 1) + 1] = v.value[j - 1]
          BY <4>1, <5>1
        <5> QED BY <2>1, <5>1, <5>2
      <4> QED BY <4>2, <4>3
    <3> QED BY <3>1, <3>2
  <2>3. Len(text) \in Nat
    BY QuotedFacts, LenProperties
  <2>4. CASE quote = NoQuote
    <3>1. /\ Len(line) = Len(text) + 1 /\ line[1] = v.name
          /\ \A j \in 1 .. Len(text) : line[j + 1] = text[j]
      BY <2>4, BareFacts
    <3> HIDE DEF line, text
    <3>2. CASE i = 1
      BY <2>1, <3>1, <3>2
    <3>3. CASE i # 1
      <4>1. i - 1 \in 1 .. Len(text) /\ (i - 1) + 1 = i
        BY <2>3, <3>1, <3>3
      <4>2. line[(i - 1) + 1] = text[i - 1]
        BY <3>1, <4>1
      <4> QED BY <2>2, <4>1, <4>2
    <3> QED BY <3>2, <3>3
  <2>5. CASE quote # NoQuote
    <3>1. /\ Len(line) = Len(text) + 3 /\ line[1] = Word /\ line[2] = Blank /\ line[3] = v.name
          /\ \A j \in 1 .. Len(text) : line[j + 3] = text[j]
      BY <2>5, BareFacts
    <3> HIDE DEF line, text
    <3>2. CASE i \in {1, 2, 3}
      BY <2>1, <3>1, <3>2 DEF Word, Blank, Newline
    <3>3. CASE i \notin {1, 2, 3}
      <4>1. i - 3 \in 1 .. Len(text) /\ (i - 3) + 3 = i
        BY <2>3, <3>1, <3>3
      <4>2. line[(i - 3) + 3] = text[i - 3]
        BY <3>1, <4>1
      <4> QED BY <2>2, <4>1, <4>2
    <3> QED BY <3>2, <3>3
  <2> QED BY <2>4, <2>5
<1> HIDE DEF line, nl
<1> DEFINE whole == line \o nl
<1>5. /\ whole \in Seq(Characters) /\ Len(whole) = Len(line) + Len(nl)
      /\ \A i \in 1 .. Len(line) + Len(nl) :
           whole[i] = IF i <= Len(line) THEN line[i] ELSE nl[i - Len(line)]
  BY <1>1, <1>2, ConcatProperties
<1> HIDE DEF whole
<1>6. whole # <<>> /\ whole[Len(whole)] = Newline
  BY <1>1, <1>2, <1>5
<1>7. \A i \in 1 .. Len(whole) - 1 : whole[i] # Newline
  BY <1>1, <1>2, <1>4, <1>5
<1>8. IsLine(whole)
  BY <1>5, <1>6, <1>7 DEF IsLine
<1> QED BY <1>3, <1>8 DEF whole, line, nl

-----------------------------------------------------------------------------
(* The whole output.                                                       *)

\* The lengths of a last line, taken from the line and from the whole.
LEMMA LastLineLength ==
  ASSUME NEW t \in Nat, NEW n \in Nat, n > 0
  PROVE  /\ (IF 1 <= n - 1 THEN (n - 1) - 1 + 1 ELSE 0) = n - 1
         /\ (IF t + 1 <= (t + n) - 1 THEN ((t + n) - 1) - (t + 1) + 1 ELSE 0) = n - 1
OBVIOUS

\* A line that is printed behind others leaves them as they are.
LEMMA LinePrinted ==
  ASSUME NEW text \in Seq(Characters), text # <<>> => text[Len(text)] = Newline,
         NEW line \in Seq(Characters), IsLine(line)
  PROVE  LET whole == text \o line IN
         /\ whole \in Seq(Characters) /\ Len(whole) = Len(text) + Len(line)
         /\ Len(whole) > Len(text)
         /\ whole # <<>> /\ whole[Len(whole)] = Newline
         /\ Breaks(whole) = Breaks(text) \cup {Len(whole)}
         /\ \A b \in Breaks(text) : Line(whole, b) = Line(text, b)
         /\ Line(whole, Len(whole)) = SubSeq(line, 1, Len(line) - 1)
<1> DEFINE whole == text \o line
<1>1. /\ Len(text) \in Nat /\ Len(line) \in Nat /\ Len(line) > 0
      /\ line[Len(line)] = Newline /\ \A i \in 1 .. Len(line) - 1 : line[i] # Newline
  <2>1. Len(text) \in Nat /\ Len(line) \in Nat
    BY LenProperties
  <2>2. line # <<>>
    BY DEF IsLine
  <2>3. Len(line) # 0
    BY <2>2, EmptySeq, SeqEqual
  <2> QED BY <2>1, <2>3 DEF IsLine
<1>2. /\ whole \in Seq(Characters) /\ Len(whole) = Len(text) + Len(line)
      /\ \A i \in 1 .. Len(text) + Len(line) :
           whole[i] = IF i <= Len(text) THEN text[i] ELSE line[i - Len(text)]
  BY ConcatProperties
<1> HIDE DEF whole
<1>3. whole # <<>> /\ whole[Len(whole)] = Newline /\ Len(whole) > Len(text)
  BY <1>1, <1>2
<1>4. \A i \in 1 .. Len(text) : whole[i] = text[i]
  BY <1>1, <1>2
<1>5. ASSUME NEW i \in 1 .. Len(line) PROVE whole[Len(text) + i] = line[i]
  <2>1. /\ Len(text) + i \in 1 .. Len(text) + Len(line) /\ ~(Len(text) + i <= Len(text))
        /\ (Len(text) + i) - Len(text) = i
    BY <1>1
  <2> QED BY <1>2, <2>1
<1>6. ASSUME NEW b \in Len(text) + 1 .. Len(whole) - 1 PROVE whole[b] # Newline
  <2>1. b - Len(text) \in 1 .. Len(line) - 1 /\ Len(text) + (b - Len(text)) = b
    BY <1>1, <1>2
  <2>2. whole[Len(text) + (b - Len(text))] = line[b - Len(text)]
    BY <1>1, <1>5, <2>1
  <2> QED BY <1>1, <2>1, <2>2
<1>7. Breaks(whole) = Breaks(text) \cup {Len(whole)}
  <2>1. ASSUME NEW b \in Breaks(whole) PROVE b \in Breaks(text) \cup {Len(whole)}
    <3>1. b \in 1 .. Len(whole) /\ whole[b] = Newline
      BY DEF Breaks
    <3>2. CASE b <= Len(text)
      <4>1. b \in 1 .. Len(text)
        BY <1>1, <3>1, <3>2
      <4>2. text[b] = Newline
        BY <1>4, <3>1, <4>1
      <4> QED BY <4>1, <4>2 DEF Breaks
    <3>3. CASE ~(b <= Len(text))
      <4>1. b \notin Len(text) + 1 .. Len(whole) - 1
        BY <1>6, <3>1
      <4>2. b = Len(whole)
        BY <1>1, <1>2, <3>1, <3>3, <4>1
      <4> QED BY <4>2
    <3> QED BY <3>2, <3>3
  <2>2. ASSUME NEW b \in Breaks(text) PROVE b \in Breaks(whole)
    BY <1>1, <1>2, <1>4 DEF Breaks
  <2>3. Len(whole) \in Breaks(whole)
    BY <1>1, <1>2, <1>3 DEF Breaks
  <2> QED BY <2>1, <2>2, <2>3
<1>8. ASSUME NEW b \in Breaks(text) PROVE Line(whole, b) = Line(text, b)
  <2> DEFINE starts == {0} \cup {c \in Breaks(text) : c < b}
             from == Max(starts)
  <2>1. b \in 1 .. Len(text)
    BY DEF Breaks
  <2>2. {0} \cup {c \in Breaks(whole) : c < b} = starts
    BY <1>1, <1>2, <1>7, <2>1 DEF Breaks
  <2>3. starts \in SUBSET Nat /\ starts # {} /\ \A c \in starts : c <= b
    BY <2>1 DEF Breaks
  <2>4. from \in Nat
    <3>1. b \in Nat
      BY <1>1, <2>1
    <3> HIDE DEF starts
    <3>2. from \in starts
      BY <2>3, <3>1, MaxOfNats
    <3> QED BY <2>3, <3>2
  <2>5. Line(whole, b) = SubSeq(whole, from + 1, b - 1) /\ Line(text, b) = SubSeq(text, from + 1, b - 1)
    BY <2>2 DEF Line
  <2> HIDE DEF from, starts
  <2>6. \A i \in from + 1 .. b - 1 : text[i] \in Characters /\ whole[i] = text[i]
    <3> TAKE i \in from + 1 .. b - 1
    <3>1. i \in 1 .. Len(text)
      BY <1>1, <2>1, <2>4
    <3> QED BY <1>4, <3>1, ElementOfSeq
  <2> DEFINE one == SubSeq(whole, from + 1, b - 1)
             two == SubSeq(text, from + 1, b - 1)
  <2>7. from + 1 \in Int /\ b - 1 \in Int
    BY <1>1, <2>1, <2>4
  <2>8. /\ one \in Seq(Characters) /\ Len(one) = IF from + 1 <= b - 1 THEN (b - 1) - (from + 1) + 1 ELSE 0
        /\ \A i \in 1 .. (b - 1) - (from + 1) + 1 : one[i] = whole[from + 1 + i - 1]
    <3>1. \A i \in from + 1 .. b - 1 : whole[i] \in Characters
      BY <2>6
    <3> QED BY <2>7, <3>1, SubSeqProperties
  <2>9. /\ two \in Seq(Characters) /\ Len(two) = IF from + 1 <= b - 1 THEN (b - 1) - (from + 1) + 1 ELSE 0
        /\ \A i \in 1 .. (b - 1) - (from + 1) + 1 : two[i] = text[from + 1 + i - 1]
    BY <2>6, <2>7, SubSeqProperties
  <2> HIDE DEF one, two
  <2>10. Len(one) = Len(two) /\ Len(one) \in Nat
    BY <2>8, <2>9, LenProperties
  <2>11. ASSUME NEW i \in 1 .. Len(one) PROVE one[i] = two[i]
    <3>1. i \in 1 .. (b - 1) - (from + 1) + 1 /\ from + 1 + i - 1 \in from + 1 .. b - 1
      <4> DEFINE high == b - 1  low == from + 1
      <4>1. high \in Int /\ low \in Int
        BY <2>7
      <4>2. Len(one) = IF low <= high THEN high - low + 1 ELSE 0
        BY <2>8
      <4> HIDE DEF high, low
      <4>3. i \in 1 .. high - low + 1 /\ low + i - 1 \in low .. high
        BY <4>1, <4>2
      <4> QED BY <4>3 DEF high, low
    <3> QED BY <2>6, <2>8, <2>9, <3>1
  <2>12. one = two
    BY <2>8, <2>9, <2>10, <2>11, SeqEqual
  <2> QED BY <2>5, <2>12 DEF one, two
<1>9. Line(whole, Len(whole)) = SubSeq(line, 1, Len(line) - 1)
  <2> DEFINE starts == {0} \cup {c \in Breaks(whole) : c < Len(whole)}
  <2>1. starts = {0} \cup Breaks(text)
    BY <1>1, <1>2, <1>7 DEF Breaks
  <2>2. Max(starts) = Len(text)
    <3>0. \A c \in Breaks(text) : c \in Nat /\ c <= Len(text)
      BY <1>1 DEF Breaks
    <3>1. starts \in SUBSET Nat /\ starts # {} /\ \A c \in starts : c <= Len(text)
      <4> HIDE DEF starts
      <4> QED BY <1>1, <2>1, <3>0
    <3>2. Len(text) \in starts
      <4>1. CASE text = <<>>
        BY <1>1, <2>1, <4>1
      <4>2. CASE text # <<>>
        <5>1. Len(text) # 0
          BY <4>2, EmptySeq, SeqEqual
        <5>2. Len(text) \in Breaks(text)
          BY <1>1, <4>2, <5>1 DEF Breaks
        <5> QED BY <2>1, <5>2
      <4> QED BY <4>1, <4>2
    <3> HIDE DEF starts
    <3>3. Max(starts) \in starts /\ \A c \in starts : c <= Max(starts)
      BY <1>1, <3>1, MaxOfNats
    <3>4. Max(starts) \in Nat /\ Max(starts) <= Len(text) /\ Len(text) <= Max(starts)
      BY <3>1, <3>2, <3>3
    <3> QED BY <1>1, <3>4
  <2> DEFINE one == SubSeq(whole, Len(text) + 1, Len(whole) - 1)
             two == SubSeq(line, 1, Len(line) - 1)
  <2>3. Line(whole, Len(whole)) = one
    BY <2>2 DEF Line
  <2>4. Len(text) + 1 \in Int /\ Len(whole) - 1 \in Int /\ 1 \in Int /\ Len(line) - 1 \in Int
    BY <1>1, <1>2
  <2>5. /\ one \in Seq(Characters)
        /\ Len(one) = IF Len(text) + 1 <= Len(whole) - 1 THEN (Len(whole) - 1) - (Len(text) + 1) + 1 ELSE 0
        /\ \A i \in 1 .. (Len(whole) - 1) - (Len(text) + 1) + 1 : one[i] = whole[Len(text) + 1 + i - 1]
    <3>1. ASSUME NEW i \in Len(text) + 1 .. Len(whole) - 1 PROVE whole[i] \in Characters
      <4>1. i \in 1 .. Len(whole)
        BY <1>1, <1>2
      <4> QED BY <1>2, <4>1, ElementOfSeq
    <3> QED BY <2>4, <3>1, SubSeqProperties
  <2>6. /\ two \in Seq(Characters)
        /\ Len(two) = IF 1 <= Len(line) - 1 THEN (Len(line) - 1) - 1 + 1 ELSE 0
        /\ \A i \in 1 .. (Len(line) - 1) - 1 + 1 : two[i] = line[1 + i - 1]
    <3>1. ASSUME NEW i \in 1 .. Len(line) - 1 PROVE line[i] \in Characters
      <4>1. i \in 1 .. Len(line)
        BY <1>1
      <4> QED BY <4>1, ElementOfSeq
    <3> QED BY <2>4, <3>1, SubSeqProperties
  <2> HIDE DEF one, two
  <2>7. Len(one) = Len(two) /\ Len(two) = Len(line) - 1
    <3> DEFINE t == Len(text)
               n == Len(line)
    <3>1. t \in Nat /\ n \in Nat /\ n > 0 /\ Len(whole) = t + n
      BY <1>1, <1>2
    <3>2. Len(one) = IF t + 1 <= Len(whole) - 1 THEN (Len(whole) - 1) - (t + 1) + 1 ELSE 0
      BY <2>5
    <3>3. Len(two) = IF 1 <= n - 1 THEN (n - 1) - 1 + 1 ELSE 0
      BY <2>6
    <3>4. Len(one) = n - 1 /\ Len(two) = n - 1
      <4> HIDE DEF t, n
      <4> QED BY <3>1, <3>2, <3>3, LastLineLength
    <3> QED BY <3>4
  <2>8. ASSUME NEW i \in 1 .. Len(one) PROVE one[i] = two[i]
    <3>1. /\ i \in 1 .. (Len(whole) - 1) - (Len(text) + 1) + 1 /\ i \in 1 .. (Len(line) - 1) - 1 + 1
          /\ Len(text) + 1 + i - 1 = Len(text) + i /\ 1 + i - 1 = i /\ i \in 1 .. Len(line)
      BY <1>1, <1>2, <2>7
    <3> QED BY <1>5, <2>5, <2>6, <3>1
  <2>9. one = two
    BY <2>5, <2>6, <2>7, <2>8, SeqEqual
  <2> QED BY <2>3, <2>9 DEF two
<1> QED BY <1>2, <1>3, <1>7, <1>8, <1>9 DEF whole

\* Each line of a text is that of a variable.
LinesOf(text, k) ==
  /\ text \in Seq(Characters)
  /\ text # <<>> => text[Len(text)] = Newline
  /\ \E end \in [1 .. k -> Breaks(text)] :
       /\ \A b \in Breaks(text) : \E j \in 1 .. k : b = end[j]
       /\ \A j \in 1 .. k : Line(text, end[j]) = Bare(shell[j])

IsPrinting(g, k) ==
  g = [i \in 0 .. k |-> IF i = 0 THEN <<>> ELSE g[i - 1] \o Printed(shell[i])]

ReadableShell ==
  /\ Len(shell) \in Nat
  /\ DOMAIN shell = 1 .. Len(shell)
  /\ \A i \in 1 .. Len(shell) : shell[i] \in Variables
  /\ \A i, j \in 1 .. Len(shell) : shell[i].name = shell[j].name => i = j
  /\ quote \in Quotes

LEMMA NothingPrinted == LinesOf(<<>>, 0)
<1>1. <<>> \in Seq(Characters) /\ Len(<<>>) = 0
  BY EmptySeq
<1>2. Breaks(<<>>) = {}
  BY <1>1 DEF Breaks
<1>3. [j \in 1 .. 0 |-> 0] \in [1 .. 0 -> Breaks(<<>>)]
  OBVIOUS
<1> QED BY <1>1, <1>2, <1>3 DEF LinesOf

LEMMA NextPrinted ==
  ASSUME NEW text, NEW k \in Nat, LinesOf(text, k), quote \in Quotes,
         shell[k + 1] \in Variables, OneLine(shell[k + 1])
  PROVE  LinesOf(text \o Printed(shell[k + 1]), k + 1)
<1> DEFINE v == shell[k + 1]
           line == Printed(v)
           whole == text \o line
<1>1. IsLine(line) /\ line = Bare(v) \o <<Newline>>
  BY PrintedIsLine
<1>2. line \in Seq(Characters) /\ text \in Seq(Characters)
  BY <1>1 DEF IsLine, LinesOf
<1>3. PICK end \in [1 .. k -> Breaks(text)] :
        /\ \A b \in Breaks(text) : \E j \in 1 .. k : b = end[j]
        /\ \A j \in 1 .. k : Line(text, end[j]) = Bare(shell[j])
  BY DEF LinesOf
<1>4. SubSeq(line, 1, Len(line) - 1) = Bare(v)
  <2> DEFINE bare == Bare(v)
             nl == <<Newline>>
  <2>1. bare \in Seq(Characters) /\ Len(bare) \in Nat
    BY BareFacts, LenProperties
  <2>2. nl \in Seq(Characters) /\ Len(nl) = 1
    BY InCharacters
  <2> HIDE DEF bare, nl
  <2>3. Len(bare \o nl) = Len(bare) + 1
    <3>1. Len(bare \o nl) = Len(bare) + Len(nl)
      BY <2>1, <2>2, ConcatProperties
    <3> QED BY <2>2, <3>1
  <2>4. SubSeq(bare \o nl, 1, Len(bare)) = SubSeq(bare, 1, Len(bare))
    <3>1. 1 \in 1 .. Len(bare) + 1 /\ Len(bare) \in 1 - 1 .. Len(bare)
      BY <2>1
    <3> QED BY <2>1, <2>2, <3>1, SubSeqOfConcat1
  <2>5. SubSeq(bare, 1, Len(bare)) = bare
    BY <2>1, SubSeqFull
  <2>6. (Len(bare) + 1) - 1 = Len(bare)
    BY <2>1
  <2>7. line = bare \o nl
    BY <1>1 DEF bare, nl
  <2> QED BY <2>3, <2>4, <2>5, <2>6, <2>7 DEF bare
<1> HIDE DEF line
<1>5. /\ whole \in Seq(Characters)
      /\ whole # <<>> /\ whole[Len(whole)] = Newline
      /\ Breaks(whole) = Breaks(text) \cup {Len(whole)}
      /\ \A b \in Breaks(text) : Line(whole, b) = Line(text, b)
      /\ Line(whole, Len(whole)) = Bare(v)
  BY <1>1, <1>2, <1>4, LinePrinted DEF LinesOf
<1> HIDE DEF whole, v
<1> DEFINE more == [j \in 1 .. k + 1 |-> IF j = k + 1 THEN Len(whole) ELSE end[j]]
<1>6. \A j \in 1 .. k + 1 : j = k + 1 \/ j \in 1 .. k
  OBVIOUS
<1>7. \A j \in 1 .. k : j \in 1 .. k + 1 /\ j # k + 1
  OBVIOUS
<1>8. \A j \in 1 .. k : more[j] = end[j] /\ end[j] \in Breaks(text)
  BY <1>3, <1>7
<1>9. k + 1 \in 1 .. k + 1 /\ more[k + 1] = Len(whole)
  OBVIOUS
<1>10. more \in [1 .. k + 1 -> Breaks(whole)]
  BY <1>5, <1>6, <1>8, <1>9
<1> HIDE DEF more
<1>11. ASSUME NEW b \in Breaks(whole) PROVE \E j \in 1 .. k + 1 : b = more[j]
  <2>1. CASE b = Len(whole)
    BY <1>9, <2>1
  <2>2. CASE b \in Breaks(text)
    BY <1>3, <1>7, <1>8, <2>2
  <2> QED BY <1>5, <2>1, <2>2
<1>12. ASSUME NEW j \in 1 .. k + 1 PROVE Line(whole, more[j]) = Bare(shell[j])
  <2>1. CASE j = k + 1
    BY <1>5, <1>9, <2>1 DEF v
  <2>2. CASE j \in 1 .. k
    BY <1>3, <1>5, <1>8, <2>2
  <2> QED BY <1>6, <2>1, <2>2
<1>13. LinesOf(whole, k + 1)
  BY <1>5, <1>10, <1>11, <1>12 DEF LinesOf
<1> QED BY <1>13 DEF whole, line, v

LEMMA PrintingExists == ASSUME NEW n \in Nat PROVE \E g : IsPrinting(g, n)
<1> DEFINE S == {i \in 0 .. n : \E g : IsPrinting(g, i)}
<1>1. 0 \in S
  <2>1. IsPrinting([i \in 0 .. 0 |-> <<>>], 0)
    BY DEF IsPrinting
  <2> QED BY <2>1
<1>2. ASSUME NEW m \in 0 .. n - 1, m \in S PROVE m + 1 \in S
  <2>1. PICK g : IsPrinting(g, m)
    BY <1>2
  <2> DEFINE h == [i \in 0 .. m + 1 |-> IF i = m + 1 THEN g[m] \o Printed(shell[i]) ELSE g[i]]
  <2>2. \A i \in 0 .. m : g[i] = IF i = 0 THEN <<>> ELSE g[i - 1] \o Printed(shell[i])
    BY <2>1 DEF IsPrinting
  <2>3. ASSUME NEW i \in 0 .. m + 1
        PROVE  h[i] = IF i = 0 THEN <<>> ELSE h[i - 1] \o Printed(shell[i])
    <3>1. CASE i = m + 1
      <4>1. i # 0 /\ i - 1 = m /\ m \in 0 .. m + 1 /\ m # m + 1
        BY <3>1
      <4>2. h[m] = g[m]
        BY <4>1
      <4>3. h[i] = g[m] \o Printed(shell[i])
        BY <3>1
      <4> HIDE DEF h
      <4> QED BY <4>1, <4>2, <4>3
    <3>2. CASE i # m + 1
      <4>1. i \in 0 .. m /\ h[i] = g[i]
        BY <3>2
      <4>2. i # 0 => h[i - 1] = g[i - 1]
        BY <4>1
      <4> HIDE DEF h
      <4> QED BY <2>2, <4>1, <4>2
    <3> QED BY <3>1, <3>2
  <2>4. h = [i \in 0 .. m + 1 |-> IF i = 0 THEN <<>> ELSE h[i - 1] \o Printed(shell[i])]
    BY <2>3
  <2>5. IsPrinting(h, m + 1)
    <3> HIDE DEF h
    <3> QED BY <2>4 DEF IsPrinting
  <2> HIDE DEF h
  <2> QED BY <2>5
<1>3. \A i \in 0 .. n : i \in S
  <2> HIDE DEF S
  <2> QED BY <1>1, <1>2, Reaching
<1> QED BY <1>3

\* What the shell prints has one line for each of its variables.
LEMMA OutputLines ==
  ASSUME ReadableShell, \A i \in 1 .. Len(shell) : OneLine(shell[i])
  PROVE  LinesOf(Output, Len(shell))
<1> DEFINE n == Len(shell)
           g == CHOOSE f : IsPrinting(f, n)
           S == {i \in 0 .. n : LinesOf(g[i], i)}
<1>1. n \in Nat
  BY DEF ReadableShell
<1>2. Output = g[n]
  BY DEF Output, IsPrinting
<1>3. IsPrinting(g, n)
  <2>1. \E f : IsPrinting(f, n)
    BY <1>1, PrintingExists
  <2> QED BY <2>1, Zenon
<1> HIDE DEF g
<1>4. \A i \in 0 .. n : g[i] = IF i = 0 THEN <<>> ELSE g[i - 1] \o Printed(shell[i])
  BY <1>3 DEF IsPrinting
<1>5. 0 \in S
  BY <1>1, <1>4, NothingPrinted
<1>6. ASSUME NEW m \in 0 .. n - 1, m \in S PROVE m + 1 \in S
  <2>1. m \in Nat /\ m + 1 \in 1 .. n /\ m + 1 \in 0 .. n /\ m + 1 # 0 /\ (m + 1) - 1 = m
    BY <1>1
  <2>2. g[m + 1] = g[m] \o Printed(shell[m + 1])
    BY <1>4, <2>1
  <2>3. shell[m + 1] \in Variables /\ OneLine(shell[m + 1]) /\ quote \in Quotes
    BY <2>1 DEF ReadableShell
  <2>4. LinesOf(g[m + 1], m + 1)
    BY <1>6, <2>1, <2>2, <2>3, NextPrinted
  <2> QED BY <2>1, <2>4
<1>7. \A i \in 0 .. n : i \in S
  <2> HIDE DEF S
  <2> QED BY <1>1, <1>5, <1>6, Reaching
<1>8. n \in S
  BY <1>1, <1>7
<1> QED BY <1>2, <1>8

\* Each variable is read from its line, and nothing else is read.
LEMMA OutputRead ==
  ASSUME ReadableShell, \A i \in 1 .. Len(shell) : OneLine(shell[i])
  PROVE  LET read == ProcessEnvironment(Output) IN
         /\ DOMAIN read = {shell[i].name : i \in 1 .. Len(shell)} \cap Kept
         /\ \A i \in 1 .. Len(shell) :
              shell[i].name \in Kept => read[shell[i].name] = Cleaned(Quoted(shell[i].value))
<1> DEFINE n == Len(shell)
           linesOf(name) == {b \in Breaks(Output) : Key(Line(Output, b)) = name}
           read == ProcessEnvironment(Output)
<1>1. PICK end \in [1 .. n -> Breaks(Output)] :
        /\ \A b \in Breaks(Output) : \E j \in 1 .. n : b = end[j]
        /\ \A j \in 1 .. n : Line(Output, end[j]) = Bare(shell[j])
  BY OutputLines DEF LinesOf
<1>2. \A j \in 1 .. n : /\ Key(Line(Output, end[j])) = shell[j].name
                        /\ Value(Line(Output, end[j])) = Cleaned(Quoted(shell[j].value))
  BY <1>1, BareKey DEF ReadableShell
<1>3. ASSUME NEW i \in 1 .. n PROVE linesOf(shell[i].name) = {end[i]}
  <2>1. end[i] \in linesOf(shell[i].name)
    BY <1>1, <1>2
  <2>2. ASSUME NEW b \in linesOf(shell[i].name) PROVE b = end[i]
    <3>1. PICK j \in 1 .. n : b = end[j]
      BY <1>1
    <3>2. shell[j].name = shell[i].name
      BY <1>2, <3>1
    <3>3. i = j
      BY <3>2 DEF ReadableShell
    <3> QED BY <3>1, <3>3
  <2> HIDE DEF linesOf
  <2> QED BY <2>1, <2>2
<1>4. ASSUME NEW name, linesOf(name) # {} PROVE \E i \in 1 .. n : shell[i].name = name
  BY <1>1, <1>2, <1>4
<1>5. read = [name \in {m \in Kept : linesOf(m) # {}} |-> Value(Line(Output, Max(linesOf(name))))]
  BY DEF ProcessEnvironment
<1> HIDE DEF linesOf, read
<1>6. DOMAIN read = {shell[i].name : i \in 1 .. n} \cap Kept
  <2>1. DOMAIN read = {m \in Kept : linesOf(m) # {}}
    BY <1>5
  <2>2. \A i \in 1 .. n : linesOf(shell[i].name) # {}
    BY <1>3
  <2>3. \A m : linesOf(m) # {} => \E i \in 1 .. n : shell[i].name = m
    BY <1>4
  <2> HIDE DEF n
  <2>4. ASSUME NEW m PROVE linesOf(m) # {} <=> m \in {shell[i].name : i \in 1 .. n}
    BY <2>2, <2>3
  <2> QED BY <2>1, <2>4
<1>7. ASSUME NEW i \in 1 .. n, shell[i].name \in Kept
      PROVE  read[shell[i].name] = Cleaned(Quoted(shell[i].value))
  <2>1. read[shell[i].name] = Value(Line(Output, Max(linesOf(shell[i].name))))
    BY <1>3, <1>5, <1>7
  <2>2. Max({end[i]}) = end[i]
    <3>1. end[i] \in Nat
      BY <1>1 DEF Breaks
    <3>2. {end[i]} \in SUBSET Nat /\ {end[i]} # {} /\ \A k \in {end[i]} : k <= end[i]
      BY <3>1
    <3>3. Max({end[i]}) \in {end[i]}
      BY <3>1, <3>2, MaxOfNats
    <3> QED BY <3>3
  <2> QED BY <1>2, <1>3, <2>1, <2>2
<1> QED BY <1>6, <1>7 DEF read

LEMMA ShellReadable == EnvInit => ReadableShell
<1> SUFFICES ASSUME EnvInit PROVE ReadableShell
  OBVIOUS
<1>1. shell \in Shells /\ quote \in Quotes
  BY DEF EnvInit, Quotes
<1>2. PICK n \in 0 .. MaxVariables : shell \in [1 .. n -> Variables]
  BY <1>1 DEF Shells, Variables
<1>3. n \in Nat
  BY VariablesAssumption
<1>4. shell \in Seq(Variables)
  BY <1>2, <1>3, SeqDef
<1>5. Len(shell) \in Nat /\ DOMAIN shell = 1 .. Len(shell)
  BY <1>4, LenProperties
<1>6. \A i \in 1 .. Len(shell) : shell[i] \in Variables
  BY <1>4, ElementOfSeq
<1>7. \A i, j \in 1 .. Len(shell) : shell[i].name = shell[j].name => i = j
  BY <1>1, <1>5 DEF Shells
<1> QED BY <1>1, <1>5, <1>6, <1>7 DEF ReadableShell

LEMMA ShellKept == ReadableShell /\ [EnvNext]_envVars => ReadableShell'
<1> SUFFICES ASSUME ReadableShell, [EnvNext]_envVars PROVE ReadableShell'
  OBVIOUS
<1>1. UNCHANGED <<shell, quote>>
  BY DEF EnvNext, LookForShimDir, MakeShimDir, GetShim, CreateShim, WriteShim, ChmodShim, RunShim, envVars
<1> QED BY <1>1 DEF ReadableShell

LEMMA EnvironmentRead == SoundEnvironment /\ ReadableShell => EnvironmentOfShell
<1> SUFFICES ASSUME SoundEnvironment, ReadableShell,
                    NEW p \in Processes, sound[p], phase[p] = "over",
                    \A i \in DOMAIN shell : OneLine(shell[i])
             PROVE  /\ env[p] # Thrown
                    /\ DOMAIN env[p].vars = {shell[i].name : i \in DOMAIN shell} \cap Kept
                    /\ \A i \in DOMAIN shell :
                         shell[i].name \in Kept /\ Verbatim(shell[i]) =>
                           env[p].vars[shell[i].name] = Trimmed(shell[i].value)
  BY DEF EnvironmentOfShell
<1> DEFINE read == ProcessEnvironment(Output)
<1>1. env[p] = Loaded(read)
  BY DEF SoundEnvironment
<1>2. DOMAIN shell = 1 .. Len(shell)
  BY DEF ReadableShell
<1>3. /\ DOMAIN read = {shell[i].name : i \in 1 .. Len(shell)} \cap Kept
      /\ \A i \in 1 .. Len(shell) :
           shell[i].name \in Kept => read[shell[i].name] = Cleaned(Quoted(shell[i].value))
  BY <1>2, OutputRead
<1> HIDE DEF read
<1>4. env[p].kind = "loaded" /\ env[p].vars = read
  BY <1>1 DEF Loaded
<1>5. env[p] # Thrown
  BY <1>4 DEF Thrown
<1>6. ASSUME NEW i \in 1 .. Len(shell), shell[i].name \in Kept, Verbatim(shell[i])
      PROVE  read[shell[i].name] = Trimmed(shell[i].value)
  <2>1. shell[i] \in Variables /\ quote \in Quotes
    BY DEF ReadableShell
  <2>2. Cleaned(Quoted(shell[i].value)) = Trimmed(shell[i].value)
    BY <1>6, <2>1, CleanedQuoted
  <2> QED BY <1>3, <1>6, <2>2
<1> QED BY <1>2, <1>3, <1>4, <1>5, <1>6

-----------------------------------------------------------------------------
(* Bags and queues of tasks.                                               *)

LEMMA BagAdded ==
    ASSUME NEW b, IsABag(b), NEW e
    PROVE  /\ IsABag(b (+) SetToBag({e}))
           /\ \A x : BagIn(x, b (+) SetToBag({e})) <=> BagIn(x, b) \/ x = e
BY DEF IsABag, (+), SetToBag, BagIn, BagToSet

LEMMA BagRemoved ==
    ASSUME NEW b, IsABag(b), NEW e
    PROVE  /\ IsABag(b (-) SetToBag({e}))
           /\ \A x : BagIn(x, b (-) SetToBag({e})) => BagIn(x, b)
           /\ \A x : BagIn(x, b) => BagIn(x, b (-) SetToBag({e})) \/ x = e
BY DEF IsABag, (-), SetToBag, BagIn, BagToSet

LEMMA BagsJoined ==
    ASSUME NEW b, IsABag(b), NEW c, IsABag(c)
    PROVE  /\ IsABag(b (+) c)
           /\ \A x : BagIn(x, b (+) c) <=> BagIn(x, b) \/ BagIn(x, c)
BY DEF IsABag, (+), BagIn, BagToSet

LEMMA BagOfNone == IsABag(EmptyBag) /\ \A x : ~BagIn(x, EmptyBag)
BY DEF IsABag, EmptyBag, SetToBag, BagIn, BagToSet

LEMMA BagReplaced ==
    ASSUME NEW b, IsABag(b), NEW old, NEW new
    PROVE  /\ IsABag(Replaced(b, old, new))
           /\ BagIn(new, Replaced(b, old, new))
           /\ \A x : BagIn(x, Replaced(b, old, new)) => BagIn(x, b) \/ x = new
           /\ \A x : BagIn(x, b) => BagIn(x, Replaced(b, old, new)) \/ x = old
<1>1. IsABag(b (-) SetToBag({old}))
  BY BagRemoved
<1>2. /\ IsABag(Replaced(b, old, new))
      /\ \A x : BagIn(x, Replaced(b, old, new)) <=> BagIn(x, b (-) SetToBag({old})) \/ x = new
  BY <1>1, BagAdded DEF Replaced
<1>3. QED
  BY <1>2, BagRemoved

IsQueue(q, S) ==
  /\ q = [tasks |-> q.tasks, running |-> q.running]
  /\ q.tasks \in Seq(S)
  /\ IsABag(q.running)

\* A task waits in a queue or runs.
Has(q, t) == (\E i \in 1 .. Len(q.tasks) : q.tasks[i] = t) \/ BagIn(t, q.running)

LEMMA EmptyIsQueue == ASSUME NEW S PROVE IsQueue(EmptyQueue, S) /\ \A t : ~Has(EmptyQueue, t)
BY BagOfNone, EmptySeq DEF EmptyQueue, IsQueue, Has

LEMMA IdleHasNone == ASSUME NEW q, NEW t, Idle(q) PROVE ~Has(q, t)
BY BagOfNone DEF Idle, Has

LEMMA QueueFields ==
    ASSUME NEW S, NEW q, IsQueue(q, S)
    PROVE  /\ \A x : [q EXCEPT !.tasks = x] = [tasks |-> x, running |-> q.running]
           /\ \A x : [q EXCEPT !.running = x] = [tasks |-> q.tasks, running |-> x]
BY DEF IsQueue

LEMMA QueuePushed ==
    ASSUME NEW S, NEW q, IsQueue(q, S), NEW ts \in Seq(S)
    PROVE  /\ IsQueue(Pushed(q, ts), S)
           /\ Pushed(q, ts) = [tasks |-> q.tasks \o ts, running |-> q.running]
           /\ \A t : Has(q, t) => Has(Pushed(q, ts), t)
           /\ \A i \in 1 .. Len(ts) : Has(Pushed(q, ts), ts[i])
<1>1. Pushed(q, ts) = [tasks |-> q.tasks \o ts, running |-> q.running]
  BY QueueFields DEF Pushed
<1>2. /\ q.tasks \o ts \in Seq(S) /\ Len(q.tasks) \in Nat /\ Len(ts) \in Nat
      /\ Len(q.tasks \o ts) = Len(q.tasks) + Len(ts)
      /\ \A i \in 1 .. Len(q.tasks) + Len(ts) :
           (q.tasks \o ts)[i] = IF i <= Len(q.tasks) THEN q.tasks[i] ELSE ts[i - Len(q.tasks)]
  BY ConcatProperties, LenProperties DEF IsQueue
<1>3. IsQueue(Pushed(q, ts), S)
  BY <1>1, <1>2 DEF IsQueue
<1>4. ASSUME NEW t, Has(q, t) PROVE Has(Pushed(q, ts), t)
  <2>1. CASE BagIn(t, q.running)
    BY <1>1, <2>1 DEF Has
  <2>2. CASE \E i \in 1 .. Len(q.tasks) : q.tasks[i] = t
    <3>1. PICK i \in 1 .. Len(q.tasks) : q.tasks[i] = t
      BY <2>2
    <3>2. i \in 1 .. Len(q.tasks \o ts) /\ (q.tasks \o ts)[i] = t
      BY <1>2, <3>1
    <3>3. QED
      BY <1>1, <3>2 DEF Has
  <2>3. QED
    BY <1>4, <2>1, <2>2 DEF Has
<1>5. ASSUME NEW i \in 1 .. Len(ts) PROVE Has(Pushed(q, ts), ts[i])
  <2>1. /\ Len(q.tasks) + i \in 1 .. Len(q.tasks \o ts)
        /\ (q.tasks \o ts)[Len(q.tasks) + i] = ts[i]
    BY <1>2
  <2>2. Pushed(q, ts).tasks = q.tasks \o ts
    BY <1>1
  <2>3. \E j \in 1 .. Len(Pushed(q, ts).tasks) : Pushed(q, ts).tasks[j] = ts[i]
    BY <2>1, <2>2
  <2>4. QED
    BY <2>3 DEF Has
<1>6. QED
  BY <1>1, <1>3, <1>4, <1>5

LEMMA QueueStarted ==
    ASSUME NEW S, NEW q, IsQueue(q, S), q.tasks # <<>>
    PROVE  /\ IsQueue(Started(q), S)
           /\ Head(q.tasks) \in S
           /\ \A t : Has(q, t) => Has(Started(q), t)
           /\ \A t : BagIn(t, Started(q).running) => BagIn(t, q.running) \/ t = Head(q.tasks)
           /\ BagIn(Head(q.tasks), Started(q).running)
           /\ IsQueue([q EXCEPT !.tasks = Tail(@)], S)
           /\ [q EXCEPT !.tasks = Tail(@)].running = q.running
           /\ \A t : Has(q, t) => Has([q EXCEPT !.tasks = Tail(@)], t) \/ t = Head(q.tasks)
<1>1. /\ Tail(q.tasks) \in Seq(S) /\ Head(q.tasks) \in S /\ Head(q.tasks) = q.tasks[1]
      /\ Len(q.tasks) \in Nat /\ Len(Tail(q.tasks)) = Len(q.tasks) - 1
      /\ \A i \in 1 .. Len(Tail(q.tasks)) : Tail(q.tasks)[i] = q.tasks[i + 1]
  BY HeadTailProperties, LenProperties, EmptySeq DEF IsQueue
<1>2. /\ Started(q).tasks = Tail(q.tasks)
      /\ Started(q).running = q.running (+) SetToBag({Head(q.tasks)})
      /\ IsQueue(Started(q), S)
      /\ \A t : BagIn(t, Started(q).running) <=> BagIn(t, q.running) \/ t = Head(q.tasks)
  BY <1>1, BagAdded DEF Started, IsQueue
<1>3. ASSUME NEW t, \E i \in 1 .. Len(q.tasks) : q.tasks[i] = t
      PROVE  t = Head(q.tasks) \/ \E i \in 1 .. Len(Tail(q.tasks)) : Tail(q.tasks)[i] = t
  <2>1. PICK i \in 1 .. Len(q.tasks) : q.tasks[i] = t
    BY <1>3
  <2>2. CASE i = 1
    BY <1>1, <2>1, <2>2
  <2>3. CASE i # 1
    <3>1. i - 1 \in 1 .. Len(Tail(q.tasks)) /\ (i - 1) + 1 = i
      BY <1>1, <2>3
    <3>2. QED
      BY <1>1, <2>1, <3>1
  <2>4. QED
    BY <2>2, <2>3
<1>4. /\ [q EXCEPT !.tasks = Tail(@)] = [tasks |-> Tail(q.tasks), running |-> q.running]
      /\ IsQueue([q EXCEPT !.tasks = Tail(@)], S)
  <2>1. [q EXCEPT !.tasks = Tail(@)] = [tasks |-> Tail(q.tasks), running |-> q.running]
    BY QueueFields
  <2>2. QED
    BY <1>1, <2>1 DEF IsQueue
<1>5. \A t : Has(q, t) => Has(Started(q), t)
  BY <1>2, <1>3 DEF Has
<1>6. \A t : Has(q, t) => Has([q EXCEPT !.tasks = Tail(@)], t) \/ t = Head(q.tasks)
  BY <1>3, <1>4 DEF Has
<1>7. QED
  BY <1>1, <1>2, <1>4, <1>5, <1>6

\* A queue of which a running task has ended, or goes on as another.
WithEnd(q, old) == [q EXCEPT !.running = @ (-) SetToBag({old})]
WithNext(q, old, new) == [q EXCEPT !.running = Replaced(@, old, new)]

LEMMA QueueEnded ==
    ASSUME NEW S, NEW q, IsQueue(q, S), NEW old
    PROVE  /\ IsQueue(WithEnd(q, old), S)
           /\ \A t : BagIn(t, WithEnd(q, old).running) => BagIn(t, q.running)
           /\ \A t : Has(q, t) => Has(WithEnd(q, old), t) \/ t = old
<1> DEFINE b == q.running (-) SetToBag({old})
           r == WithEnd(q, old)
<1>1. r = [tasks |-> q.tasks, running |-> b]
  BY QueueFields DEF WithEnd
<1>2. IsABag(q.running) /\ q.tasks \in Seq(S)
  BY DEF IsQueue
<1>3. /\ IsABag(b)
      /\ \A t : BagIn(t, b) => BagIn(t, q.running)
      /\ \A t : BagIn(t, q.running) => BagIn(t, b) \/ t = old
  BY <1>2, BagRemoved
<1> HIDE DEF b, r
<1>4. r.tasks = q.tasks /\ r.running = b
  BY <1>1
<1>5. IsQueue(r, S) /\ \A t : Has(q, t) => Has(r, t) \/ t = old
  BY <1>1, <1>2, <1>3, <1>4 DEF IsQueue, Has
<1>6. QED
  BY <1>3, <1>4, <1>5 DEF r

LEMMA QueueRan ==
    ASSUME NEW S, NEW q, IsQueue(q, S), NEW old, NEW new
    PROVE  /\ IsQueue(WithNext(q, old, new), S)
           /\ \A t : BagIn(t, WithNext(q, old, new).running) => BagIn(t, q.running) \/ t = new
           /\ \A t : Has(q, t) => Has(WithNext(q, old, new), t) \/ t = old
           /\ Has(WithNext(q, old, new), new)
<1> DEFINE b == Replaced(q.running, old, new)
           r == WithNext(q, old, new)
<1>1. r = [tasks |-> q.tasks, running |-> b]
  BY QueueFields DEF WithNext
<1>2. IsABag(q.running) /\ q.tasks \in Seq(S)
  BY DEF IsQueue
<1>3. /\ IsABag(b) /\ BagIn(new, b)
      /\ \A t : BagIn(t, b) => BagIn(t, q.running) \/ t = new
      /\ \A t : BagIn(t, q.running) => BagIn(t, b) \/ t = old
  BY <1>2, BagReplaced
<1> HIDE DEF b, r
<1>4. r.tasks = q.tasks /\ r.running = b
  BY <1>1
<1>5. IsQueue(r, S) /\ Has(r, new) /\ \A t : Has(q, t) => Has(r, t) \/ t = old
  BY <1>1, <1>2, <1>3, <1>4 DEF IsQueue, Has
<1>6. QED
  BY <1>3, <1>4, <1>5 DEF r

-----------------------------------------------------------------------------
(* The index of symbols.  What a task has read is not newer than the file; *)
(* until the tree was told of the last change of a file, the change is     *)
(* reported, or the file is to be parsed again; and until the walk is over *)
(* one of its tasks leads to every file that is as it was when it began.   *)

Changed == [at : Nat, is : States]
Told == [at : Nat \cup {-1}, is : States]
DirNodeTasks ==
  [kind : {"dir"}, of : {"root", "sub"}] \cup [kind : {"node"}, of : Files \cup {"sub"}]
ReadTasks == [kind : {"read"}, of : Files]

LocateTypes ==
  /\ disk \in [Files -> Changed]
  /\ events \in [Files -> Seq(Changed)]
  /\ tree \in [Files -> Told]
  /\ learned \in [Files -> Int]
  /\ since \in [Files -> Changed]
  /\ IsQueue(parsing, ReadTasks)
  /\ IsQueue(walking, DirNodeTasks)
  /\ IsABag(strays)
  /\ walked \in BOOLEAN
  /\ Idle(walking) => walked

\* A change of a file that has been, and is the present one if it is as new.
Known(f, c) == c.at <= disk[f].at /\ (c.at = disk[f].at => c = disk[f])

Running(t) == BagIn(t, parsing.running) \/ BagIn(t, walking.running) \/ BagIn(t, strays)

\* What the watcher reports and the tasks have read.
Seen(f) ==
  /\ Known(f, since[f])
  /\ \A i \in 1 .. Len(events[f]) : Known(f, events[f][i])
  /\ events[f] # <<>> => events[f][Len(events[f])] = disk[f]
  /\ Running(ReadTask(f)) => f \notin Filtered
  /\ \A c : Running(StoreTask(f, c)) => c \in Changed /\ Known(f, c) /\ f \notin Filtered

\* What the tree has.
Stored(f) ==
  /\ tree[f].at <= learned[f] /\ learned[f] <= disk[f].at
  /\ Known(f, tree[f])
  /\ tree[f] = Untold => learned[f] = Untold.at
  /\ f \in Filtered => tree[f].is = "gone"

Followed(f) ==
  f \notin Filtered /\ disk[f].at # 0 =>
    \/ learned[f] = disk[f].at
    \/ events[f] # <<>>
    \/ Has(parsing, ReadTask(f))
    \/ Has(parsing, StoreTask(f, disk[f]))

\* The tasks of a walk that lead to a file.
LeadingTo(f) ==
  {DirTask("root"), NodeTask(f), ReadTask(f), StoreTask(f, disk[f])}
    \cup {t \in {NodeTask("sub"), DirTask("sub")} : f \in Nested}

Findable(f) ==
  f \notin Filtered /\ ~Barred(f) /\ since[f] = disk[f] /\ disk[f].is = "here"

Reached(f) ==
  Findable(f) =>
    learned[f] = disk[f].at \/ (~walked /\ \E t \in LeadingTo(f) : Has(walking, t))

LocateInv ==
  /\ LocateTypes
  /\ \A f \in Files : Seen(f) /\ Stored(f) /\ Followed(f) /\ Reached(f)

\* Which tasks are the same.
LEMMA TaskKinds ==
    /\ \A f, g : /\ (ReadTask(f) = ReadTask(g) => f = g)
                 /\ (NodeTask(f) = NodeTask(g) => f = g)
                 /\ (DirTask(f) = DirTask(g) => f = g)
                 /\ DirTask(f) # NodeTask(g) /\ DirTask(f) # ReadTask(g) /\ NodeTask(f) # ReadTask(g)
    /\ \A f, g, c, d : StoreTask(f, c) = StoreTask(g, d) => f = g /\ c = d
    /\ \A f, g, c : /\ StoreTask(f, c) # ReadTask(g) /\ StoreTask(f, c) # NodeTask(g)
                    /\ StoreTask(f, c) # DirTask(g)
    /\ \A f, c : ReadTask(f) \notin DirNodeTasks /\ StoreTask(f, c) \notin DirNodeTasks
                 /\ StoreTask(f, c) \notin ReadTasks
    /\ \A f : ReadTask(f).of = f
    /\ \A t \in ReadTasks : t.of \in Files /\ t = ReadTask(t.of)
<1>1. \A f : DirTask(f).kind = "dir" /\ NodeTask(f).kind = "node" /\ ReadTask(f).kind = "read"
             /\ DirTask(f).of = f /\ NodeTask(f).of = f /\ ReadTask(f).of = f
  BY DEF DirTask, NodeTask, ReadTask
<1>2. \A f, c : StoreTask(f, c).kind = "store" /\ StoreTask(f, c).of = f /\ StoreTask(f, c).seen = c
  BY DEF StoreTask
<1>3. /\ \A t \in DirNodeTasks : t.kind \in {"dir", "node"}
      /\ \A t \in ReadTasks : t.kind = "read" /\ t.of \in Files /\ t = ReadTask(t.of)
  BY DEF DirNodeTasks, ReadTasks, ReadTask
<1>4. \A f, g : /\ (ReadTask(f) = ReadTask(g) => f = g)
                /\ (NodeTask(f) = NodeTask(g) => f = g)
                /\ (DirTask(f) = DirTask(g) => f = g)
                /\ DirTask(f) # NodeTask(g) /\ DirTask(f) # ReadTask(g) /\ NodeTask(f) # ReadTask(g)
  BY <1>1
<1>5. \A f, g, c, d : StoreTask(f, c) = StoreTask(g, d) => f = g /\ c = d
  <2>1. SUFFICES ASSUME NEW f, NEW g, NEW c, NEW d, StoreTask(f, c) = StoreTask(g, d)
                 PROVE  f = g /\ c = d
    OBVIOUS
  <2>2. StoreTask(f, c).of = StoreTask(g, d).of /\ StoreTask(f, c).seen = StoreTask(g, d).seen
    BY <2>1
  <2>3. QED
    BY <1>2, <2>2
<1>6. \A f, g, c : /\ StoreTask(f, c) # ReadTask(g) /\ StoreTask(f, c) # NodeTask(g)
                   /\ StoreTask(f, c) # DirTask(g)
  BY <1>1, <1>2
<1>7. \A f, c : ReadTask(f) \notin DirNodeTasks /\ StoreTask(f, c) \notin DirNodeTasks
                /\ StoreTask(f, c) \notin ReadTasks
  BY <1>1, <1>2, <1>3
<1>8. QED
  BY <1>1, <1>3, <1>4, <1>5, <1>6, <1>7

LEMMA LocateStarts == LocateInit => LocateInv
<1> SUFFICES ASSUME LocateInit PROVE LocateInv
  OBVIOUS
<1>1. /\ disk \in [Files -> Changed] /\ since = disk
      /\ \A f \in Files : disk[f].at = 0 /\ disk[f].at \in Nat
  BY DEF LocateInit, Changes, Changed
<1>2. /\ IsQueue(parsing, ReadTasks) /\ IsQueue(EmptyQueue, DirNodeTasks)
      /\ \A t : ~Has(parsing, t) /\ ~BagIn(t, parsing.running)
      /\ \A t : ~BagIn(t, strays)
      /\ IsABag(strays)
  BY EmptyIsQueue, BagOfNone DEF LocateInit, EmptyQueue, Has
<1>3. /\ IsQueue(walking, DirNodeTasks) /\ Has(walking, DirTask("root"))
      /\ \A t : ~BagIn(t, walking.running)
  <2>1. walking = [tasks |-> <<DirTask("root")>>, running |-> EmptyBag]
    BY DEF LocateInit, EmptyQueue
  <2>2. DirTask("root") \in DirNodeTasks
    BY DEF DirTask, DirNodeTasks
  <2>3. /\ <<DirTask("root")>> \in Seq(DirNodeTasks) /\ Len(<<DirTask("root")>>) = 1
        /\ <<DirTask("root")>>[1] = DirTask("root")
    BY <2>2
  <2>4. QED
    BY <2>1, <2>3, BagOfNone DEF IsQueue, Has
<1>4. ~Idle(walking) /\ walked = FALSE
  BY <1>3, IdleHasNone DEF LocateInit
<1>5. LocateTypes
  <2>1. events \in [Files -> Seq(Changed)]
    BY EmptySeq DEF LocateInit
  <2>2. /\ tree \in [Files -> Told] /\ learned \in [Files -> Int]
    BY DEF LocateInit, Untold, Told, States
  <2>3. QED
    BY <1>1, <1>2, <1>3, <1>4, <2>1, <2>2 DEF LocateTypes
<1>6. ASSUME NEW f \in Files PROVE Seen(f) /\ Stored(f) /\ Followed(f) /\ Reached(f)
  <2>1. events[f] = <<>> /\ tree[f] = Untold /\ learned[f] = -1
        /\ Untold.at = -1 /\ Untold.is = "gone"
    BY DEF LocateInit, Untold
  <2>2. Seen(f)
    BY <1>1, <1>2, <1>3, <2>1 DEF Seen, Known, Running
  <2>3. Stored(f) /\ Followed(f)
    BY <1>1, <2>1 DEF Stored, Followed, Known
  <2>4. DirTask("root") \in LeadingTo(f)
    BY DEF LeadingTo
  <2>5. Reached(f)
    BY <1>3, <1>4, <2>4 DEF Reached
  <2>6. QED
    BY <2>2, <2>3, <2>5
<1>7. QED
  BY <1>5, <1>6 DEF LocateInv

\* What was told of the present file is what the tree has, unless overtaken.
LEMMA ToldLast ==
    ASSUME LocateInv, NEW f \in Files, learned[f] = disk[f].at, ~Overtaken(f)
    PROVE  tree[f] = disk[f]
<1>1. Stored(f) /\ disk[f].at \in Nat /\ tree[f].at \in Int /\ Untold.at = -1
  BY DEF LocateInv, LocateTypes, Changed, Told, Untold
<1>2. tree[f] # Untold
  BY <1>1 DEF Stored
<1>3. ~(tree[f].at < learned[f])
  BY <1>2 DEF Overtaken
<1>4. tree[f].at = disk[f].at
  BY <1>1, <1>3 DEF Stored
<1>5. QED
  BY <1>1, <1>4 DEF Stored, Known

LEMMA InvIndexFollows == LocateInv => IndexFollows
<1>1. SUFFICES ASSUME LocateInv, NEW f \in Files, Quiet(f), ~Overtaken(f),
                      ~(Barred(f) /\ disk[f].at = 0 /\ Entry(f) = Absent)
               PROVE  Entry(f) = Present(f)
  BY DEF IndexFollows
<1>2. /\ Seen(f) /\ Stored(f) /\ Followed(f) /\ Reached(f)
      /\ disk[f] \in Changed /\ since[f] \in Changed
      /\ tree[f] \in Told /\ walked
  BY <1>1 DEF LocateInv, LocateTypes, Quiet
<1>3. CASE f \in Filtered
  BY <1>2, <1>3 DEF Stored, Present, Entry
<1>4. CASE tree[f] = disk[f]
  BY <1>2, <1>4 DEF Stored, Present, Entry
<1>5. CASE f \notin Filtered /\ tree[f] # disk[f]
  <2>1. learned[f] # disk[f].at
    BY <1>1, <1>5, ToldLast
  <2>2. disk[f].at = 0
    BY <1>1, <1>2, <1>5, <2>1, IdleHasNone DEF Followed, Quiet
  <2>3. since[f] = disk[f]
    <3>1. since[f].at <= 0 /\ since[f].at \in Nat /\ (since[f].at = 0 => since[f] = disk[f])
      BY <1>2, <2>2 DEF Seen, Known, Changed
    <3>2. QED
      BY <3>1
  <2>4. Barred(f) \/ disk[f].is # "here"
    BY <1>2, <1>5, <2>1, <2>3 DEF Reached, Findable
  <2>5. Entry(f) = Absent
    <3>1. tree[f].at = -1
      BY <1>2, <1>5, <2>2 DEF Stored, Known, Told
    <3>2. QED
      BY <3>1 DEF Entry, Absent
  <2>6. QED
    BY <1>1, <2>2, <2>4, <2>5 DEF Present
<1>6. QED
  BY <1>3, <1>4, <1>5

LEMMA InvSearchesComplete == LocateInv => SearchesComplete
<1>1. SUFFICES ASSUME LocateInv, walked, NEW f \in Files \ Filtered, since[f] = disk[f],
                      disk[f].is = "here", ~Barred(f), ~Overtaken(f)
               PROVE  tree[f] = disk[f]
  BY DEF SearchesComplete
<1>2. Reached(f)
  BY <1>1 DEF LocateInv
<1>3. learned[f] = disk[f].at
  BY <1>1, <1>2 DEF Reached, Findable
<1>4. QED
  BY <1>1, <1>3, ToldLast

\* The tree is told of a change that has been.
LEMMA ToldKeeps ==
    ASSUME LocateInv, disk' = disk, NEW f \in Files, NEW c \in Changed, Known(f, c), Tell(f, c),
           f \in Filtered => c.is = "gone"
    PROVE  /\ tree' \in [Files -> Told] /\ learned' \in [Files -> Int]
           /\ \A g \in Files : Stored(g)' /\ (learned[g] = disk[g].at => learned'[g] = disk[g].at)
           /\ c = disk[f] => learned'[f] = disk[f].at
<1>1. /\ tree \in [Files -> Told] /\ learned \in [Files -> Int] /\ c \in Told
      /\ disk[f] \in Changed /\ c.at \in Nat /\ disk[f].at \in Nat
      /\ Untold.at = -1
  BY DEF LocateInv, LocateTypes, Changed, Told, Untold
<1>2. /\ tree' = [tree EXCEPT ![f] = c]
      /\ learned' = [learned EXCEPT ![f] = IF c.at > @ THEN c.at ELSE @]
  BY DEF Tell
<1>3. /\ tree' \in [Files -> Told] /\ learned' \in [Files -> Int]
      /\ tree'[f] = c
      /\ learned'[f] = (IF c.at > learned[f] THEN c.at ELSE learned[f])
      /\ \A g \in Files : g # f => tree'[g] = tree[g] /\ learned'[g] = learned[g]
  BY <1>1, <1>2
<1>4. /\ learned[f] <= disk[f].at /\ learned[f] \in Int
      /\ c.at <= disk[f].at /\ (c.at = disk[f].at => c = disk[f])
  BY <1>1 DEF LocateInv, Stored, Known
<1>5. Stored(f)'
  <2>1. tree'[f].at <= learned'[f] /\ learned'[f] <= disk'[f].at
    BY <1>1, <1>3, <1>4
  <2>2. Known(f, tree'[f])
    BY <1>3
  <2>3. tree'[f] # Untold
    BY <1>1, <1>3
  <2>4. f \in Filtered => tree'[f].is = "gone"
    BY <1>3
  <2>5. QED
    BY <2>1, <2>2, <2>3, <2>4 DEF Stored, Known
<1>6. ASSUME NEW g \in Files, g # f PROVE Stored(g)'
  BY <1>3, <1>6 DEF LocateInv, Stored, Known
<1>7. (learned[f] = disk[f].at => learned'[f] = disk[f].at) /\ (c = disk[f] => learned'[f] = disk[f].at)
  BY <1>1, <1>3, <1>4
<1>8. QED
  BY <1>3, <1>5, <1>6, <1>7

\* A file is still reached if what leads to it does, or the tree was told of it.
LEMMA ReachedKept ==
    ASSUME NEW f \in Files, Reached(f), UNCHANGED <<disk, barred, since>>,
           learned[f] = disk[f].at => learned'[f] = disk[f].at,
           walked' => walked \/ Idle(walking'),
           Findable(f) => \A t \in LeadingTo(f) : Has(walking, t) =>
             learned'[f] = disk[f].at \/ \E u \in LeadingTo(f) : Has(walking', u)
    PROVE  Reached(f)'
<1>1. Findable(f)' <=> Findable(f)
  BY DEF Findable, Barred
<1>2. LeadingTo(f)' = LeadingTo(f)
  BY DEF LeadingTo
<1>3. SUFFICES ASSUME Findable(f), learned'[f] # disk[f].at
               PROVE  ~walked' /\ \E u \in LeadingTo(f) : Has(walking', u)
  BY <1>1, <1>2 DEF Reached
<1>4. ~walked /\ \E u \in LeadingTo(f) : Has(walking', u)
  BY <1>3 DEF Reached
<1>5. QED
  BY <1>4, IdleHasNone

-----------------------------------------------------------------------------
(* Each step keeps what is known of the files.                             *)

\* A step of the queues that tells nothing: what leads to a file, or is to be
\* parsed, goes on to do so.
LEMMA QueuesKeep ==
    ASSUME LocateInv, UNCHANGED <<disk, barred, events, tree, learned, since>>,
           IsQueue(parsing', ReadTasks), IsQueue(walking', DirNodeTasks), IsABag(strays'),
           walked' \in BOOLEAN, Idle(walking') => walked', walked' => walked \/ Idle(walking'),
           \A t : Running(t)' =>
             \/ Running(t) \/ t \in DirNodeTasks
             \/ \E f \in Files \ Filtered : t \in {ReadTask(f), StoreTask(f, disk[f])},
           \A f \in Files \ Filtered :
             Has(parsing, ReadTask(f)) \/ Has(parsing, StoreTask(f, disk[f])) =>
               Has(parsing', ReadTask(f)) \/ Has(parsing', StoreTask(f, disk[f])),
           \A f \in Files : Findable(f) =>
             \A t \in LeadingTo(f) : Has(walking, t) => \E u \in LeadingTo(f) : Has(walking', u)
    PROVE  LocateInv'
<1>1. LocateTypes'
  BY DEF LocateInv, LocateTypes
<1>2. ASSUME NEW f \in Files PROVE Seen(f)' /\ Stored(f)' /\ Followed(f)' /\ Reached(f)'
  <2>1. Seen(f) /\ Stored(f) /\ Followed(f) /\ Reached(f) /\ disk[f] \in Changed
    BY DEF LocateInv, LocateTypes
  <2>2. Running(ReadTask(f))' => f \notin Filtered
    <3>1. ASSUME NEW g \in Files \ Filtered, ReadTask(f) \in {ReadTask(g), StoreTask(g, disk[g])}
          PROVE  f \notin Filtered
      BY <3>1, TaskKinds
    <3>2. ReadTask(f) \notin DirNodeTasks
      BY TaskKinds
    <3>3. QED
      BY <2>1, <3>1, <3>2 DEF Seen
  <2>3. ASSUME NEW c, Running(StoreTask(f, c))'
        PROVE  c \in Changed /\ Known(f, c) /\ f \notin Filtered
    <3>1. ASSUME NEW g \in Files \ Filtered, StoreTask(f, c) \in {ReadTask(g), StoreTask(g, disk[g])}
          PROVE  c = disk[f] /\ f \notin Filtered
      BY <3>1, TaskKinds
    <3>2. StoreTask(f, c) \notin DirNodeTasks
      BY TaskKinds
    <3>3. Running(StoreTask(f, c)) \/ (c = disk[f] /\ f \notin Filtered)
      BY <2>3, <3>1, <3>2
    <3>4. Known(f, disk[f])
      BY <2>1 DEF Known, Changed
    <3>5. QED
      BY <2>1, <3>3, <3>4 DEF Seen
  <2>4. Seen(f)'
    BY <2>1, <2>2, <2>3 DEF Seen, Known
  <2>5. Stored(f)'
    BY <2>1 DEF Stored, Known
  <2>6. Followed(f)'
    BY <2>1 DEF Followed
  <2>7. Reached(f)'
    BY <2>1, ReachedKept
  <2>8. QED
    BY <2>4, <2>5, <2>6, <2>7
<1>3. QED
  BY <1>1, <1>2 DEF LocateInv

LEMMA ChangeKeeps ==
    ASSUME LocateInv, NEW g \in Files, NEW state \in States, Change(g, state) PROVE LocateInv'
<1>1. /\ disk \in [Files -> Changed] /\ events \in [Files -> Seq(Changed)] /\ since \in [Files -> Changed]
      /\ tree \in [Files -> Told] /\ learned \in [Files -> Int]
  BY DEF LocateInv, LocateTypes
<1> DEFINE new == [at |-> disk[g].at + 1, is |-> state]
<1>2. /\ disk' = [disk EXCEPT ![g] = new]
      /\ events' = [events EXCEPT ![g] = Append(@, disk'[g])]
      /\ UNCHANGED <<barred, tree, learned, parsing, walking, strays, walked, since>>
  BY DEF Change
<1>3. new \in Changed /\ new.at = disk[g].at + 1 /\ disk[g].at \in Nat
  BY <1>1 DEF Changed
<1> HIDE DEF new
<1>4. /\ disk' \in [Files -> Changed] /\ disk'[g] = new
      /\ \A f \in Files : f # g => disk'[f] = disk[f] /\ events'[f] = events[f]
      /\ events' = [events EXCEPT ![g] = Append(@, new)]
  BY <1>1, <1>2, <1>3
<1>5. /\ events' \in [Files -> Seq(Changed)]
      /\ events'[g] = Append(events[g], new) /\ events'[g] \in Seq(Changed)
      /\ Len(events[g]) \in Nat /\ Len(events'[g]) = Len(events[g]) + 1
      /\ events'[g][Len(events[g]) + 1] = new
      /\ \A i \in 1 .. Len(events[g]) : events'[g][i] = events[g][i] /\ events[g][i] \in Changed
  BY <1>1, <1>3, <1>4
<1>6. LocateTypes'
  BY <1>2, <1>4, <1>5 DEF LocateInv, LocateTypes
<1>7. ASSUME NEW f \in Files, f # g PROVE Seen(f)' /\ Stored(f)' /\ Followed(f)' /\ Reached(f)'
  <2>1. Seen(f) /\ Stored(f) /\ Followed(f) /\ Reached(f)
    BY DEF LocateInv
  <2>2. disk'[f] = disk[f] /\ events'[f] = events[f]
    BY <1>4, <1>7
  <2>3. Seen(f)'
    BY <1>2, <2>1, <2>2 DEF Seen, Known, Running
  <2>4. Stored(f)' /\ Followed(f)'
    BY <1>2, <2>1, <2>2 DEF Stored, Known, Followed
  <2>5. Reached(f)'
    BY <1>2, <2>1, <2>2 DEF Reached, Findable, Barred, LeadingTo
  <2>6. QED
    BY <2>3, <2>4, <2>5
<1>8. Seen(g)' /\ Stored(g)' /\ Followed(g)' /\ Reached(g)'
  <2>1. Seen(g) /\ Stored(g)
    BY DEF LocateInv
  <2>2. ASSUME NEW c \in Told, Known(g, c)
        PROVE  c.at < new.at /\ c.at <= disk'[g].at /\ (c.at = disk'[g].at => c = disk'[g])
    <3>1. c.at \in Int /\ c.at <= disk[g].at
      BY <2>2 DEF Told, Known
    <3>2. QED
      BY <1>3, <1>4, <3>1
  <2> Changed \subseteq Told
    BY DEF Changed, Told
  <2>3. \A i \in 1 .. Len(events'[g]) : events'[g][i].at <= disk'[g].at
                                        /\ (events'[g][i].at = disk'[g].at => events'[g][i] = disk'[g])
    <3>1. ASSUME NEW i \in 1 .. Len(events'[g])
          PROVE  events'[g][i].at <= disk'[g].at
                 /\ (events'[g][i].at = disk'[g].at => events'[g][i] = disk'[g])
      <4>1. CASE i \in 1 .. Len(events[g])
        BY <1>5, <2>1, <2>2, <4>1 DEF Seen
      <4>2. CASE i = Len(events[g]) + 1
        BY <1>3, <1>4, <1>5, <4>2
      <4>3. QED
        BY <1>5, <4>1, <4>2
    <3>2. QED
      BY <3>1
  <2>4. since[g] \in Changed /\ Known(g, since[g])
    BY <1>1, <2>1 DEF Seen
  <2>5. Seen(g)'
    <3>1. Known(g, since[g])'
      BY <1>2, <2>2, <2>4 DEF Known
    <3>2. \A c : Running(StoreTask(g, c))' => c \in Changed /\ Known(g, c)' /\ g \notin Filtered
      BY <1>2, <2>1, <2>2 DEF Seen, Known, Running
    <3>3. Running(ReadTask(g))' => g \notin Filtered
      BY <1>2, <2>1 DEF Seen, Running
    <3>4. events'[g][Len(events'[g])] = disk'[g]
      BY <1>4, <1>5
    <3>5. \A i \in 1 .. Len(events'[g]) : Known(g, events[g][i])'
      BY <2>3 DEF Known
    <3>6. QED
      BY <3>1, <3>2, <3>3, <3>4, <3>5 DEF Seen
  <2>6. Stored(g)'
    <3>1. tree[g].at <= learned[g] /\ learned[g] <= disk'[g].at
      <4>1. tree[g].at <= learned[g] /\ learned[g] <= disk[g].at /\ learned[g] \in Int
        BY <1>1, <2>1 DEF Stored
      <4>2. QED
        BY <1>3, <1>4, <4>1
    <3>2. tree[g].at <= disk'[g].at /\ (tree[g].at = disk'[g].at => tree[g] = disk'[g])
      BY <1>1, <2>1, <2>2 DEF Stored
    <3>3. tree' = tree /\ learned' = learned
      BY <1>2
    <3>4. QED
      BY <2>1, <3>1, <3>2, <3>3 DEF Stored, Known
  <2>7. Followed(g)'
    <3>1. events'[g] # <<>>
      BY <1>5, EmptySeq
    <3>2. QED
      BY <3>1 DEF Followed
  <2>8. Reached(g)'
    <3>1. since'[g] # disk'[g]
      BY <1>2, <1>3, <1>4, <2>2, <2>4 DEF Changed
    <3>2. QED
      BY <3>1 DEF Reached, Findable
  <2>9. QED
    BY <2>5, <2>6, <2>7, <2>8
<1>9. QED
  BY <1>6, <1>7, <1>8 DEF LocateInv

LEMMA OnePushed ==
    ASSUME NEW S, NEW q, IsQueue(q, S), NEW t \in S
    PROVE  /\ IsQueue(Pushed(q, <<t>>), S)
           /\ Pushed(q, <<t>>).running = q.running
           /\ \A u : Has(q, u) => Has(Pushed(q, <<t>>), u)
           /\ Has(Pushed(q, <<t>>), t)
<1>1. <<t>> \in Seq(S) /\ Len(<<t>>) = 1 /\ <<t>>[1] = t
  OBVIOUS
<1> DEFINE ts == <<t>>
<1>2. ts \in Seq(S) /\ 1 \in 1 .. Len(ts) /\ ts[1] = t
  BY <1>1
<1> HIDE DEF ts
<1>3. /\ IsQueue(Pushed(q, ts), S)
      /\ Pushed(q, ts) = [tasks |-> q.tasks \o ts, running |-> q.running]
      /\ \A u : Has(q, u) => Has(Pushed(q, ts), u)
      /\ Has(Pushed(q, ts), t)
  BY <1>2, QueuePushed
<1>4. QED
  BY <1>3 DEF ts

LEMMA ReportKeeps == ASSUME LocateInv, NEW g \in Files, Report(g) PROVE LocateInv'
<1>1. /\ events \in [Files -> Seq(Changed)] /\ disk \in [Files -> Changed]
      /\ IsQueue(parsing, ReadTasks) /\ events[g] # <<>> /\ events[g] \in Seq(Changed)
  BY DEF LocateInv, LocateTypes, Report
<1>2. /\ UNCHANGED <<disk, barred, walking, strays, walked, since>>
      /\ events' = [events EXCEPT ![g] = Tail(@)]
  BY DEF Report
<1>3. /\ Tail(events[g]) \in Seq(Changed) /\ Head(events[g]) \in Changed
      /\ Head(events[g]) = events[g][1] /\ 1 \in 1 .. Len(events[g])
      /\ Len(events[g]) \in Nat \ {0} /\ Len(Tail(events[g])) = Len(events[g]) - 1
      /\ \A i \in 1 .. Len(Tail(events[g])) : Tail(events[g])[i] = events[g][i + 1]
  BY <1>1, HeadTailProperties, LenProperties, EmptySeq
<1>4. /\ events' \in [Files -> Seq(Changed)] /\ events'[g] = Tail(events[g])
      /\ \A f \in Files : f # g => events'[f] = events[f]
  BY <1>1, <1>2, <1>3
<1>5. \A f \in Files : Seen(f) /\ Stored(f) /\ Followed(f) /\ Reached(f)
  BY DEF LocateInv
<1>6. Known(g, Head(events[g])) /\ events[g][Len(events[g])] = disk[g]
  BY <1>1, <1>3, <1>5 DEF Seen
<1>7. /\ \A i \in 1 .. Len(events'[g]) : Known(g, events'[g][i])
      /\ events'[g] # <<>> => events'[g][Len(events'[g])] = disk[g]
      /\ events'[g] = <<>> => Head(events[g]) = disk[g]
  <2>1. \A i \in 1 .. Len(events'[g]) : i + 1 \in 1 .. Len(events[g])
    BY <1>3, <1>4
  <2>2. \A i \in 1 .. Len(events'[g]) : Known(g, events'[g][i])
    BY <1>3, <1>4, <1>5, <2>1 DEF Seen
  <2>3. ASSUME events'[g] # <<>> PROVE events'[g][Len(events'[g])] = disk[g]
    <3> DEFINE last == Len(events'[g])
    <3> DEFINE length == Len(events[g])
    <3>1. events'[g] \in Seq(Changed) /\ last = length - 1 /\ length \in Nat \ {0}
      BY <1>3, <1>4
    <3>2. last # 0
      BY <2>3, <3>1, EmptySeq
    <3>3. last = Len(Tail(events[g]))
      BY <1>4
    <3> HIDE DEF last, length
    <3>4. last \in 1 .. last /\ last + 1 = length
      BY <3>1, <3>2
    <3>5. events'[g][last] = events[g][last + 1]
      BY <1>3, <1>4, <3>3, <3>4
    <3>6. QED
      BY <1>6, <3>4, <3>5 DEF last, length
  <2>4. ASSUME events'[g] = <<>> PROVE Head(events[g]) = disk[g]
    <3>1. Len(Tail(events[g])) = 0
      BY <1>3, <1>4, <2>4, EmptySeq
    <3>2. Len(events[g]) = 1
      BY <1>3, <3>1
    <3>3. QED
      BY <1>3, <1>6, <3>2
  <2>5. QED
    BY <2>2, <2>3, <2>4
<1>8. CASE Head(events[g]).is # "gone"
  <2>1. parsing' = Pushed(parsing, <<ReadTask(g)>>) /\ UNCHANGED <<tree, learned>>
    BY <1>8 DEF Report
  <2>2. ReadTask(g) \in ReadTasks
    BY DEF ReadTask, ReadTasks
  <2>3. /\ IsQueue(parsing', ReadTasks) /\ parsing'.running = parsing.running
        /\ \A t : Has(parsing, t) => Has(parsing', t)
        /\ Has(parsing', ReadTask(g))
    BY <1>1, <2>1, <2>2, OnePushed
  <2>4. LocateTypes'
    BY <1>2, <1>4, <2>1, <2>3 DEF LocateInv, LocateTypes
  <2>5. ASSUME NEW f \in Files PROVE Seen(f)' /\ Stored(f)' /\ Followed(f)' /\ Reached(f)'
    <3>1. Seen(f)'
      <4>1. /\ \A i \in 1 .. Len(events'[f]) : Known(f, events'[f][i])
            /\ events'[f] # <<>> => events'[f][Len(events'[f])] = disk[f]
        BY <1>4, <1>5, <1>7 DEF Seen
      <4>2. \A t : Running(t)' <=> Running(t)
        BY <1>2, <2>3 DEF Running
      <4>3. QED
        BY <1>2, <1>5, <4>1, <4>2 DEF Seen, Known
    <3>2. Stored(f)'
      BY <1>2, <1>5, <2>1 DEF Stored, Known
    <3>3. Followed(f)'
      BY <1>2, <1>4, <1>5, <2>1, <2>3 DEF Followed
    <3>4. Reached(f)'
      BY <1>2, <1>5, <2>1 DEF Reached, Findable, Barred, LeadingTo
    <3>5. QED
      BY <3>1, <3>2, <3>3, <3>4
  <2>6. QED
    BY <2>4, <2>5 DEF LocateInv
<1>9. CASE Head(events[g]).is = "gone"
  <2>1. Tell(g, Head(events[g])) /\ parsing' = parsing
    BY <1>9 DEF Report
  <2>2. /\ tree' \in [Files -> Told] /\ learned' \in [Files -> Int]
        /\ \A f \in Files : Stored(f)' /\ (learned[f] = disk[f].at => learned'[f] = disk[f].at)
        /\ Head(events[g]) = disk[g] => learned'[g] = disk[g].at
    BY <1>2, <1>3, <1>6, <1>9, <2>1, ToldKeeps
  <2>3. LocateTypes'
    BY <1>2, <1>4, <2>1, <2>2 DEF LocateInv, LocateTypes
  <2>4. ASSUME NEW f \in Files PROVE Seen(f)' /\ Stored(f)' /\ Followed(f)' /\ Reached(f)'
    <3>1. Seen(f)'
      <4>1. /\ \A i \in 1 .. Len(events'[f]) : Known(f, events'[f][i])
            /\ events'[f] # <<>> => events'[f][Len(events'[f])] = disk[f]
        BY <1>4, <1>5, <1>7 DEF Seen
      <4>2. \A t : Running(t)' <=> Running(t)
        BY <1>2, <2>1 DEF Running
      <4>3. QED
        BY <1>2, <1>5, <4>1, <4>2 DEF Seen, Known
    <3>2. Followed(f)'
      BY <1>2, <1>4, <1>5, <1>7, <2>1, <2>2 DEF Followed
    <3>3. Reached(f)'
      BY <1>2, <1>5, <2>2, ReachedKept
    <3>4. QED
      BY <2>2, <3>1, <3>2, <3>3
  <2>5. QED
    BY <2>3, <2>4 DEF LocateInv
<1>10. QED
  BY <1>8, <1>9


\* The queue of the watcher: a task of a file that is left out is dropped, the
\* others start, and read the file as it is.
LEMMA ParseKeeps ==
    ASSUME LocateInv, ParseStart \/ \E f \in Files : ParseRead(f) PROVE LocateInv'
<1>1. /\ IsQueue(parsing, ReadTasks) /\ IsQueue(walking, DirNodeTasks) /\ IsABag(strays)
      /\ walked \in BOOLEAN /\ (Idle(walking) => walked)
      /\ \A f \in Files : Seen(f)
  BY DEF LocateInv, LocateTypes
<1>2. UNCHANGED <<disk, barred, events, tree, learned, walking, strays, walked, since>>
  BY DEF ParseStart, ParseRead
<1>3. CASE ParseStart
  <2> DEFINE task == Head(parsing.tasks)
             dropped == [parsing EXCEPT !.tasks = Tail(@)]
  <2>1. parsing.tasks # <<>> /\ parsing' = IF task.of \in Filtered THEN dropped ELSE Started(parsing)
    BY <1>3 DEF ParseStart, CanStart
  <2>2. /\ IsQueue(Started(parsing), ReadTasks) /\ task \in ReadTasks
        /\ \A t : Has(parsing, t) => Has(Started(parsing), t)
        /\ \A t : BagIn(t, Started(parsing).running) => BagIn(t, parsing.running) \/ t = task
        /\ IsQueue(dropped, ReadTasks) /\ dropped.running = parsing.running
        /\ \A t : Has(parsing, t) => Has(dropped, t) \/ t = task
    BY <1>1, <2>1, QueueStarted
  <2> HIDE DEF task, dropped
  <2>3. task.of \in Files /\ task = ReadTask(task.of)
    BY <2>2, TaskKinds
  <2>4. ASSUME NEW t, Running(t)'
        PROVE  Running(t) \/ (task.of \notin Filtered /\ t = ReadTask(task.of))
    BY <1>2, <2>1, <2>2, <2>3, <2>4 DEF Running
  <2>5. ASSUME NEW t, t # task \/ task.of \notin Filtered, Has(parsing, t) PROVE Has(parsing', t)
    BY <2>1, <2>2, <2>5
  <2>6. ASSUME NEW f \in Files \ Filtered
        PROVE  /\ ReadTask(f) # task \/ task.of \notin Filtered
               /\ StoreTask(f, disk[f]) # task
    BY <2>3, TaskKinds
  <2>7. IsQueue(parsing', ReadTasks)
    BY <2>1, <2>2
  <2>8. \A f \in Files \ Filtered :
             Has(parsing, ReadTask(f)) \/ Has(parsing, StoreTask(f, disk[f])) =>
               Has(parsing', ReadTask(f)) \/ Has(parsing', StoreTask(f, disk[f]))
    BY <2>5, <2>6
  <2>9. \A t : Running(t)' => Running(t) \/ \E f \in Files \ Filtered : t \in {ReadTask(f), StoreTask(f, disk[f])}
    BY <2>3, <2>4
  <2>10. QED
    BY <1>1, <1>2, <2>7, <2>8, <2>9, QueuesKeep
<1>4. CASE \E f \in Files : ParseRead(f)
  <2>1. PICK g \in Files : ParseRead(g)
    BY <1>4
  <2> DEFINE old == ReadTask(g)
             new == StoreTask(g, disk[g])
  <2>2. BagIn(old, parsing.running) /\ parsing' = [parsing EXCEPT !.running = Replaced(@, old, new)]
    BY <2>1 DEF ParseRead
  <2>3. g \notin Filtered
    BY <1>1, <2>2 DEF Seen, Running
  <2> HIDE DEF old, new
  <2>4. /\ IsQueue(parsing', ReadTasks)
        /\ \A t : BagIn(t, parsing'.running) => BagIn(t, parsing.running) \/ t = new
        /\ \A t : Has(parsing, t) => Has(parsing', t) \/ t = old
        /\ Has(parsing', new)
    <3>1. parsing' = WithNext(parsing, old, new)
      BY <2>2 DEF WithNext
    <3>2. QED
      BY <1>1, <3>1, QueueRan
  <2>5. ASSUME NEW t, Running(t)' PROVE Running(t) \/ t = StoreTask(g, disk[g])
    BY <1>2, <2>4, <2>5 DEF Running, new
  <2>6. \A t : Running(t)' => Running(t) \/ \E f \in Files \ Filtered : t \in {ReadTask(f), StoreTask(f, disk[f])}
    BY <2>3, <2>5
  <2>7. ASSUME NEW f \in Files \ Filtered,
               Has(parsing, ReadTask(f)) \/ Has(parsing, StoreTask(f, disk[f]))
        PROVE  Has(parsing', ReadTask(f)) \/ Has(parsing', StoreTask(f, disk[f]))
    <3>1. StoreTask(f, disk[f]) # old /\ (ReadTask(f) = old => f = g)
      BY TaskKinds DEF old
    <3>2. QED
      BY <2>4, <2>7, <3>1 DEF new
  <2>8. QED
    BY <1>1, <1>2, <2>4, <2>6, <2>7, QueuesKeep
<1>5. QED
  BY <1>3, <1>4

LEMMA ParseStoreKeeps ==
    ASSUME LocateInv, NEW g \in Files, NEW c, ParseStore(g, c) PROVE LocateInv'
<1> DEFINE task == StoreTask(g, c)
<1>1. /\ IsQueue(parsing, ReadTasks) /\ BagIn(task, parsing.running) /\ Tell(g, c)
      /\ parsing' = [parsing EXCEPT !.running = @ (-) SetToBag({task})]
      /\ UNCHANGED <<disk, barred, events, walking, strays, walked, since>>
      /\ \A f \in Files : Seen(f) /\ Stored(f) /\ Followed(f) /\ Reached(f)
  BY DEF ParseStore, LocateInv, LocateTypes
<1>2. c \in Changed /\ Known(g, c) /\ g \notin Filtered
  BY <1>1 DEF Seen, Running
<1>3. /\ tree' \in [Files -> Told] /\ learned' \in [Files -> Int]
      /\ \A f \in Files : Stored(f)' /\ (learned[f] = disk[f].at => learned'[f] = disk[f].at)
      /\ c = disk[g] => learned'[g] = disk[g].at
  BY <1>1, <1>2, ToldKeeps
<1>4. /\ IsQueue(parsing', ReadTasks)
      /\ \A t : BagIn(t, parsing'.running) => BagIn(t, parsing.running)
      /\ \A t : Has(parsing, t) => Has(parsing', t) \/ t = task
  <2> HIDE DEF task
  <2>1. parsing' = WithEnd(parsing, task)
    BY <1>1 DEF WithEnd
  <2>2. IsQueue(parsing, ReadTasks)
    BY <1>1
  <2>3. QED
    BY <2>1, <2>2, QueueEnded
<1>5. LocateTypes'
  BY <1>1, <1>3, <1>4 DEF LocateInv, LocateTypes
<1>6. ASSUME NEW f \in Files PROVE Seen(f)' /\ Stored(f)' /\ Followed(f)' /\ Reached(f)'
  <2>1. \A t : Running(t)' => Running(t)
    BY <1>1, <1>4 DEF Running
  <2>2. Seen(f)'
    BY <1>1, <2>1 DEF Seen, Known
  <2>3. Followed(f)'
    <3>1. ReadTask(f) # task /\ (StoreTask(f, disk[f]) = task => f = g /\ c = disk[f])
      BY TaskKinds
    <3> HIDE DEF task
    <3>2. QED
      BY <1>1, <1>3, <1>4, <3>1 DEF Followed
  <2>4. Reached(f)'
    BY <1>1, <1>3, ReachedKept
  <2>5. QED
    BY <1>3, <2>2, <2>3, <2>4
<1>7. QED
  BY <1>5, <1>6 DEF LocateInv

\* A task of the walk is over.
LEMMA TaskOver ==
    ASSUME LocateInv, NEW task, NEW ts \in Seq(DirNodeTasks), Over(task, ts)
    PROVE  /\ IsQueue(walking', DirNodeTasks) /\ IsABag(strays')
           /\ walked' \in BOOLEAN /\ (Idle(walking') => walked') /\ (walked' => walked \/ Idle(walking'))
           /\ BagIn(task, walking.running) \/ BagIn(task, strays)
           /\ \A t : BagIn(t, walking'.running) \/ BagIn(t, strays') =>
                       BagIn(t, walking.running) \/ BagIn(t, strays)
           /\ \A t : Has(walking, t) => t = task \/ Has(walking', t)
           /\ \A i \in 1 .. Len(ts) : ts[i] = task \/ Has(walking', ts[i])
<1>1. /\ IsQueue(walking, DirNodeTasks) /\ IsABag(strays)
      /\ walked \in BOOLEAN /\ (Idle(walking) => walked)
  BY DEF LocateInv, LocateTypes
<1> DEFINE pushed == Pushed(walking, ts)
<1>2. /\ IsQueue(pushed, DirNodeTasks)
      /\ pushed = [tasks |-> walking.tasks \o ts, running |-> walking.running]
      /\ \A t : Has(walking, t) => Has(pushed, t)
      /\ \A i \in 1 .. Len(ts) : Has(pushed, ts[i])
  BY <1>1, QueuePushed
<1>3. /\ Len(walking.tasks \o ts) = Len(walking.tasks) + Len(ts)
      /\ Len(walking.tasks) \in Nat /\ Len(ts) \in Nat
  BY <1>1, ConcatProperties, LenProperties DEF IsQueue
<1>4. CASE /\ BagIn(task, walking.running)
           /\ walking' = [pushed EXCEPT !.running = @ (-) SetToBag({task})]
           /\ Drain
           /\ UNCHANGED strays
  <2> HIDE DEF pushed
  <2>1. /\ IsQueue(walking', DirNodeTasks)
        /\ \A t : BagIn(t, walking'.running) => BagIn(t, pushed.running)
        /\ \A t : Has(pushed, t) => Has(walking', t) \/ t = task
    <3>1. walking' = WithEnd(pushed, task)
      BY <1>4 DEF WithEnd
    <3>2. IsQueue(pushed, DirNodeTasks)
      BY <1>2
    <3>3. QED
      BY <3>1, <3>2, QueueEnded
  <2>2. walked' = IF Idle(walking') THEN TRUE ELSE walked
    BY <1>4 DEF Drain
  <2>3. walked' \in BOOLEAN /\ (Idle(walking') => walked') /\ (walked' => walked \/ Idle(walking'))
    BY <1>1, <2>2, Zenon
  <2>4. pushed.running = walking.running
    BY <1>2
  <2>5. QED
    BY <1>1, <1>2, <1>4, <2>1, <2>3, <2>4
<1>5. CASE /\ BagIn(task, strays)
           /\ strays' = strays (-) SetToBag({task})
           /\ walking' = pushed
           /\ UNCHANGED walked
  <2>1. IsABag(strays') /\ \A t : BagIn(t, strays') => BagIn(t, strays)
    BY <1>1, <1>5, BagRemoved
  <2>2. Idle(pushed) => Idle(walking)
    <3>1. ASSUME Idle(pushed) PROVE Len(walking.tasks) = 0 /\ walking.running = EmptyBag
      <4>1. walking.tasks \o ts = <<>> /\ walking.running = EmptyBag
        BY <1>2, <3>1 DEF Idle
      <4>2. Len(walking.tasks \o ts) = 0
        BY <4>1
      <4>3. QED
        BY <1>3, <4>1, <4>2
    <3>2. QED
      BY <1>1, <3>1, EmptySeq DEF Idle, IsQueue
  <2>3. pushed.running = walking.running
    BY <1>2
  <2> HIDE DEF pushed
  <2>4. QED
    BY <1>1, <1>2, <1>5, <2>1, <2>2, <2>3
<1>6. QED
  BY <1>4, <1>5 DEF Over

\* A task of the walk goes on.
LEMMA TaskOn ==
    ASSUME LocateInv, NEW task, NEW new, On(task, new)
    PROVE  /\ IsQueue(walking', DirNodeTasks) /\ IsABag(strays')
           /\ walked' = walked /\ (Idle(walking') => walked')
           /\ BagIn(task, walking.running) \/ BagIn(task, strays)
           /\ \A t : BagIn(t, walking'.running) \/ BagIn(t, strays') =>
                       BagIn(t, walking.running) \/ BagIn(t, strays) \/ t = new
           /\ \A t : Has(walking, t) => Has(walking', t) \/ (t = task /\ Has(walking', new))
<1>1. /\ IsQueue(walking, DirNodeTasks) /\ IsABag(strays)
      /\ walked \in BOOLEAN /\ (Idle(walking) => walked)
  BY DEF LocateInv, LocateTypes
<1>2. walked' = walked
  BY DEF On
<1>3. CASE /\ BagIn(task, walking.running)
           /\ walking' = [walking EXCEPT !.running = Replaced(@, task, new)]
           /\ UNCHANGED strays
  <2>1. /\ IsQueue(walking', DirNodeTasks)
        /\ \A t : BagIn(t, walking'.running) => BagIn(t, walking.running) \/ t = new
        /\ \A t : Has(walking, t) => Has(walking', t) \/ t = task
        /\ Has(walking', new)
    <3>1. walking' = WithNext(walking, task, new)
      BY <1>3 DEF WithNext
    <3>2. QED
      BY <1>1, <3>1, QueueRan
  <2>2. ~Idle(walking')
    BY <2>1, IdleHasNone
  <2>3. QED
    BY <1>1, <1>2, <1>3, <2>1, <2>2
<1>4. CASE /\ BagIn(task, strays)
           /\ strays' = Replaced(strays, task, new)
           /\ UNCHANGED walking
  <2>1. IsABag(strays') /\ \A t : BagIn(t, strays') => BagIn(t, strays) \/ t = new
    BY <1>1, <1>4, BagReplaced
  <2>2. Idle(walking') => walked'
    BY <1>1, <1>2, <1>4
  <2>3. QED
    BY <1>1, <1>2, <1>4, <2>1, <2>2
<1>5. QED
  BY <1>3, <1>4 DEF On

\* A listing in any order names every entry.
LEMMA ListedAll ==
    ASSUME NEW S, IsFiniteSet(S), NEW names \in SetToSeqs(S)
    PROVE  /\ names \in [1 .. Cardinality(S) -> S] /\ Cardinality(S) \in Nat
           /\ \A x \in S : \E i \in 1 .. Cardinality(S) : names[i] = x
<1> DEFINE D == 1 .. Cardinality(S)
<1>1. names \in [D -> S] /\ \A i, j \in D : i # j => names[i] # names[j]
  BY DEF SetToSeqs
<1>2. Cardinality(S) \in Nat
  BY FS_CardinalityType
<1>3. Cardinality(D) = Cardinality(S)
  BY <1>2, FS_Interval
<1>4. names \in Injection(D, S)
  BY <1>1 DEF Injection, IsInjective
<1>5. names \in Surjection(D, S)
  BY <1>3, <1>4, FS_Injection
<1>6. QED
  BY <1>1, <1>2, <1>5 DEF Surjection

LEMMA WalkStartKeeps == ASSUME LocateInv, WalkStart PROVE LocateInv'
<1>1. /\ IsQueue(parsing, ReadTasks) /\ IsQueue(walking, DirNodeTasks) /\ IsABag(strays)
      /\ walked \in BOOLEAN
  BY DEF LocateInv, LocateTypes
<1>2. /\ walking.tasks # <<>> /\ walking' = Started(walking)
      /\ UNCHANGED <<disk, barred, events, tree, learned, parsing, strays, walked, since>>
  BY DEF WalkStart, CanStart
<1> DEFINE task == Head(walking.tasks)
<1>3. /\ IsQueue(walking', DirNodeTasks) /\ task \in DirNodeTasks
      /\ \A t : Has(walking, t) => Has(walking', t)
      /\ \A t : BagIn(t, walking'.running) => BagIn(t, walking.running) \/ t = task
      /\ BagIn(task, walking'.running)
  BY <1>1, <1>2, QueueStarted
<1> HIDE DEF task
<1>4. ~Idle(walking')
  BY <1>3, IdleHasNone DEF Has
<1>5. \A t : Running(t)' => Running(t) \/ t \in DirNodeTasks
  BY <1>2, <1>3 DEF Running
<1>6. QED
  BY <1>1, <1>2, <1>3, <1>4, <1>5, QueuesKeep

\* A task of the walk that tells nothing: it is over and pushes others, or goes on.
LEMMA WalkTaskKeeps ==
    ASSUME LocateInv, UNCHANGED <<disk, barred, events, tree, learned, parsing, since>>, NEW task,
           \/ \E ts \in Seq(DirNodeTasks) :
                /\ Over(task, ts)
                /\ \A f \in Files : Findable(f) /\ task \in LeadingTo(f) =>
                     \E i \in 1 .. Len(ts) : ts[i] # task /\ ts[i] \in LeadingTo(f)
           \/ \E new :
                /\ On(task, new)
                /\ \E f \in Files \ Filtered : new \in {ReadTask(f), StoreTask(f, disk[f])}
                /\ \A f \in Files : Findable(f) /\ task \in LeadingTo(f) => new \in LeadingTo(f)
    PROVE  LocateInv'
<1>1. IsQueue(parsing', ReadTasks) /\ walked \in BOOLEAN
  BY DEF LocateInv, LocateTypes
<1>2. ASSUME NEW ts \in Seq(DirNodeTasks), Over(task, ts),
             \A f \in Files : Findable(f) /\ task \in LeadingTo(f) =>
               \E i \in 1 .. Len(ts) : ts[i] # task /\ ts[i] \in LeadingTo(f)
      PROVE  LocateInv'
  <2>1. /\ IsQueue(walking', DirNodeTasks) /\ IsABag(strays')
        /\ walked' \in BOOLEAN /\ (Idle(walking') => walked') /\ (walked' => walked \/ Idle(walking'))
        /\ \A t : BagIn(t, walking'.running) \/ BagIn(t, strays') =>
                    BagIn(t, walking.running) \/ BagIn(t, strays)
        /\ \A t : Has(walking, t) => t = task \/ Has(walking', t)
        /\ \A i \in 1 .. Len(ts) : ts[i] = task \/ Has(walking', ts[i])
    BY <1>2, TaskOver
  <2>2. \A t : Running(t)' => Running(t)
    BY <2>1 DEF Running
  <2>3. ASSUME NEW f \in Files, Findable(f), NEW t \in LeadingTo(f), Has(walking, t)
        PROVE  \E u \in LeadingTo(f) : Has(walking', u)
    <3>1. CASE t = task
      <4>1. PICK i \in 1 .. Len(ts) : ts[i] # task /\ ts[i] \in LeadingTo(f)
        BY <1>2, <2>3, <3>1
      <4>2. QED
        BY <2>1, <4>1
    <3>2. CASE t # task
      BY <2>1, <2>3, <3>2
    <3>3. QED
      BY <3>1, <3>2
  <2>4. QED
    BY <1>1, <2>1, <2>2, <2>3, QueuesKeep
<1>3. ASSUME NEW new, On(task, new),
             \E f \in Files \ Filtered : new \in {ReadTask(f), StoreTask(f, disk[f])},
             \A f \in Files : Findable(f) /\ task \in LeadingTo(f) => new \in LeadingTo(f)
      PROVE  LocateInv'
  <2>1. /\ IsQueue(walking', DirNodeTasks) /\ IsABag(strays')
        /\ walked' = walked /\ (Idle(walking') => walked')
        /\ \A t : BagIn(t, walking'.running) \/ BagIn(t, strays') =>
                    BagIn(t, walking.running) \/ BagIn(t, strays) \/ t = new
        /\ \A t : Has(walking, t) => Has(walking', t) \/ (t = task /\ Has(walking', new))
    BY <1>3, TaskOn
  <2>2. \A t : Running(t)' => Running(t) \/ t = new
    BY <2>1 DEF Running
  <2>3. \A t : Running(t)' => Running(t) \/ \E f \in Files \ Filtered : t \in {ReadTask(f), StoreTask(f, disk[f])}
    BY <1>3, <2>2
  <2>4. \A f \in Files : Findable(f) =>
          \A t \in LeadingTo(f) : Has(walking, t) => \E u \in LeadingTo(f) : Has(walking', u)
    BY <1>3, <2>1
  <2>5. QED
    BY <1>1, <2>1, <2>3, <2>4, QueuesKeep
<1>4. QED
  BY <1>2, <1>3

LEMMA WalkDirKeeps == ASSUME LocateInv, NEW dir \in {"root", "sub"}, WalkDir(dir) PROVE LocateInv'
<1> DEFINE L == Listing(dir)
           task == DirTask(dir)
<1>1. PICK names \in SetToSeqs(L) : Over(task, [i \in DOMAIN names |-> NodeTask(names[i])])
  BY DEF WalkDir
<1>2. L \subseteq Files \cup {"sub"} /\ IsFiniteSet(L)
  <2>1. L \subseteq Files \cup {"sub"}
    BY FilesAssumption DEF Listing, InDir
  <2>2. IsFiniteSet(Files \cup {"sub"})
    BY FilesAssumption, FS_AddElement
  <2>3. QED
    BY <2>1, <2>2, FS_Subset
<1> DEFINE n == Cardinality(L)
           ts == [i \in DOMAIN names |-> NodeTask(names[i])]
<1>3. /\ names \in [1 .. n -> L] /\ n \in Nat
      /\ \A x \in L : \E i \in 1 .. n : names[i] = x
  BY <1>2, ListedAll
<1>4. ASSUME NEW f \in Files, Findable(f), task \in LeadingTo(f)
      PROVE  \E x \in L : NodeTask(x) \in LeadingTo(f)
  <2>1. disk[f].is # "gone" /\ (f \in Nested => barred = "no")
    BY <1>4 DEF Findable, Barred
  <2>2. NodeTask(f) \in LeadingTo(f)
    BY DEF LeadingTo
  <2>3. CASE dir = "root"
    <3>1. CASE f \in Nested
      <4>1. "sub" \in L /\ NodeTask("sub") \in LeadingTo(f)
        BY <2>3, <3>1 DEF Listing, LeadingTo
      <4>2. QED
        BY <4>1
    <3>2. CASE f \notin Nested
      <4>1. f \in L
        BY <2>1, <2>3, <3>2 DEF Listing, InDir
      <4>2. QED
        BY <2>2, <4>1
    <3>3. QED
      BY <3>1, <3>2
  <2>4. CASE dir = "sub"
    <3>1. "sub" # "root"
      OBVIOUS
    <3>2. DirTask("sub") \notin {DirTask("root"), NodeTask(f), ReadTask(f), StoreTask(f, disk[f])}
      BY <3>1, TaskKinds
    <3>3. f \in Nested
      BY <1>4, <2>4, <3>2 DEF LeadingTo
    <3>4. f \in L
      BY <2>1, <2>4, <3>3 DEF Listing, InDir
    <3>5. QED
      BY <2>2, <3>4
  <2>5. QED
    BY <2>3, <2>4
<1> HIDE DEF L, n
<1>5. /\ ts \in Seq(DirNodeTasks) /\ Len(ts) = n
      /\ \A i \in 1 .. n : ts[i] = NodeTask(names[i])
  <2>1. DOMAIN names = 1 .. n
    BY <1>3
  <2>2. \A i \in 1 .. n : NodeTask(names[i]) \in DirNodeTasks
    BY <1>2, <1>3 DEF NodeTask, DirNodeTasks
  <2>3. QED
    BY <1>3, <2>1, <2>2
<1> HIDE DEF ts
<1>6. ASSUME NEW f \in Files, Findable(f), task \in LeadingTo(f)
      PROVE  \E i \in 1 .. Len(ts) : ts[i] # task /\ ts[i] \in LeadingTo(f)
  <2>1. PICK x \in L : NodeTask(x) \in LeadingTo(f)
    BY <1>4, <1>6
  <2>2. PICK i \in 1 .. n : names[i] = x
    BY <1>3
  <2>3. NodeTask(x) # task
    BY TaskKinds
  <2>4. QED
    BY <1>5, <2>1, <2>2, <2>3
<1>7. Over(task, ts)
  BY <1>1 DEF ts
<1>8. UNCHANGED <<disk, barred, events, tree, learned, parsing, since>>
  BY DEF WalkDir
<1> HIDE DEF task
<1>9. QED
  BY <1>5, <1>6, <1>7, <1>8, WalkTaskKeeps

LEMMA WalkNodeKeeps == ASSUME LocateInv, NEW name \in Files \cup {"sub"}, WalkNode(name) PROVE LocateInv'
<1>1. UNCHANGED <<disk, barred, events, tree, learned, parsing, since>>
  BY DEF WalkNode
<1> DEFINE task == NodeTask(name)
<1>2. CASE name = "sub" /\ barred = "excluded"
  <2>1. Over(task, <<>>)
    BY <1>2, FilesAssumption DEF WalkNode
  <2>2. ASSUME NEW f \in Files, Findable(f), task \in LeadingTo(f) PROVE FALSE
    <3>1. f # "sub"
      BY FilesAssumption
    <3>2. task \notin {DirTask("root"), NodeTask(f), ReadTask(f), StoreTask(f, disk[f])}
      BY <1>2, <3>1, TaskKinds
    <3>3. f \in Nested
      BY <2>2, <3>2 DEF LeadingTo
    <3>4. QED
      BY <1>2, <2>2, <3>3 DEF Findable, Barred
  <2>3. <<>> \in Seq(DirNodeTasks)
    OBVIOUS
  <2> HIDE DEF task
  <2>4. QED
    BY <1>1, <2>1, <2>2, <2>3, WalkTaskKeeps
<1>3. CASE name = "sub" /\ barred # "excluded"
  <2> DEFINE ts == <<DirTask("sub")>>
  <2>1. Over(task, ts)
    BY <1>3, FilesAssumption DEF WalkNode
  <2>2. DirTask("sub") \in DirNodeTasks
    BY DEF DirTask, DirNodeTasks
  <2>3. ts \in Seq(DirNodeTasks) /\ 1 \in 1 .. Len(ts) /\ ts[1] = DirTask("sub")
    BY <2>2
  <2>4. ASSUME NEW f \in Files, Findable(f), task \in LeadingTo(f)
        PROVE  DirTask("sub") # task /\ DirTask("sub") \in LeadingTo(f)
    <3>1. f # "sub"
      BY FilesAssumption
    <3>2. task \notin {DirTask("root"), NodeTask(f), ReadTask(f), StoreTask(f, disk[f])}
      BY <1>3, <3>1, TaskKinds
    <3>3. f \in Nested
      BY <2>4, <3>2 DEF LeadingTo
    <3>4. QED
      BY <3>3, TaskKinds DEF LeadingTo
  <2> HIDE DEF ts, task
  <2>5. ASSUME NEW f \in Files, Findable(f), task \in LeadingTo(f)
        PROVE  \E i \in 1 .. Len(ts) : ts[i] # task /\ ts[i] \in LeadingTo(f)
    BY <2>3, <2>4, <2>5
  <2>6. QED
    BY <1>1, <2>1, <2>3, <2>5, WalkTaskKeeps
<1>4. CASE name # "sub" /\ disk[name].is # "gone" /\ name \notin Filtered
  <2>1. name \in Files \ Filtered /\ On(task, ReadTask(name))
    BY <1>4 DEF WalkNode
  <2>2. ASSUME NEW f \in Files, task \in LeadingTo(f) PROVE ReadTask(name) \in LeadingTo(f)
    <3>1. f = name
      BY <1>4, <2>2, TaskKinds DEF LeadingTo
    <3>2. QED
      BY <3>1 DEF LeadingTo
  <2>3. \E f \in Files \ Filtered : ReadTask(name) \in {ReadTask(f), StoreTask(f, disk[f])}
    BY <2>1
  <2> HIDE DEF task
  <2>4. QED
    BY <1>1, <2>1, <2>2, <2>3, WalkTaskKeeps
<1>5. CASE name # "sub" /\ ~(disk[name].is # "gone" /\ name \notin Filtered)
  <2>1. name \in Files /\ Over(task, <<>>)
    BY <1>5 DEF WalkNode
  <2>2. ASSUME NEW f \in Files, Findable(f), task \in LeadingTo(f) PROVE FALSE
    <3>1. f = name
      BY <1>5, <2>2, TaskKinds DEF LeadingTo
    <3>2. QED
      BY <1>5, <2>2, <3>1 DEF Findable
  <2>3. <<>> \in Seq(DirNodeTasks)
    OBVIOUS
  <2> HIDE DEF task
  <2>4. QED
    BY <1>1, <2>1, <2>2, <2>3, WalkTaskKeeps
<1>6. QED
  BY <1>2, <1>3, <1>4, <1>5

LEMMA WalkReadKeeps == ASSUME LocateInv, NEW g \in Files, WalkRead(g) PROVE LocateInv'
<1> DEFINE task == ReadTask(g)
           new == StoreTask(g, disk[g])
<1>1. On(task, new) /\ UNCHANGED <<disk, barred, events, tree, learned, parsing, since>>
  BY DEF WalkRead
<1>2. Running(ReadTask(g))
  BY <1>1, TaskOn DEF Running
<1>3. g \in Files \ Filtered /\ new \in {ReadTask(g), StoreTask(g, disk[g])}
  BY <1>2 DEF LocateInv, Seen
<1>4. ASSUME NEW f \in Files, task \in LeadingTo(f) PROVE new \in LeadingTo(f)
  <2>1. f = g
    BY <1>4, TaskKinds DEF LeadingTo
  <2>2. QED
    BY <2>1 DEF LeadingTo
<1> HIDE DEF task, new
<1>5. QED
  BY <1>1, <1>3, <1>4, WalkTaskKeeps

LEMMA WalkStoreKeeps == ASSUME LocateInv, NEW g \in Files, NEW c, WalkStore(g, c) PROVE LocateInv'
<1> DEFINE task == StoreTask(g, c)
<1>1. /\ Over(task, <<>>) /\ Tell(g, c) /\ UNCHANGED <<disk, barred, events, parsing, since>>
      /\ \A f \in Files : Seen(f) /\ Stored(f) /\ Followed(f) /\ Reached(f)
  BY DEF WalkStore, LocateInv
<1>2. <<>> \in Seq(DirNodeTasks)
  OBVIOUS
<1>3. /\ IsQueue(walking', DirNodeTasks) /\ IsABag(strays')
      /\ walked' \in BOOLEAN /\ (Idle(walking') => walked') /\ (walked' => walked \/ Idle(walking'))
      /\ BagIn(task, walking.running) \/ BagIn(task, strays)
      /\ \A t : BagIn(t, walking'.running) \/ BagIn(t, strays') =>
                  BagIn(t, walking.running) \/ BagIn(t, strays)
      /\ \A t : Has(walking, t) => t = task \/ Has(walking', t)
  BY <1>1, <1>2, TaskOver
<1>4. c \in Changed /\ Known(g, c) /\ g \notin Filtered
  BY <1>1, <1>3 DEF Seen, Running
<1>5. /\ tree' \in [Files -> Told] /\ learned' \in [Files -> Int]
      /\ \A f \in Files : Stored(f)' /\ (learned[f] = disk[f].at => learned'[f] = disk[f].at)
      /\ c = disk[g] => learned'[g] = disk[g].at
  BY <1>1, <1>4, ToldKeeps
<1>6. LocateTypes'
  BY <1>1, <1>3, <1>5 DEF LocateInv, LocateTypes
<1>7. ASSUME NEW f \in Files PROVE Seen(f)' /\ Stored(f)' /\ Followed(f)' /\ Reached(f)'
  <2>1. \A t : Running(t)' => Running(t)
    BY <1>1, <1>3 DEF Running
  <2>2. Seen(f)'
    BY <1>1, <2>1 DEF Seen, Known
  <2>3. Followed(f)'
    BY <1>1, <1>5 DEF Followed
  <2>4. Reached(f)'
    <3>1. task \in LeadingTo(f) => f = g /\ c = disk[g]
      BY TaskKinds DEF LeadingTo
    <3> HIDE DEF task
    <3>2. \A t \in LeadingTo(f) : Has(walking, t) =>
            learned'[f] = disk[f].at \/ \E u \in LeadingTo(f) : Has(walking', u)
      BY <1>3, <1>5, <3>1
    <3>3. QED
      BY <1>1, <1>3, <1>5, <3>2, ReachedKept
  <2>5. QED
    BY <1>5, <2>2, <2>3, <2>4
<1>8. QED
  BY <1>6, <1>7 DEF LocateInv

\* A new walk starts at the root, while the tasks of the old one run on.
LEMMA WalkKeeps == ASSUME LocateInv, Walk PROVE LocateInv'
<1>1. /\ walking' = [EmptyQueue EXCEPT !.tasks = <<DirTask("root")>>]
      /\ strays' = strays (+) walking.running /\ walked' = FALSE /\ since' = disk
      /\ UNCHANGED <<disk, barred, events, tree, learned, parsing>>
  BY DEF Walk
<1>2. /\ IsQueue(walking, DirNodeTasks) /\ IsABag(strays) /\ disk \in [Files -> Changed]
      /\ \A f \in Files : Seen(f) /\ Stored(f) /\ Followed(f)
  BY DEF LocateInv, LocateTypes
<1>3. /\ IsABag(strays')
      /\ \A t : BagIn(t, strays') <=> BagIn(t, strays) \/ BagIn(t, walking.running)
  BY <1>1, <1>2, BagsJoined DEF IsQueue
<1>4. /\ IsQueue(walking', DirNodeTasks) /\ Has(walking', DirTask("root"))
      /\ \A t : ~BagIn(t, walking'.running)
  <2>1. walking' = [tasks |-> <<DirTask("root")>>, running |-> EmptyBag]
    BY <1>1 DEF EmptyQueue
  <2>2. DirTask("root") \in DirNodeTasks
    BY DEF DirTask, DirNodeTasks
  <2>3. /\ <<DirTask("root")>> \in Seq(DirNodeTasks) /\ Len(<<DirTask("root")>>) = 1
        /\ <<DirTask("root")>>[1] = DirTask("root")
    BY <2>2
  <2>4. QED
    BY <2>1, <2>3, BagOfNone DEF IsQueue, Has
<1>5. ~Idle(walking')
  BY <1>4, IdleHasNone
<1>6. LocateTypes'
  BY <1>1, <1>3, <1>4, <1>5 DEF LocateInv, LocateTypes
<1>7. ASSUME NEW f \in Files PROVE Seen(f)' /\ Stored(f)' /\ Followed(f)' /\ Reached(f)'
  <2>1. \A t : Running(t)' => Running(t)
    BY <1>1, <1>3, <1>4 DEF Running
  <2>2. Known(f, disk[f])
    BY <1>2 DEF Known, Changed
  <2>3. Seen(f)'
    BY <1>1, <1>2, <2>1, <2>2 DEF Seen, Known
  <2>4. Stored(f)' /\ Followed(f)'
    BY <1>1, <1>2 DEF Stored, Known, Followed
  <2>5. DirTask("root") \in LeadingTo(f)'
    BY DEF LeadingTo
  <2>6. Reached(f)'
    BY <1>1, <1>4, <2>5 DEF Reached
  <2>7. QED
    BY <2>3, <2>4, <2>6
<1>8. QED
  BY <1>6, <1>7 DEF LocateInv

\* Every step of the index keeps the invariant.
LEMMA LocateKeeps == LocateInv /\ [LocateNext]_locateVars => LocateInv'
<1> SUFFICES ASSUME LocateInv, [LocateNext]_locateVars PROVE LocateInv'
  OBVIOUS
<1>1. ASSUME NEW g \in Files, Report(g) \/ \E state \in StatesOf(g) : Change(g, state) PROVE LocateInv'
  BY <1>1, ReportKeeps, ChangeKeeps DEF StatesOf, States
<1>2. CASE Parsing
  BY <1>2, ParseKeeps, ParseStoreKeeps DEF Parsing
<1>3. CASE Walking
  BY <1>3, WalkStartKeeps, WalkDirKeeps, WalkNodeKeeps, WalkReadKeeps, WalkStoreKeeps DEF Walking
<1>4. CASE Walk
  BY <1>4, WalkKeeps
<1>5. CASE Search \/ UNCHANGED locateVars
  <2>1. UNCHANGED <<disk, barred, events, tree, learned, parsing, walking, strays, walked, since>>
    BY <1>5 DEF Search, locateVars
  <2>2. LocateTypes'
    BY <2>1 DEF LocateInv, LocateTypes
  <2>3. ASSUME NEW f \in Files PROVE Seen(f)' /\ Stored(f)' /\ Followed(f)' /\ Reached(f)'
    <3>1. Seen(f) /\ Stored(f) /\ Followed(f) /\ Reached(f)
      BY DEF LocateInv
    <3>2. Seen(f)' /\ Stored(f)'
      BY <2>1, <3>1 DEF Seen, Known, Running, Stored
    <3>3. Followed(f)' /\ Reached(f)'
      BY <2>1, <3>1 DEF Followed, Reached, Findable, Barred, LeadingTo
    <3>4. QED
      BY <3>2, <3>3
  <2>4. QED
    BY <2>2, <2>3 DEF LocateInv
<1>6. QED
  BY <1>1, <1>2, <1>3, <1>4, <1>5 DEF LocateNext

-----------------------------------------------------------------------------
(* Theorems.                                                               *)

\* Type correctness of the rake tasks (rake.ts), for any number of changes.
THEOREM RakeTypeCorrect == Spec => []RakeTypeOK
<1>1. Init => RakeInv
  BY RakeStarts DEF Init
<1>2. [Next]_workspaceVars => [RakeNext]_rakeVars
  BY DEF Next, IndexStep, RakeStep, EnvironmentStep, FormatterStep, workspaceVars
<1>3. RakeInv /\ [Next]_workspaceVars => RakeInv'
  BY <1>2, RakeKeeps
<1>4. RakeInv => RakeTypeOK
  BY DEF RakeInv
<1>5. QED
  BY <1>1, <1>3, <1>4, PTL DEF Spec

\* Once every change is reported, the tasks are those of the Rakefile as it is,
\* however changes, events and the end of rake are ordered (rake.ts:17-34).
THEOREM TasksAlwaysFresh == Spec => []TasksFresh
<1>1. Init => RakeInv
  BY RakeStarts DEF Init
<1>2. [Next]_workspaceVars => [RakeNext]_rakeVars
  BY DEF Next, IndexStep, RakeStep, EnvironmentStep, FormatterStep, workspaceVars
<1>3. RakeInv /\ [Next]_workspaceVars => RakeInv'
  BY <1>2, RakeKeeps
<1>4. RakeInv => TasksFresh
  BY DEF RakeInv, PromiseFresh, Reported, Current, TasksFresh
<1>5. QED
  BY <1>1, <1>3, <1>4, PTL DEF Spec

\* Only a RuboCop that was killed can leave the document with half of a file
\* (RuboCop.ts:166-181).
THEOREM NeverEverCut == Spec => []NeverCut
<1>1. Init => CorrectInv
  BY CorrectStarts DEF Init
<1>2. [Next]_workspaceVars => [CorrectNext]_correctVars
  BY DEF Next, IndexStep, RakeStep, EnvironmentStep, FormatterStep, workspaceVars
<1>3. CorrectInv /\ [Next]_workspaceVars => CorrectInv'
  BY <1>2, CorrectKeeps
<1>4. CorrectInv => NeverCut
  BY DEF CorrectInv
<1>5. QED
  BY <1>1, <1>3, <1>4, PTL DEF Spec

\* A process that finds a shim in order, with nobody at work on it, reads what
\* the shell prints, whatever other processes do (environment.ts:70-82, 185-198).
THEOREM ShimAlwaysStays == Spec => [](ShimStays /\ SoundEnvironment)
<1>1. Init => EnvInv
  BY EnvStarts DEF Init
<1>2. [Next]_workspaceVars => [EnvNext]_envVars
  BY DEF Next, IndexStep, RakeStep, EnvironmentStep, FormatterStep, workspaceVars
<1>3. EnvInv /\ [Next]_workspaceVars => EnvInv'
  BY <1>2, EnvKeeps
<1>4. EnvInv => ShimStays /\ SoundEnvironment
  BY DEF EnvInv
<1>5. QED
  BY <1>1, <1>3, <1>4, PTL DEF Spec

\* Such a process gets the variables of the shell, for any number of processes,
\* variables and values (environment.ts:77, 91-105, 118).
THEOREM EnvironmentAlwaysOfShell == Spec => []EnvironmentOfShell
<1>1. Init => EnvInv /\ ReadableShell
  BY EnvStarts, ShellReadable DEF Init
<1>2. [Next]_workspaceVars => [EnvNext]_envVars
  BY DEF Next, IndexStep, RakeStep, EnvironmentStep, FormatterStep, workspaceVars
<1>3. EnvInv /\ ReadableShell /\ [Next]_workspaceVars => EnvInv' /\ ReadableShell'
  BY <1>2, EnvKeeps, ShellKept
<1>4. EnvInv /\ ReadableShell => EnvironmentOfShell
  BY EnvironmentRead DEF EnvInv
<1>5. QED
  BY <1>1, <1>3, <1>4, PTL DEF Spec

\* When nothing is under way, the tree has the symbols of every file as it is,
\* unless a task was overtaken, or the walk may not enter its directory
\* (locate.js:122-140, 174).
THEOREM IndexAlwaysFollows == Spec => []IndexFollows
<1>1. Init => LocateInv
  BY LocateStarts DEF Init
<1>2. [Next]_workspaceVars => [LocateNext]_locateVars
  BY DEF Next, IndexStep, RakeStep, EnvironmentStep, FormatterStep, workspaceVars
<1>3. LocateInv /\ [Next]_workspaceVars => LocateInv'
  BY <1>2, LocateKeeps
<1>4. QED
  BY <1>1, <1>3, InvIndexFollows, PTL DEF Spec

\* After a walk, also one that has replaced another, the tree has the present
\* symbols of every file that has not changed since it began, unless an older
\* reading of the file was stored last (locate.js:131, 142-152, 187).
THEOREM SearchesAlwaysComplete == Spec => []SearchesComplete
<1>1. Init => LocateInv
  BY LocateStarts DEF Init
<1>2. [Next]_workspaceVars => [LocateNext]_locateVars
  BY DEF Next, IndexStep, RakeStep, EnvironmentStep, FormatterStep, workspaceVars
<1>3. LocateInv /\ [Next]_workspaceVars => LocateInv'
  BY <1>2, LocateKeeps
<1>4. QED
  BY <1>1, <1>3, InvSearchesComplete, PTL DEF Spec
=============================================================================
