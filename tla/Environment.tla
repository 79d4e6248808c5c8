---------------------------- MODULE Environment ----------------------------
(***************************************************************************)
(* The variables that Ruby's tools are started with:                       *)
(* packages/vscode-ruby-common/src/environment.ts.                         *)
(*                                                                         *)
(* loadEnv runs an interactive shell through a script, the shim, which is  *)
(* made when it does not exist; several windows of the editor share it.    *)
(* What the shell prints is read line by line.  Steps of one process are   *)
(* synchronous; those of several interleave.                               *)
(*                                                                         *)
(* A text is a sequence of words, blanks, newlines, escapes (a backslash   *)
(* and an n) and names, each of which stands for the name and its "=".     *)
(* Values have no quotes of their own.                                     *)
(***************************************************************************)
EXTENDS Integers, SequencesExt, FiniteSetsExt

CONSTANTS Processes,   \* processes that load the environment
          Kept,        \* names of RUBY_ENVIRONMENT_VARIABLES
          Others,      \* other names
          Values,      \* the values a variable may have
          MaxVariables \* bound on the variables of the shell

VARIABLES shimDir,   \* the directory of the shim exists
          shell,     \* the variables of the shell, in the order it prints them
          quote,     \* the quotes it prints around values, or NoQuote
          shim,      \* "missing"; not executable: "empty", "whole";
                     \* executable: "hollow", "executable"
          phase,     \* per process: "start", "mkdir", "look", "create", "write",
                     \* "chmod", "run", "over"
          sound,     \* history, per process: it found a shim nobody else is making
          env        \* per process: the environment, Nothing, or Thrown

envVars == <<shimDir, shell, quote, shim, phase, sound, env>>

Newline == "newline"
Blank == "blank"
Word == "word"
Escape == "escape"
Double == "double"
Single == "single"
NoQuote == "none"

Names == Kept \cup Others
Written == UNION {ToSet(value) : value \in Values}
Characters == Written \cup Names \cup {Newline, Blank, Word, Double, Single}

ASSUME NamesAssumption ==
  /\ Kept \cap Others = {}
  /\ Names \cap {Newline, Blank, Word, Escape, Double, Single} = {}

ASSUME ValuesAssumption ==
  /\ Values \subseteq Seq(Characters)
  /\ \A value \in Values : ToSet(value) \cap {Double, Single} = {}

ASSUME VariablesAssumption == MaxVariables \in Nat

Nothing == [kind |-> "none"]
Thrown == [kind |-> "thrown"]
Loaded(vars) == [kind |-> "loaded", vars |-> vars]

Shells ==
  {s \in UNION {[1 .. n -> [name : Names, value : Values]] : n \in 0 .. MaxVariables} :
     \A i, j \in DOMAIN s : s[i].name = s[j].name => i = j}

EnvInit ==
  /\ shell \in Shells
  /\ quote \in {Double, Single, NoQuote}
  /\ shim \in {"missing", "executable"}
  /\ shimDir \in {f \in BOOLEAN : shim = "executable" => f}
  /\ phase = [p \in Processes |-> "start"]
  /\ sound = [p \in Processes |-> FALSE]
  /\ env = [p \in Processes |-> Nothing]

-----------------------------------------------------------------------------
(* The shell: the lines that `export` prints.                              *)
Quoted(text) == IF quote = NoQuote THEN text ELSE <<quote>> \o text \o <<quote>>

(* Shells that quote print a command ahead of the name.                    *)
Prefix == IF quote = NoQuote THEN <<>> ELSE <<Word, Blank>>

Printed(variable) ==
  Prefix \o <<variable.name>> \o Quoted(variable.value) \o <<Newline>>

Output ==
  LET printed[i \in 0 .. Len(shell)] ==
        IF i = 0 THEN <<>> ELSE printed[i - 1] \o Printed(shell[i])
  IN printed[Len(shell)]

-----------------------------------------------------------------------------
(* processExportLine: the key is the first name, with nothing but words    *)
(* and blanks ahead of it.                                                 *)
KeyAt(line) ==
  {i \in DOMAIN line :
     /\ line[i] \in Names
     /\ i = 1 \/ line[i - 1] = Blank
     /\ \A j \in 1 .. i - 1 : line[j] \notin Names \cup {Escape, Double, Single}}

Trimmed(text) ==
  LET solid == {i \in DOMAIN text : text[i] \notin {Blank, Newline}}
  IN IF solid = {} THEN <<>> ELSE SubSeq(text, Min(solid), Max(solid))

Leading(text) == text # <<>> /\ text[1] \in {Double, Single}
Trailing(text) == text # <<>> /\ text[Len(text)] \in {Double, Single}

Unquoted(text) ==
  SubSeq(text, IF Leading(text) THEN 2 ELSE 1, IF Trailing(text) THEN Len(text) - 1 ELSE Len(text))

Expanded(text) ==
  IF text # <<>> /\ text[1] = Double /\ text[Len(text)] = Double
    THEN [i \in DOMAIN text |-> IF text[i] = Escape THEN Newline ELSE text[i]]
    ELSE text

(* Mutant: replace without its g flag takes away the first quote only. *)
CleanedOnce(text) ==
  LET e == Expanded(text)
  IN Trimmed(IF Leading(e) THEN Tail(e) ELSE IF Trailing(e) THEN Front(e) ELSE e)

Cleaned(text) == Trimmed(Unquoted(Expanded(text)))

(* processEnvironment: the lines are the parts that end with a newline; of *)
(* two lines with the same key the later counts.                           *)
Breaks(text) == {b \in 1 .. Len(text) : text[b] = Newline}
Line(text, b) == SubSeq(text, Max({0} \cup {c \in Breaks(text) : c < b}) + 1, b - 1)

Key(line) == IF KeyAt(line) = {} THEN "" ELSE line[Min(KeyAt(line))]
Value(line) == Cleaned(SubSeq(line, Min(KeyAt(line)) + 1, Len(line)))

ProcessEnvironment(text) ==
  LET linesOf(name) == {b \in Breaks(text) : Key(Line(text, b)) = name}
  IN [name \in {n \in Kept : linesOf(n) # {}} |-> Value(Line(text, Max(linesOf(name))))]

-----------------------------------------------------------------------------
Go(p, to) == phase' = [phase EXCEPT ![p] = to]

(* getShim: existsSync and mkdirSync of the directory.  One that another   *)
(* process has made in between is an exception, which ends loadEnv.        *)
LookForShimDir(p) ==
  /\ phase[p] = "start"
  /\ Go(p, IF shimDir THEN "look" ELSE "mkdir")
  /\ UNCHANGED <<shimDir, shell, quote, shim, sound, env>>

MakeShimDir(p) ==
  /\ phase[p] = "mkdir"
  /\ shimDir' = TRUE
  /\ IF shimDir THEN Go(p, "over") /\ env' = [env EXCEPT ![p] = Thrown]
               ELSE Go(p, "look") /\ UNCHANGED env
  /\ UNCHANGED <<shell, quote, shim, sound>>

(* No process is making the shim.                                          *)
Untouched == \A p \in Processes : phase[p] \notin {"create", "write", "chmod"}

(* Mutant: the shim is made every time. *)
GetShimAlways(p) ==
  /\ phase[p] = "look"
  /\ Go(p, "create")
  /\ sound' = [sound EXCEPT ![p] = shim = "executable" /\ Untouched]
  /\ UNCHANGED <<shimDir, shell, quote, shim, env>>

(* getShim: existsSync does not tell a shim that is being made.            *)
GetShim(p) ==
  /\ phase[p] = "look"
  /\ Go(p, IF shim = "missing" THEN "create" ELSE "run")
  /\ sound' = [sound EXCEPT ![p] = shim = "executable" /\ Untouched]
  /\ UNCHANGED <<shimDir, shell, quote, shim, env>>

(* mkShim: writeFileSync empties or creates the file before it is written; *)
(* a file keeps its mode.  An error is logged, and the shim used as it is. *)
CreateShim(p) ==
  /\ phase[p] = "create"
  /\ \/ Go(p, "write") /\ shim' = IF shim \in {"executable", "hollow"} THEN "hollow" ELSE "empty"
     \/ Go(p, "run") /\ UNCHANGED shim
  /\ UNCHANGED <<shimDir, shell, quote, sound, env>>

WriteShim(p) ==
  /\ phase[p] = "write"
  /\ \/ /\ Go(p, "chmod")
        /\ shim' = IF shim \in {"executable", "hollow"} THEN "executable" ELSE "whole"
     \/ Go(p, "run") /\ UNCHANGED shim
  /\ UNCHANGED <<shimDir, shell, quote, sound, env>>

ChmodShim(p) ==
  /\ phase[p] = "chmod"
  /\ Go(p, "run")
  /\ shim' \in {shim, CASE shim \in {"empty", "hollow"} -> "hollow" [] OTHER -> "executable"}
  /\ UNCHANGED <<shimDir, shell, quote, sound, env>>

(* loadEnv: what cannot be executed has no output, which is an exception;  *)
(* an empty script prints nothing.                                         *)
RunShim(p) ==
  /\ phase[p] = "run"
  /\ Go(p, "over")
  /\ env' = [env EXCEPT ![p] =
               CASE shim = "executable" -> Loaded(ProcessEnvironment(Output))
                 [] shim = "hollow" -> Loaded(<<>>)
                 [] OTHER -> Thrown]
  /\ UNCHANGED <<shimDir, shell, quote, shim, sound>>

EnvNext ==
  \E p \in Processes :
    \/ LookForShimDir(p) \/ MakeShimDir(p)
    \/ GetShim(p) \/ CreateShim(p) \/ WriteShim(p) \/ ChmodShim(p) \/ RunShim(p)

EnvSpec == EnvInit /\ [][EnvNext]_envVars

-----------------------------------------------------------------------------
(* A value that takes several lines is read as several, which may set      *)
(* other variables; an escape between double quotes becomes a newline.     *)
OneLine(v) == Newline \notin ToSet(v.value)
Verbatim(v) == OneLine(v) /\ (quote = Double => Escape \notin ToSet(v.value))

(* A process that finds a shim that is in order, with nobody at work on    *)
(* it, gets the variables of the shell, whatever the others do meanwhile:  *)
(* every one that Ruby's tools need, with its value, as long as no value   *)
(* takes several lines, and no other (environment.ts:77, 91-105, 118).     *)
EnvironmentOfShell ==
  \A p \in Processes :
    sound[p] /\ phase[p] = "over" /\ (\A i \in DOMAIN shell : OneLine(shell[i])) =>
      /\ env[p] # Thrown
      /\ DOMAIN env[p].vars = {shell[i].name : i \in DOMAIN shell} \cap Kept
      /\ \A i \in DOMAIN shell :
           shell[i].name \in Kept /\ Verbatim(shell[i]) =>
             env[p].vars[shell[i].name] = Trimmed(shell[i].value)
=============================================================================
