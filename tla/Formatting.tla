----------------------------- MODULE Formatting -----------------------------
(***************************************************************************)
(* A request for formatting, from the editor to the answer:                *)
(* packages/language-server-ruby/src/Formatter.ts and src/formatters.      *)
(*                                                                         *)
(* The configuration and the environment are fetched first, then the text  *)
(* of the document is captured and given to the formatter's process.  When *)
(* its stream ends, the output received so far is compared with the text:  *)
(* FormatEdits models that; here the output is the number of its chunks.   *)
(*                                                                         *)
(* A linter's process uses Spawn in the same way, and is the only one that *)
(* is unsubscribed from: by the switchMap of LintPipeline.                 *)
(***************************************************************************)
EXTENDS Spawn

VARIABLES phase,      \* of the request: "config", "env", "process", "answered"
          formatter,  \* the one that is configured
          answer      \* None, Rejected, NoEdits, or edits made from some chunks

formatVars == <<spawnVars, phase, formatter, answer>>

(* rufo, rubyfmt and prettier use BaseFormatter's processing, standard     *)
(* that of rubocop; "unknown" is a name FORMATTER_MAP does not have.       *)
Formatters == {"none", "unknown", "rufo", "prettier", "rubocop", "linter"}

None == [kind |-> "none"]
Rejected == [kind |-> "error"]
NoEdits == [kind |-> "empty"]
EditsFrom(chunks) == [kind |-> "edits", chunks |-> chunks]

Answers == {None, Rejected, NoEdits} \cup {EditsFrom(n) : n \in 0 .. MaxChunks}

TypeOK ==
  /\ ProcessTypeOK
  /\ phase \in {"config", "env", "process", "answered"}
  /\ formatter \in Formatters
  /\ answer \in Answers

FormatInit ==
  /\ SpawnInit
  /\ phase = "config"
  /\ formatter = "none"
  /\ answer = None

-----------------------------------------------------------------------------
GotConfig(f) ==
  /\ phase = "config"
  /\ formatter' = f
  /\ phase' = "env"
  /\ UNCHANGED <<spawnVars, answer>>

(* The configuration, or the environment, cannot be fetched; or, with the  *)
(* environment, getFormatter fails: the name is not a constructor, there   *)
(* is no such document, or prettier's executable cannot be asked for.      *)
Reject ==
  /\ phase \in {"config", "env"} /\ formatter # "linter"
  /\ phase' = "answered"
  /\ answer' = Rejected
  /\ UNCHANGED <<spawnVars, formatter>>

(* getFormatter with nothing to format with.                               *)
AnswerAtOnce ==
  /\ phase = "env" /\ formatter = "none"
  /\ phase' = "answered"
  /\ answer' = NoEdits
  /\ UNCHANGED <<spawnVars, formatter>>

Start ==
  /\ phase = "env"
  /\ formatter \notin {"none", "unknown"}
  /\ phase' = "process"
  /\ Subscribe
  /\ UNCHANGED <<formatter, answer>>

(* Mutant: RuboCop takes any error for its list of offenses.               *)
AcceptedAny(end) == end = "complete" \/ formatter \in {"rubocop", "linter"}

(* processError: the ends of the stream after which the output counts.     *)
(* BaseLinter turns every error into an end.                               *)
Accepted(end) ==
  \/ end = "complete"
  \/ formatter = "rubocop" /\ end = "1"
  \/ formatter = "linter"

(* processResults: RuboCop's throws for an output without its delimiter.   *)
Results(end) ==
  IF Accepted(end)
    THEN {EditsFrom(got'["stdout"])} \cup {r \in {Rejected} : formatter = "rubocop"}
    ELSE {Rejected}

(* The end of the stream, the diff and the answer are one callback.        *)
Conclude ==
  IF sub = "open" /\ sub' # "open"
    THEN phase' = "answered" /\ answer' \in Results(sub')
    ELSE UNCHANGED <<phase, answer>>

ProcessStep ==
  /\ External \/ Callback
  /\ Conclude
  /\ UNCHANGED formatter

(* A later event of the switchMap; nobody is answered.                     *)
Superseded ==
  /\ formatter = "linter"
  /\ Unsubscribe
  /\ phase' = "answered"
  /\ UNCHANGED <<formatter, answer>>

FormatNext ==
  \/ \E f \in Formatters : GotConfig(f)
  \/ Reject \/ AnswerAtOnce \/ Start \/ ProcessStep \/ Superseded

(* The settings and the environment arrive, callbacks run, and the process *)
(* comes to an end and lets go of its pipes: the code sets no time limit.  *)
FormatFairness ==
  /\ WF_formatVars((\E f \in Formatters : GotConfig(f)) \/ Reject \/ AnswerAtOnce \/ Start)
  /\ WF_formatVars(Callback /\ Conclude /\ UNCHANGED formatter)
  /\ WF_formatVars((\E code \in Exited : Exit(code)) /\ Conclude /\ UNCHANGED formatter)
  /\ \A p \in Pipes : WF_formatVars(CloseEnd(p) /\ Conclude /\ UNCHANGED formatter)

FormatSpec == FormatInit /\ [][FormatNext]_formatVars

-----------------------------------------------------------------------------
(* Edits come from the whole output of a process that has let go of its    *)
(* pipes: an end the formatter accepts is never one that cut the output    *)
(* short, such as a broken input (RuboCop.ts:33, BaseFormatter.ts:72).  A  *)
(* linter takes what there is.                                             *)
EditsOfWholeOutput ==
  answer.kind = "edits" /\ formatter # "linter" =>
    \A p \in Pipes : ~open[p] /\ got[p] = written[p]

(* Every request is answered, with edits or an error, whatever becomes of  *)
(* the process: it fails to start, breaks its input, or ends by a signal.  *)
FormatSettles == <>(phase = "answered")
=============================================================================
