---------------------------- MODULE AutoCorrect ----------------------------
(***************************************************************************)
(* The formatter of the extension, for those who do not use the language   *)
(* server: packages/vscode-ruby-client/src/format/RuboCop.ts and           *)
(* rubyFormat.ts.                                                          *)
(*                                                                         *)
(* The text of the document is written to a file in a new folder, RuboCop  *)
(* corrects the file in place, and what is in it then replaces the whole   *)
(* document.  Requests have folders of their own: one stands for all.      *)
(***************************************************************************)
EXTENDS FiniteSets

CONSTANT Codes      \* exit codes of RuboCop other than "0", "1" and "null"

ASSUME CodesAssumption == {"none", "0", "1", "null", "running", "failed"} \cap Codes = {}

VARIABLES provider,   \* "testing", "registered" or "absent"
          stage,      \* of the request: "none", "folder", "file", "process", "read", "over"
          tmpfile,    \* "none", "cut" (half written), "text" or "corrected"
          rubo,       \* "none", "running", "failed", or the exit code
          reply       \* None, NoEdits, or Whole(what the document is replaced by)

correctVars == <<provider, stage, tmpfile, rubo, reply>>

Signal == "null"
Exits == Codes \cup {"0", "1", Signal}

None == [kind |-> "none"]
NoEdits == [kind |-> "empty"]
Whole(text) == [kind |-> "replace", text |-> text]

CorrectInit ==
  /\ provider = "testing"
  /\ stage = "none"
  /\ tmpfile = "none"
  /\ rubo = "none"
  /\ reply = None

(* register and test: `rubocop -v` has to start and to end with 0 or a     *)
(* signal.                                                                 *)
Test ==
  /\ provider = "testing"
  /\ \E exit \in Exits \cup {"failed"} :
       provider' = IF exit \in {"0", Signal} THEN "registered" ELSE "absent"
  /\ UNCHANGED <<stage, tmpfile, rubo, reply>>

Answer(r) == stage' = "over" /\ reply' = r

(* provideDocumentFormattingEdits; any rejection is an empty answer.       *)
Provide ==
  /\ provider = "registered"
  /\ stage = "none"
  /\ stage' = "folder"
  /\ UNCHANGED <<provider, tmpfile, rubo, reply>>

(* correct: mkdtemp, writeFile and spawn, any of which may fail.           *)
MakeFolder ==
  /\ stage = "folder"
  /\ \/ stage' = "file" /\ UNCHANGED reply
     \/ Answer(NoEdits)
  /\ UNCHANGED <<provider, tmpfile, rubo>>

WriteFile ==
  /\ stage = "file"
  /\ \/ stage' = "process" /\ tmpfile' = "text" /\ rubo' = "running" /\ UNCHANGED reply
     \/ stage' = "process" /\ tmpfile' = "text" /\ rubo' = "failed" /\ UNCHANGED reply
     \/ tmpfile' \in {"none", "cut"} /\ Answer(NoEdits) /\ UNCHANGED rubo
  /\ UNCHANGED provider

(* RuboCop rewrites the file; an exit that reports success or offenses     *)
(* comes after it.                                                         *)
Rewrite ==
  /\ rubo = "running"
  /\ \/ tmpfile = "text" /\ tmpfile' = "cut"
     \/ tmpfile = "cut" /\ tmpfile' = "corrected"
  /\ UNCHANGED <<provider, stage, rubo, reply>>

Exit(code) ==
  /\ rubo = "running"
  /\ code \in {"0", "1"} => tmpfile # "cut"
  /\ rubo' = code
  /\ UNCHANGED <<provider, stage, tmpfile, reply>>

(* Mutant: the exit code is not looked at. *)
OnExitAny ==
  /\ stage = "process"
  /\ rubo \in Exits
  /\ stage' = "read"
  /\ UNCHANGED <<provider, tmpfile, rubo, reply>>

(* The handlers of "error" and "exit": the code of a signal is null, which *)
(* is as good as 0.                                                        *)
OnExit ==
  /\ stage = "process"
  /\ rubo \in Exits \cup {"failed"}
  /\ IF rubo \in {"0", "1", Signal} THEN stage' = "read" /\ UNCHANGED reply ELSE Answer(NoEdits)
  /\ UNCHANGED <<provider, tmpfile, rubo>>

ReadFile ==
  /\ stage = "read"
  /\ Answer(NoEdits) \/ Answer(Whole(tmpfile))
  /\ UNCHANGED <<provider, tmpfile, rubo>>

CorrectNext ==
  \/ Test \/ Provide \/ MakeFolder \/ WriteFile
  \/ Rewrite \/ (\E code \in Exits : Exit(code)) \/ OnExit \/ ReadFile

CorrectSpec == CorrectInit /\ [][CorrectNext]_correctVars

-----------------------------------------------------------------------------
(* A document is replaced by its own text or by the whole correction: only *)
(* a RuboCop that was killed can leave it with half of a file              *)
(* (RuboCop.ts:178).                                                       *)
NeverCut == reply = Whole("cut") => rubo = Signal
=============================================================================
