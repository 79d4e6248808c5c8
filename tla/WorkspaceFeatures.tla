------------------------- MODULE WorkspaceFeatures -------------------------
(***************************************************************************)
(* What the extension keeps of the workspace besides its documents: the    *)
(* index of symbols (Locate), the tasks of the Rakefile (RakeTasks), the   *)
(* environment of the shell (Environment), and the formatter for those     *)
(* who do without the language server (AutoCorrect).                       *)
(*                                                                         *)
(* They are set up independently of each other and share no state: a       *)
(* behaviour of this module is a behaviour of one of them, with the others *)
(* at rest.                                                                *)
(***************************************************************************)
EXTENDS Locate, RakeTasks, Environment, AutoCorrect

VARIABLE part    \* the one that acts

workspaceVars == <<locateVars, rakeVars, envVars, correctVars, part>>

(* The parts that start from several states start from one when at rest.   *)
AtRest ==
  /\ part # "index" => barred = "no" /\ \A f \in Files : disk[f].is = "gone"
  /\ part # "rake" => version = 0
  /\ part # "environment" => shell = <<>> /\ quote = NoQuote /\ shim = "missing" /\ ~shimDir

Init ==
  /\ LocateInit /\ RakeInit /\ EnvInit /\ CorrectInit
  /\ part \in {"index", "rake", "environment", "formatter"}
  /\ AtRest

IndexStep == LocateNext /\ UNCHANGED <<rakeVars, envVars, correctVars, part>>
RakeStep == RakeNext /\ UNCHANGED <<locateVars, envVars, correctVars, part>>
EnvironmentStep == EnvNext /\ UNCHANGED <<locateVars, rakeVars, correctVars, part>>
FormatterStep == CorrectNext /\ UNCHANGED <<locateVars, rakeVars, envVars, part>>

Next ==
  \/ part = "index" /\ IndexStep
  \/ part = "rake" /\ RakeStep
  \/ part = "environment" /\ EnvironmentStep
  \/ part = "formatter" /\ FormatterStep

Spec == Init /\ [][Next]_workspaceVars

(* The index under its fairness.                                           *)
FairSpec == Spec /\ (part = "index" => LocateFairness)
=============================================================================
