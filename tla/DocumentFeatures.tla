-------------------------- MODULE DocumentFeatures --------------------------
(***************************************************************************)
(* What the language server computes from one document when it is asked:   *)
(* formatting with its process (Formatting), the edits that formatting     *)
(* answers with (FormatEdits), folding ranges (FoldingRanges) and the      *)
(* outline (DocumentSymbols).                                              *)
(*                                                                         *)
(* They share no state, and each request is served by one of them: a       *)
(* behaviour of this module is a behaviour of one of them, with the others *)
(* at rest.  DocumentForest has what they read, the documents and their    *)
(* trees.                                                                  *)
(***************************************************************************)
EXTENDS Formatting, FormatEdits, FoldingRanges, DocumentSymbols

VARIABLE feature    \* the one that is asked for

featureVars == <<formatVars, editsVars, foldVars, walkVars, feature>>

(* The edits start from a text and a selection of their own; the other     *)
(* features leave them at the empty document.                              *)
AtRest == original = <<>> /\ document = <<>> /\ range = NoRange

Init ==
  /\ FormatInit /\ EditsInit /\ FoldInit /\ WalkInit
  /\ feature \in {"formatting", "edits", "folding", "outline"}
  /\ feature # "edits" => AtRest

FormattingStep == FormatNext /\ UNCHANGED <<editsVars, foldVars, walkVars, feature>>
EditsStep == EditsNext /\ UNCHANGED <<formatVars, foldVars, walkVars, feature>>
FoldingStep == FoldNext /\ UNCHANGED <<formatVars, editsVars, walkVars, feature>>
OutlineStep == WalkNext /\ UNCHANGED <<formatVars, editsVars, foldVars, feature>>

Next ==
  \/ feature = "formatting" /\ FormattingStep
  \/ feature = "edits" /\ EditsStep
  \/ feature = "folding" /\ FoldingStep
  \/ feature = "outline" /\ OutlineStep

Spec == Init /\ [][Next]_featureVars

(* Formatting under its fairness.                                          *)
FairSpec == Spec /\ (feature = "formatting" => FormatFairness)

-----------------------------------------------------------------------------
(* The request of Formatting is answered (FormatSettles), when there is    *)
(* one.                                                                    *)
FormattingSettles == feature = "formatting" => FormatSettles
=============================================================================
