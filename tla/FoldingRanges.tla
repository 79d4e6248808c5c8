--------------------------- MODULE FoldingRanges ---------------------------
(***************************************************************************)
(* The folding ranges of a document:                                       *)
(* packages/language-server-ruby/src/analyzers/FoldingRangeAnalyzer.ts,    *)
(* one step per captured node.                                             *)
(*                                                                         *)
(* tree-sitter yields the captures in the order of their positions.  A     *)
(* capture is its type, its first and last row, how its text begins, and   *)
(* the row of the first rescue or else below it (descendants[0]).  Columns *)
(* are left out.                                                           *)
(***************************************************************************)
EXTENDS Integers, Sequences

CONSTANTS Types,         \* node types the documents use
          MaxRow,        \* bound: rows of a document
          MaxCaptures    \* bound: captured nodes

ASSUME RowsAssumption == MaxRow \in Nat /\ MaxCaptures \in Nat

VARIABLES captures,   \* history: the nodes analysed so far; the last is lastNodeAnalyzed
          folds       \* diagnostics

foldVars == <<captures, folds>>

Rows == 0 .. MaxRow
NoRow == -1

(* The keys of FOLD_NODES: every one shortens the fold by a row.           *)
FOLD_NODES ==
  {"array", "case", "class", "begin", "hash", "heredoc_body", "method", "module",
   "singleton_method", "if", "unless"}

(* What handleNestedNode looks for below a node of this type.              *)
NestedType(type) == CASE type = "begin" -> "rescue" [] type = "if" -> "else" [] OTHER -> "none"

Captured ==
  [type : Types, start : Rows, end : Rows, head : {"#", "require", "other"},
   nested : Rows \cup {NoRow}]

(* FoldHeuristic: the default moves nothing.                               *)
EndHeuristic(type) == IF type \in FOLD_NODES THEN -1 ELSE 0

FoldKind(type) ==
  CASE type = "comment" -> "comment" [] type = "call" -> "imports" [] OTHER -> "region"

ImplicitBlock(node, lastNode) ==
  \/ node.type = "comment" /\ node.head = "#" /\ lastNode.type = "comment" /\ lastNode.head = "#"
  \/ /\ node.type = "call" /\ node.head = "require"
     /\ lastNode.type = "call" /\ lastNode.head = "require"

(* Mutant: a fold goes up to the row of the rescue or else itself.         *)
FoldOfWithNestedRow(node) ==
  [start |-> node.start,
   end   |-> IF NestedType(node.type) # "none" /\ node.nested # NoRow
               THEN node.nested
               ELSE node.end + EndHeuristic(node.type),
   kind  |-> FoldKind(node.type)]

FoldOf(node) ==
  [start |-> node.start,
   end   |-> IF NestedType(node.type) # "none" /\ node.nested # NoRow
               THEN node.nested - 1
               ELSE node.end + EndHeuristic(node.type),
   kind  |-> FoldKind(node.type)]

-----------------------------------------------------------------------------
(* tree-sitter: what may follow the nodes captured so far.                 *)

Inside(node, outer) == outer.start <= node.start /\ node.end <= outer.end

WellFormed(node) ==
  /\ node.start <= node.end
  /\ node.head = "#" => node.type = "comment" /\ node.start = node.end
  /\ node.head = "require" => node.type = "call"
  /\ node.nested # NoRow =>
       NestedType(node.type) # "none" /\ node.start <= node.nested /\ node.nested <= node.end

(* The rescue or else of a node that has been captured.                    *)
NestedSeen(i) ==
  \E j \in i + 1 .. Len(captures) :
    captures[j].type = NestedType(captures[i].type) /\ captures[j].start = captures[i].nested

Follows(node) ==
  \A i \in 1 .. Len(captures) :
    LET c == captures[i]
    IN /\ c.start <= node.start
       /\ Inside(node, c) \/ c.end <= node.start
       /\ c.head = "#" => c.end < node.start
       /\ c.nested # NoRow =>
            \/ node.start < c.nested
            \/ node.start = c.nested /\ node.head # "#"
            \/ NestedSeen(i)
       /\ node.type = NestedType(c.type) /\ Inside(node, c) =>
            c.nested # NoRow /\ (NestedSeen(i) \/ node.start = c.nested)

-----------------------------------------------------------------------------
FoldInit ==
  /\ captures = <<>>
  /\ folds = <<>>

Analyze(node) ==
  /\ WellFormed(node)
  /\ Follows(node)
  /\ captures' = Append(captures, node)
  /\ folds' = IF captures # <<>> /\ ImplicitBlock(node, captures[Len(captures)])
                 THEN [folds EXCEPT ![Len(folds)].end = node.end]
                 ELSE Append(folds, FoldOf(node))

FoldNext == Len(captures) < MaxCaptures /\ \E node \in Captured : Analyze(node)

FoldSpec == FoldInit /\ [][FoldNext]_foldVars

-----------------------------------------------------------------------------
(* Where the folds may overlap.  A block that has begun inside a node goes *)
(* on behind it, or behind the row where its fold is cut short (230), such *)
(* as the comment at the end of a definition and the one after it; a       *)
(* rescue or else found below a node may be that of an inner one (206); a  *)
(* node that keeps its last row may share it with one that does not, or    *)
(* with the node after it.                                                 *)
Straddling ==
  \E i \in 1 .. Len(captures) - 1 :
    /\ ImplicitBlock(captures[i + 1], captures[i])
    /\ \E j \in 1 .. i - 1 :
         /\ Inside(captures[i], captures[j])
         /\ \/ ~Inside(captures[i + 1], captures[j])
            \/ captures[i].start < captures[j].nested /\ captures[j].nested <= captures[i + 1].start

Borrowed ==
  \E i, j \in 1 .. Len(captures) :
    /\ i < j
    /\ Inside(captures[j], captures[i])
    /\ captures[j].start < captures[i].nested /\ captures[i].nested <= captures[j].end

SharedRow ==
  \E i, j \in 1 .. Len(captures) :
    /\ i < j
    /\ IF Inside(captures[j], captures[i])
         THEN /\ captures[j].end = captures[i].end
              /\ EndHeuristic(captures[i].type) < EndHeuristic(captures[j].type)
         ELSE /\ captures[i].end = captures[j].start
              /\ EndHeuristic(captures[i].type) = 0

(* Folds are nested or apart, so that the editor, which drops one of two   *)
(* that overlap, shows them all; there are no other ways for them to       *)
(* overlap than the three above (FoldingRangeAnalyzer.ts:168, 212, 220).   *)
FoldsNest ==
  ~Straddling /\ ~Borrowed /\ ~SharedRow =>
    \A i, j \in 1 .. Len(folds) :
      i < j => folds[i].end < folds[j].start \/ folds[j].end <= folds[i].end
=============================================================================
