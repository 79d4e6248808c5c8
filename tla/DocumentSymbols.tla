-------------------------- MODULE DocumentSymbols --------------------------
(***************************************************************************)
(* The outline of a document:                                              *)
(* packages/language-server-ruby/src/analyzers/DocumentSymbolAnalyzer.ts   *)
(* with util/Stack.ts and util/RubyDocumentSymbol.ts, one step per node    *)
(* of the walk in Analyzer.ts.                                             *)
(*                                                                         *)
(* A node is what it is to the analyzer and the positions of its first and *)
(* last token; the walk visits nodes before their children, from left to   *)
(* right.  The two stacks are pushed and popped together: one stack of     *)
(* indices into the walk stands for both.                                  *)
(*                                                                         *)
(* Left out: the tokens without a width that stand for what is missing in  *)
(* an incomplete document, with which definitions may end together, and    *)
(* the exception of build for a method named attr_ without any arguments   *)
(* in it.                                                                  *)
(***************************************************************************)
EXTENDS Integers, Sequences

CONSTANTS MaxToken,    \* bound: tokens of a document
          MaxNodes     \* bound: nodes of its tree

ASSUME TokensAssumption == MaxToken \in Nat /\ MaxNodes \in Nat

VARIABLES nodes,     \* history: the nodes visited so far
          stack,     \* the wrappers the analyzer takes for open
          parentOf   \* for each node: where its symbol went, NoSymbol, or Root

walkVars == <<nodes, stack, parentOf>>

(* "definition": class, module, method, singleton_method; "constant": the  *)
(* assignment to a constant; "attr": a call of attr_reader and its like,   *)
(* or a method of such a name, whose symbols are an array, which does not  *)
(* go on the stack; "leaf": a token; "other": the rest, such as *)
(* the assignment to a variable and calls, for which build returns         *)
(* nothing.                                                                *)
Kinds == {"definition", "constant", "attr", "leaf", "other"}
Wrapping == {"definition", "constant"}

Nodes == [kind : Kinds, first : 1 .. MaxToken, last : 1 .. MaxToken]

Root == 0
NoSymbol == -1

TopOf(s) == s[Len(s)]
Popped(s) == SubSeq(s, 1, Len(s) - 1)

-----------------------------------------------------------------------------
(* tree-sitter: which node the walk comes to next.  Tokens are visited in  *)
(* turn; a composite begins with its first child and ends with its last;   *)
(* a definition ends with a token "end" of its own, a constant begins with *)
(* its name.                                                               *)

Within(m, n) == n.first <= m.first /\ m.last <= n.last

NextToken ==
  IF nodes = <<>> THEN 1
  ELSE LET n == nodes[Len(nodes)] IN IF n.kind = "leaf" THEN n.last + 1 ELSE n.first

Comes(n) ==
  /\ n.first = NextToken
  /\ n.first <= n.last
  /\ n.kind = "leaf" => n.first = n.last
  /\ n.kind \in Wrapping => n.first < n.last
  /\ \A i \in 1 .. Len(nodes) :
       nodes[i].last >= n.first =>
         /\ n.last <= nodes[i].last
         /\ \/ nodes[i].kind = "definition" /\ n.last = nodes[i].last
            \/ nodes[i].kind = "constant" /\ n.first = nodes[i].first
            => n.kind = "leaf"

-----------------------------------------------------------------------------
WalkInit ==
  /\ nodes = <<>>
  /\ stack = <<>>
  /\ parentOf = <<>>

(* Mutant: a node that ends a wrapper takes all wrappers off the stack.    *)
StackAfterPopAll(n, i) ==
  IF n.kind \in Wrapping THEN Append(stack, i)
  ELSE IF stack # <<>> /\ nodes[TopOf(stack)].last = n.last THEN <<>>
  ELSE stack

StackAfter(n, i) ==
  IF n.kind \in Wrapping THEN Append(stack, i)
  ELSE IF stack # <<>> /\ nodes[TopOf(stack)].last = n.last THEN Popped(stack)
  ELSE stack

(* build: which nodes have symbols.                                        *)
HasSymbol(n) == n.kind \in Wrapping \cup {"attr"}

Visit(n) ==
  /\ Comes(n)
  /\ nodes' = Append(nodes, n)
  /\ parentOf' = Append(parentOf, IF ~HasSymbol(n) THEN NoSymbol
                                  ELSE IF stack = <<>> THEN Root ELSE TopOf(stack))
  /\ stack' = StackAfter(n, Len(nodes) + 1)

WalkNext == Len(nodes) < MaxNodes /\ \E n \in Nodes : Visit(n)

WalkSpec == WalkInit /\ [][WalkNext]_walkVars

-----------------------------------------------------------------------------
(* The wrappers that contain a node.                                       *)
Enclosing(i) == {j \in 1 .. i - 1 : nodes[j].kind \in Wrapping /\ Within(nodes[i], nodes[j])}

(* A constant that ends with the constant it is assigned: A = B = 1.  The  *)
(* last token of both takes only one of them off the stack                 *)
(* (DocumentSymbolAnalyzer.ts:41), and what follows belongs to the other.  *)
Chained ==
  \E i \in 1 .. Len(nodes) : \E j \in Enclosing(i) :
    nodes[i].kind \in Wrapping /\ nodes[i].last = nodes[j].last

(* The outline has the shape of the document: unless constants are         *)
(* chained, a symbol belongs to a wrapper around it, and to none outside   *)
(* the innermost definition around it.  Only a constant may be passed      *)
(* over, when its value is a call with a block that ends with it           *)
(* (DocumentSymbolAnalyzer.ts:28, 37-46).                                  *)
SymbolsNested ==
  ~Chained =>
    \A i \in 1 .. Len(nodes) : HasSymbol(nodes[i]) =>
      /\ parentOf[i] \in Enclosing(i) \cup {Root}
      /\ \A j \in Enclosing(i) : nodes[j].kind = "definition" => j <= parentOf[i]
=============================================================================
