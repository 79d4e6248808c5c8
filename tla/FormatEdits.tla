---------------------------- MODULE FormatEdits ----------------------------
(***************************************************************************)
(* From the formatter's output to edits: processResults of                 *)
(* packages/language-server-ruby/src/formatters/BaseFormatter.ts, one step *)
(* per diff.                                                               *)
(*                                                                         *)
(* A text is a sequence of characters.  As in the protocol an edit names   *)
(* positions, a line and a character, which processResults looks up in the *)
(* document; the diffs are about the text captured when the formatter was  *)
(* started.  diff_match_patch is external: any diffs of alternating kinds  *)
(* whose equal and deleted parts are the captured text.                    *)
(***************************************************************************)
EXTENDS Integers, SequencesExt

CONSTANTS Texts,      \* the texts a document may have
          Inserts     \* the texts one diff may insert

Characters == UNION {ToSet(text) : text \in Texts \cup Inserts}

ASSUME TextsAssumption == Texts \cup Inserts \subseteq Seq(Characters) /\ <<>> \notin Inserts

VARIABLES original,   \* originalText
          document,   \* the document when the formatter has finished
          range,      \* the selection, or NoRange
          position,   \* offset of the next diff in the original
          last,       \* kind of the previous diff
          edits,
          expected    \* history: the output up to here, as far as it is asked for

editsVars == <<original, document, range, position, last, edits, expected>>

NL == "nl"
Space == "space"
NoRange == <<>>

-----------------------------------------------------------------------------
(* TextDocument.positionAt and offsetAt, which clamp what is out of range. *)

LineStart(text, offset) ==
  Max({0} \cup {i \in 1 .. offset : text[i] = NL})

PositionAt(text, offset) ==
  LET o == Min({offset, Len(text)})
  IN [line |-> Cardinality({i \in 1 .. o : text[i] = NL}),
      character |-> o - LineStart(text, o)]

OffsetAt(text, pos) ==
  LET onLine == {o \in 0 .. Len(text) : PositionAt(text, o).line = pos.line}
  IN IF onLine = {} THEN Len(text) ELSE Min({Min(onLine) + pos.character, Max(onLine)})

(* Characters from offset a up to offset b. *)
Part(text, a, b) == SubSeq(text, a + 1, b)

(* What the editor does with edits that are sorted and do not overlap: it  *)
(* puts them in one after the other, each behind what it has kept.         *)
Patched(text, done, edit) ==
  [out |-> done.out \o Part(text, done.at, OffsetAt(text, edit.start)) \o edit.newText,
   at  |-> OffsetAt(text, edit.end)]

Patches(text, es) ==
  LET done[i \in 0 .. Len(es)] ==
        IF i = 0 THEN [out |-> <<>>, at |-> 0] ELSE Patched(text, done[i - 1], es[i])
  IN done

Applied(text, es) ==
  LET all == Patches(text, es)[Len(es)]
  IN all.out \o Part(text, all.at, Len(text))

-----------------------------------------------------------------------------
(* modifyRange: blanks ahead of the selection in its first line belong to  *)
(* it.                                                                     *)
Extended(text, r) ==
  LET from == OffsetAt(text, r.start)
      prefix == Part(text, from - r.start.character, from)
  IN IF prefix # <<>> /\ ToSet(prefix) = {Space} THEN [r EXCEPT !.start.character = 0] ELSE r

(* Mutant: the selection ends before its last position. *)
InRangeOpen(pos) ==
  /\ range.start.line <= pos.line /\ pos.line <= range.end.line
  /\ pos.line = range.start.line => pos.character >= range.start.character
  /\ pos.line = range.end.line => pos.character < range.end.character

InRange(pos) ==
  /\ range.start.line <= pos.line /\ pos.line <= range.end.line
  /\ pos.line = range.start.line => pos.character >= range.start.character
  /\ pos.line = range.end.line => pos.character <= range.end.character

Wanted(pos) == range # NoRange => InRange(pos)

Selections(text) ==
  {NoRange} \cup
  UNION {{Extended(text, [start |-> PositionAt(text, a), end |-> PositionAt(text, b)]) :
            b \in a .. Len(text)} : a \in 0 .. Len(text)}

EditsInit ==
  /\ original \in Texts
  /\ document \in Texts
  /\ range \in Selections(original)
  /\ position = 0
  /\ last = "none"
  /\ edits = <<>>
  /\ expected = <<>>

(* An edit is pushed, and popped again when it starts outside the range.   *)
Push(edit) == edits' = IF Wanted(edit.start) THEN Append(edits, edit) ELSE edits

(* History: whether the diff lies in the selection, by offsets.            *)
Selected(offset) ==
  range # NoRange =>
    OffsetAt(original, range.start) <= offset /\ offset <= OffsetAt(original, range.end)

Equal(n) ==
  /\ last # "equal"
  /\ position + n <= Len(original)
  /\ position' = position + n
  /\ last' = "equal"
  /\ expected' = expected \o Part(original, position, position + n)
  /\ UNCHANGED <<original, document, range, edits>>

Delete(n) ==
  /\ last # "delete"
  /\ position + n <= Len(original)
  /\ Push([start |-> PositionAt(document, position),
           end |-> PositionAt(document, position + n), newText |-> <<>>])
  /\ position' = position + n
  /\ last' = "delete"
  /\ expected' = IF Selected(position) THEN expected
                                       ELSE expected \o Part(original, position, position + n)
  /\ UNCHANGED <<original, document, range>>

(* Mutant: an insertion moves the position in the original. *)
InsertMoving(text) ==
  /\ last # "insert"
  /\ Push([start |-> PositionAt(document, position),
           end |-> PositionAt(document, position), newText |-> text])
  /\ position' = Min({position + Len(text), Len(original)})
  /\ last' = "insert"
  /\ expected' = IF Selected(position) THEN expected \o text ELSE expected
  /\ UNCHANGED <<original, document, range>>

Insert(text) ==
  /\ last # "insert"
  /\ Push([start |-> PositionAt(document, position),
           end |-> PositionAt(document, position), newText |-> text])
  /\ last' = "insert"
  /\ expected' = IF Selected(position) THEN expected \o text ELSE expected
  /\ UNCHANGED <<original, document, range, position>>

EditsNext ==
  \/ \E n \in 1 .. Len(original) : Equal(n) \/ Delete(n)
  \/ \E text \in Inserts : Insert(text)

EditsSpec == EditsInit /\ [][EditsNext]_editsVars

-----------------------------------------------------------------------------
(* Applied to a document that is still the captured text, the edits made   *)
(* so far turn the part read so far into the formatter's output, where the *)
(* selection asks for it, and leave everything else alone: only            *)
(* insertions have no place of their own in the original                   *)
(* (BaseFormatter.ts:95-97, 126-128).                                      *)
EditsReproduce ==
  document = original =>
    Applied(original, edits) = expected \o Part(original, position, Len(original))

(* Whatever has become of the document, the edits do not overlap and come  *)
(* in the order of their positions, so that the editor accepts them.       *)
EditsInOrder ==
  \A i \in 1 .. Len(edits) - 1 :
    OffsetAt(document, edits[i].end) <= OffsetAt(document, edits[i + 1].start)
=============================================================================
