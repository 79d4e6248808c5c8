--------------------------- MODULE DiagnosticBoard ---------------------------
(****************************************************************************)
(* What linting promises to the editor.  Each document has a text (its      *)
(* version; 0 when it is closed) and the diagnostics that were last sent    *)
(* for it.  New diagnostics are only ever sent for the document of the      *)
(* latest event, and always for its text as it is now; a document that is   *)
(* closed loses its diagnostics at once.  When linting has failed, nothing  *)
(* is sent any more.                                                        *)
(****************************************************************************)
EXTENDS Naturals

CONSTANTS
    Files,     \* the documents
    Linters,   \* the names of linters
    MaxEdits   \* bound on the versions

VARIABLES
    text,   \* [Files -> Nat]: the version of each document
    sent,   \* [Files -> diagnostics]: what was sent last
    focus,  \* the documents of the latest event: none at first, then one
    over    \* linting has failed

vars == <<text, sent, focus, over>>

\* Diagnostics: the version they are about and the linters they come from.
Cleared == [of |-> 0, found |-> {}]
Findings(v) == [of : {v}, found : SUBSET Linters]

Init ==
    /\ text = [f \in Files |-> 0]
    /\ sent = [f \in Files |-> Cleared]
    /\ focus = {}
    /\ over = FALSE

\* A document is opened or changed: at once there may be diagnostics for the
\* new text, or a failure.
Revise(f, v) ==
    /\ text' = [text EXCEPT ![f] = v]
    /\ focus' = {f}
    /\ \/ UNCHANGED <<sent, over>>
       \/ UNCHANGED sent /\ over' = TRUE
       \/ /\ ~over
          /\ \E d \in Findings(v) : sent' = [sent EXCEPT ![f] = d]
          /\ UNCHANGED over

\* A document is closed.
Close(f) ==
    /\ text' = [text EXCEPT ![f] = 0]
    /\ focus' = {f}
    /\ sent' = IF over THEN sent ELSE [sent EXCEPT ![f] = Cleared]
    /\ UNCHANGED over

\* Diagnostics for the document of the latest event.
Publish(f) ==
    /\ ~over
    /\ f \in focus
    /\ text[f] # 0
    /\ \E d \in Findings(text[f]) : sent' = [sent EXCEPT ![f] = d]
    /\ UNCHANGED <<text, focus, over>>

Fail ==
    /\ over' = TRUE
    /\ UNCHANGED <<text, sent, focus>>

Next ==
    \/ \E f \in Files :
          \/ \E v \in 1..MaxEdits : Revise(f, v)
          \/ Close(f)
          \/ Publish(f)
    \/ Fail

Spec == Init /\ [][Next]_vars
=============================================================================
