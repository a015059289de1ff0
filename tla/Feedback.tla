----------------------------- MODULE Feedback ------------------------------
(***************************************************************************)
(* What an editor may rely on: the feedback shown for an open document is  *)
(* the one a compiler started from nothing would give for the document's   *)
(* text at some moment since it was last shown, and the last edit of a     *)
(* document that stays open is followed by feedback for that very text.    *)
(* A closed document shows nothing.                                        *)
(***************************************************************************)
CONSTANTS Docs, Texts(_), NoText, Nothing,
          Verdict(_, _, _, _)   \* of a document, its text, the files on disk and the
                                \* feedback it replaces

VARIABLES text,    \* the editor's text of every document, NoText when closed
          disk,    \* the files as they are on disk
          shown,   \* the feedback shown for every document
          dirty    \* documents owed feedback since their last edit

feedbackVars == <<text, disk, shown, dirty>>

Init == /\ text = [d \in Docs |-> NoText]
        /\ shown = [d \in Docs |-> Nothing]
        /\ dirty = {}

Edit(d) == /\ \E t \in Texts(d) : text' = [text EXCEPT ![d] = t]
           /\ dirty' = dirty \cup {d}
           /\ UNCHANGED <<disk, shown>>

Close(d) == /\ text[d] # NoText
            /\ text' = [text EXCEPT ![d] = NoText]
            /\ shown' = [shown EXCEPT ![d] = Nothing]
            /\ dirty' = dirty \ {d}
            /\ UNCHANGED disk

Write == disk' # disk /\ UNCHANGED <<text, shown, dirty>>

Show(d) == /\ d \in dirty
           /\ shown' = [shown EXCEPT ![d] = Verdict(d, text[d], disk, shown[d])]
           /\ dirty' \in {dirty, dirty \ {d}}
           /\ UNCHANGED <<text, disk>>

Next == (\E d \in Docs : Edit(d) \/ Close(d) \/ Show(d)) \/ Write

\* A document owed feedback gets it, or is closed.
Served == \A d \in Docs : (d \in dirty) ~> (d \notin dirty)

Spec == Init /\ [][Next]_feedbackVars /\ Served
=============================================================================
