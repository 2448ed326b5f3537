----------------------------- MODULE Inspector -----------------------------
(***************************************************************************)
(* The inspector page: the connection to a server and the document shown.  *)
(* A step of the connection that shows another document gives it content,  *)
(* and the dialogs of both parts are modal: while one is open only the     *)
(* callbacks, the peers and files dropped on the page go on.  In place of  *)
(* the default document a placeholder is shown.                            *)
(***************************************************************************)
EXTENDS InspectorConnection, InspectorDocument

CONSTANT Budget  \* bound: documents, connections and edits together

pageVars == <<connectVars, docVars>>

WithinBudget == docs' + connects' + edits' <= Budget

Init == ConnectInit /\ DocInit

Connection ==
  /\ (ConnectClicks /\ dialog = Closed) \/ ConnectCallbacks
  /\ IF yDoc' = yDoc THEN UNCHANGED docVars
     ELSE \E d \in Loadable \union {NewDocument} : SwitchTo(d)

Document ==
  /\ (DocumentClicks /\ ~open /\ yDoc # 0) \/ DocumentSteps
  /\ UNCHANGED connectVars

Next == (Connection \/ Document) /\ WithinBudget

Spec == Init /\ [][Next]_pageVars
=============================================================================
