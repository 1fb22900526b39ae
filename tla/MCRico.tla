------------------------------- MODULE MCRico -------------------------------
(***************************************************************************)
(* A page with one of the widgets, or the pages of a chat.  They share no  *)
(* state, so that a page with several shows nothing that a page with one   *)
(* of them does not.                                                       *)
(***************************************************************************)
EXTENDS Accordion, DragAndDrop, LiveGridSort, Chat, TLC

VARIABLE widget

chatVars == vars
pageVars == <<widget, accordionVars, dndVars, headerVars, chatVars>>

PageInit ==
    /\ widget \in {"accordion", "items", "header", "chat"}
    /\ AccordionInit
    /\ DragInit
    /\ IF widget = "header" THEN HeaderInit ELSE setSortUI(NoColumn, "ASC", FALSE)
    /\ Init

PageNext ==
    /\ UNCHANGED widget
    /\ \/ widget = "accordion" /\ AccordionNext /\ UNCHANGED <<dndVars, headerVars, chatVars>>
       \/ widget = "items" /\ DragNext /\ UNCHANGED <<accordionVars, headerVars, chatVars>>
       \/ /\ widget = "header" /\ headerCellClicked
          /\ UNCHANGED <<accordionVars, dndVars, chatVars>>
       \/ widget = "chat" /\ Next /\ UNCHANGED <<accordionVars, dndVars, headerVars>>

PageSpec == PageInit /\ [][PageNext]_pageVars

\* The pages of the chat do the same.
Symmetric == Permutations(Pages)
=============================================================================
