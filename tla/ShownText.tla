----------------------------- MODULE ShownText -----------------------------
(***************************************************************************)
(* What the web page and the terminal promise of the texts an agent says:  *)
(* each is shown in order as it comes, with the stored text in place of    *)
(* every token, however tokens were cut; nothing that was shown is taken   *)
(* back, and when a text is over all of it is shown, once.                 *)
(***************************************************************************)
EXTENDS TokenText

CONSTANT Texts  \* identities of the texts

VARIABLES
    said,   \* what the agent has said of each text
    shown,  \* what is shown of each
    over    \* texts that are complete, and completely shown

vars == <<said, shown, over>>

Init == said = [t \in Texts |-> <<>>] /\ shown = said /\ over = {}

Grows(text, more) == \A t \in Texts : IsPrefix(text[t], more[t])

(* A text goes on, unless it is over.                                       *)
Say == Grows(said, said') /\ \A t \in over : said'[t] = said[t]

(* No part of a token is shown before the token is complete.                *)
MayBeShown(text, displayed) == IsPrefix(displayed, Chunk(text, FALSE).shown)

Show ==
    /\ Grows(shown, shown')
    /\ over \subseteq over' /\ over' \subseteq Texts
    /\ \A t \in Texts : IF t \in over' THEN shown'[t] = Expanded(said'[t])
                        ELSE MayBeShown(said'[t], shown'[t])

Next == Say /\ Show

Spec == Init /\ [][Next]_vars

(* The terminal starts afresh with each turn.                               *)
Restart == Init'

TurnsSpec == Init /\ [][Next \/ Restart]_vars

=============================================================================
