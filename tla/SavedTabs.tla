------------------------------ MODULE SavedTabs ------------------------------
(***************************************************************************)
(* What the saving of query tabs promises: the next start shows the list of  *)
(* the last save that was completed, in its order, and under each tab a      *)
(* text its user had there; a tab that is on the desk never gets the text of  *)
(* another, and what is kept changes only while tabs are being saved.        *)
(***************************************************************************)
EXTENDS Sequences, Naturals

CONSTANTS Ids, Texts, Empty,
          ReadBack   \* what a text is when it is read back

VARIABLES open,  \* there is a desk
          desk,  \* the tabs, in their order
          words, \* the text of each
          list,  \* the tabs kept
          kept   \* the text kept for each

vars == <<open, desk, words, list, kept>>

OnDesk(id) == \E i \in 1 .. Len(desk) : desk[i] = id

Init == /\ ~open /\ desk = <<>> /\ words = [id \in Ids |-> Empty]
        /\ list = <<>> /\ kept = [id \in Ids |-> Empty]

(* The user opens and closes tabs and types.                                *)
Work == /\ open /\ UNCHANGED <<open, list, kept>>

(* The text of one tab is written; a write may be cut short.                 *)
KeepText ==
    /\ open /\ UNCHANGED <<open, desk, words, list>>
    /\ \E id \in Ids, text \in Texts :
           /\ kept' = [kept EXCEPT ![id] = text]
           /\ text = Empty \/ (OnDesk(id) /\ text = ReadBack[words[id]])

KeepList == open /\ list' = desk /\ UNCHANGED <<open, desk, words, kept>>

(* The program ends, in whatever way.                                       *)
Leave == open /\ ~open' /\ UNCHANGED <<list, kept>>

Start ==
    /\ ~open /\ open'
    /\ UNCHANGED <<list, kept>>
    /\ IF list = <<>>
       THEN \E id \in Ids : desk' = <<id>> /\ words'[id] = Empty
       ELSE desk' = list /\ \A i \in 1 .. Len(list) : words'[list[i]] = kept[list[i]]

Next == Work \/ KeepText \/ KeepList \/ Leave \/ Start

Spec == Init /\ [][Next]_vars
=============================================================================
