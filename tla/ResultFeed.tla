----------------------------- MODULE ResultFeed -----------------------------
(***************************************************************************)
(* What the query tabs promise their user, whatever threads and queues are  *)
(* behind them: a tab accepts a run only when none is in progress, the       *)
(* results of the run appear in the order of its statements, each once and   *)
(* none invented, and when the tab says the run is over all of them are      *)
(* there.  Closing a tab forgets everything in it, and only in it.          *)
(***************************************************************************)
EXTENDS Integers, Sequences

CONSTANTS Tabs,
          Indexes   \* positions of statements in a batch, numbers

VARIABLES running,    \* the tab's busy cursor
          produced,   \* statements of the tab's run that have returned rows
          shown       \* the results the tab shows

vars == <<running, produced, shown>>

Shown(t) == {shown[t][i] : i \in 1 .. Len(shown[t])}
Hidden(t) == produced[t] \ Shown(t)

Init ==
    /\ running = [t \in Tabs |-> FALSE]
    /\ produced = [t \in Tabs |-> {}]
    /\ shown = [t \in Tabs |-> <<>>]

Clear(t) ==
    /\ produced' = [produced EXCEPT ![t] = {}]
    /\ shown' = [shown EXCEPT ![t] = <<>>]

Accept(t) ==
    /\ ~running[t]
    /\ running' = [running EXCEPT ![t] = TRUE]
    /\ Clear(t)

(* Statements return rows in their order.                                  *)
Produce(t, i) ==
    /\ running[t]
    /\ UNCHANGED <<running, shown>>
    /\ \A j \in produced[t] : j < i
    /\ produced' = [produced EXCEPT ![t] = @ \cup {i}]

(* The first result not shown yet is shown.                                *)
Show(t, i) ==
    /\ running[t]
    /\ shown' = [shown EXCEPT ![t] = Append(@, i)]
    /\ i \in Hidden(t)
    /\ \A j \in Hidden(t) : i <= j
    /\ UNCHANGED <<running, produced>>

Finish(t) ==
    /\ running[t]
    /\ running' = [running EXCEPT ![t] = FALSE]
    /\ Hidden(t) = {}
    /\ UNCHANGED <<produced, shown>>

Close(t) ==
    /\ running' = [running EXCEPT ![t] = FALSE]
    /\ Clear(t)

Next ==
    \E t \in Tabs :
        \/ Accept(t) \/ Finish(t) \/ Close(t)
        \/ \E i \in Indexes : Produce(t, i) \/ Show(t, i)

Spec == Init /\ [][Next]_vars
=============================================================================
