-------------------------- MODULE MCQueryExecution --------------------------
(* QueryExecution for TLC.  A batch has one or two statements.              *)
EXTENDS QueryExecution, TLC

CONSTANTS t1, t2, c1, c2, b1, b2

MCUninitialised == {7}
LongAndShort    == [b \in Batches |-> IF b = b1 THEN 2 ELSE 1]
BothShort       == [b \in Batches |-> 1]

(* Batches of one size, and connections, are interchangeable.              *)
Interchangeable == Permutations(Connections) \cup Permutations(Batches)

(* Bounds of the run with two connections: both tabs stay open, both         *)
(* connections are opened before the first batch, each gets one batch, and a  *)
(* session is dropped only while both batches wait or run.                   *)
TabsStayOpen == tabs = Tabs
OpenedFirst  == sessions < 2 => \A b \in Batches : state[b] = "new"
OneBatchEach == taskConn[b1] = taskConn[b2] => taskConn[b1] = None
DroppedLate  == \A c \in Connections :
                    status[c] = "open" /\ ~Live(c) =>
                        \A b \in Batches : state[b] \in {"posted", "running"}
=============================================================================
