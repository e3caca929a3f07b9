-------------------------- MODULE BatchExecutorSpec --------------------------
(***************************************************************************)
(* One BatchExecutor: the worker thread in BatchExecutor::run and the main *)
(* thread calling BatchExecutor::abort whenever it likes.                   *)
(***************************************************************************)
EXTENDS BatchExecutor

CONSTANT MaxStatements   \* bound: statements in a batch

ASSUME MaxStatementsAssumption == MaxStatements \in Nat \ {0}

VARIABLES size,        \* number of statements in the batch given to run()
          ex,          \* the executor
          reported,    \* history: the indexes afterQueryExecution carried
          asked,       \* history: abort() has been called
          begunAfter   \* history: statements begun while _isAborted was set

vars == <<size, ex, reported, asked, begunAfter>>

Init ==
    /\ size \in 1 .. MaxStatements
    /\ ex \in NewExecutors
    /\ reported = <<>>
    /\ asked = FALSE
    /\ begunAfter = 0
-----------------------------------------------------------------------------
(* The worker thread.                                                      *)
StartRun ==
    /\ ex.pc = "idle"
    /\ ex' = Reset(ex, size)
    /\ UNCHANGED <<size, reported, asked, begunAfter>>

PushQuery ==
    /\ HasNext(ex)
    /\ ex' = Push(ex)
    /\ begunAfter' = IF ex.aborted THEN begunAfter + 1 ELSE begunAfter
    /\ UNCHANGED <<size, reported, asked>>

SendQuery ==
    /\ ex.pc = "pushed"
    /\ ex' = Send(ex)
    /\ UNCHANGED <<size, reported, asked, begunAfter>>

ExecuteQuery ==
    /\ ex.pc = "executing"
    /\ \E outcome \in Outcomes : ex' = Executed(ex, outcome)
    /\ UNCHANGED <<size, reported, asked, begunAfter>>

ReportQuery ==
    /\ ex.pc = "emit"
    /\ ex' = Report(ex)
    /\ reported' = Append(reported, ex.index)
    /\ UNCHANGED <<size, asked, begunAfter>>

CheckAbort ==
    /\ ex.pc = "check"
    /\ ex' = Check(ex)
    /\ UNCHANGED <<size, reported, asked, begunAfter>>

FinishRun ==
    /\ Finished(ex)
    /\ ex' = Return(ex)
    /\ UNCHANGED <<size, reported, asked, begunAfter>>

Worker == \/ StartRun \/ PushQuery \/ SendQuery \/ ExecuteQuery
          \/ ReportQuery \/ CheckAbort \/ FinishRun

(* The main thread: UserQuery::abort, repeated clicks included.            *)
AskAbort ==
    /\ ex' = Abort(ex)
    /\ asked' = TRUE
    /\ UNCHANGED <<size, reported, begunAfter>>

Next == Worker \/ AskAbort

Spec == Init /\ [][Next]_vars

(* The server answers every statement and the OS runs the worker.          *)
FairSpec == Spec /\ WF_vars(Worker)
-----------------------------------------------------------------------------
(* The types of the executor's members; only the success counter, which no   *)
(* constructor sets, may be an integer below zero.                           *)
TypeOK ==
    /\ size \in 1 .. MaxStatements
    /\ ex \in Executors
    /\ reported \in Seq(Nat)
    /\ asked \in BOOLEAN
    /\ begunAfter \in Nat

Begun == Len(ex.results)
Answered == IF ex.pc \in {"pushed", "executing"} THEN Begun - 1 ELSE Begun

(* The index each afterQueryExecution carries is the position in _results  *)
(* of the statement that has just run, so UserQuery::onQueryFinished reads *)
(* the right QueryPtr whatever the timing: the signals count 0, 1, 2, ...  *)
(* although _currentQueryIndex is not advanced past the last statement.     *)
ReportsMatchResults ==
    /\ \A i \in 1 .. Len(reported) : reported[i] = i - 1
    /\ ex.pc # "idle" => Len(reported) =
         IF ex.pc \in {"pushed", "executing", "emit"} THEN Begun - 1 ELSE Begun

(* The counters the log line and the error box are made from agree with    *)
(* the results at every moment another thread may read them.               *)
CountersAgree ==
    ex.pc # "idle" => ex.successCount + ex.failedCount = Answered

(* failed() means the statement that ended the batch threw; with           *)
(* _stopOnError no statement is executed after one that threw, without it  *)
(* a failed() batch has been executed to its last statement.               *)
FailureEndsBatch ==
    ex.failed => /\ ex.results[Begun] = "error"
                 /\ ex.pc \in {"emit", "check", "done"}
                 /\ StopOnError \/ Begun = ex.total

(* A run that returned without an abort and without failing has answered   *)
(* every statement of the batch.                                           *)
ReturnsComplete ==
    ex.pc = "done" /\ ~asked /\ ~ex.failed => Answered = size

(* Once run() has seen the flag set, at most the one statement it was      *)
(* about to begin still goes to the server.                                *)
AbortStopsSoon == begunAfter <= 1

(* Every batch comes to an end, for whatever the statements return.        *)
RunReturns == <>(ex.pc = "done")
=============================================================================
