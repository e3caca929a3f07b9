---------------------------- MODULE BatchExecutor ----------------------------
(***************************************************************************)
(* db/user_query/batch_executor.{h,cpp}: the object that runs the          *)
(* statements of one batch, one after another, on the worker thread of a   *)
(* connection while the main thread may read its counters and ask it to    *)
(* stop.                                                                    *)
(*                                                                         *)
(* The executor is a record and every stretch of BatchExecutor::run        *)
(* between two points where another thread can be observed is an operator  *)
(* from a record to a record.  BatchExecutorSpec runs one executor alone,   *)
(* QueryExecution runs one per task.                                        *)
(***************************************************************************)
EXTENDS Integers, Sequences

CONSTANTS StopOnError,    \* BatchExecutor::_stopOnError, TRUE unless set
          Uninitialised   \* what an int member no constructor sets may hold

ASSUME ExecutorAssumption ==
    /\ StopOnError \in BOOLEAN
    /\ Uninitialised \subseteq Int
    /\ Uninitialised # {}
-----------------------------------------------------------------------------
(* What is known of one db::Query of _results: it has been pushed but not  *)
(* executed, it returned a result set, it returned none, or it threw.      *)
Outcomes == {"rows", "none", "error"}
Results  == Outcomes \cup {"pending"}

(* Where run() is: not called yet, at the loop's head, about to call       *)
(* Query::execute, inside it, about to emit afterQueryExecution, about to  *)
(* look at _isAborted, or returned.                                        *)
ExecutorPC == {"idle", "next", "pushed", "executing", "emit", "check", "done"}

Executors ==
    [ pc           : ExecutorPC,
      total        : Nat,          \* _queryTotalCount
      results      : Seq(Results), \* _results
      index        : Nat,          \* _currentQueryIndex
      failedCount  : Nat,          \* _queryFailedCount
      successCount : Int,          \* _querySuccessCount
      failed       : BOOLEAN,      \* _failed, set together with _error
      aborted      : BOOLEAN,      \* _isAborted
      doBreak      : BOOLEAN ]     \* run()'s local of that name

(* The constructor's initialisers; _querySuccessCount has none.            *)
NewExecutors ==
    { [ pc |-> "idle", total |-> 0, results |-> <<>>, index |-> 0,
        failedCount |-> 0, successCount |-> garbage, failed |-> FALSE,
        aborted |-> FALSE, doBreak |-> FALSE ] : garbage \in Uninitialised }

(* A mutant of Reset: a counter keeps what it held.                         *)
ResetKeepsCount(e, n) ==
    [e EXCEPT !.pc = "next", !.total = n, !.results = <<>>, !.index = 0,
              !.failedCount = 0, !.failed = FALSE, !.aborted = FALSE,
              !.doBreak = FALSE]

(* run(): the block under _mutex that starts a run of n statements.        *)
Reset(e, n) ==
    [ pc |-> "next", total |-> n, results |-> <<>>, index |-> 0,
      failedCount |-> 0, successCount |-> 0, failed |-> FALSE,
      aborted |-> FALSE, doBreak |-> FALSE ]

(* Mutant of HasNext: the loop runs one statement too far.                 *)
HasNextTooFar(e) == e.pc = "next" /\ Len(e.results) <= e.total

(* The head of the loop: another statement, or none is left.               *)
HasNext(e)  == e.pc = "next" /\ Len(e.results) < e.total
Finished(e) == e.pc = "next" /\ Len(e.results) = e.total

Push(e)   == [e EXCEPT !.pc = "pushed", !.results = Append(@, "pending")]
Return(e) == [e EXCEPT !.pc = "done"]

(* Query::execute takes the connection's mutex and sends the statement.    *)
Send(e) == [e EXCEPT !.pc = "executing"]

IsLast(e) == e.index = e.total - 1

SetOutcome(e, outcome) ==
    [e EXCEPT !.pc = "emit", !.results[Len(e.results)] = outcome]

(* Mutant of Succeed: the index moves on before the signal.                *)
SucceedMovesOn(e, outcome) ==
    [SetOutcome(e, outcome) EXCEPT !.successCount = @ + 1, !.index = @ + 1]

(* Query::execute returned: the try block's tail.                          *)
Succeed(e, outcome) ==
    [SetOutcome(e, outcome) EXCEPT !.successCount = @ + 1]

(* Mutants of Fail: the loop goes on; the failure is not recorded.         *)
FailGoesOn(e) ==
    [SetOutcome(e, "error") EXCEPT !.failedCount = @ + 1,
                                   !.failed = @ \/ StopOnError \/ IsLast(e)]

FailQuietly(e) ==
    [SetOutcome(e, "error") EXCEPT !.failedCount = @ + 1, !.doBreak = TRUE]

(* Query::execute threw: the catch block.                                  *)
Fail(e) ==
    LET stop == StopOnError \/ IsLast(e)
    IN  [SetOutcome(e, "error") EXCEPT !.failedCount = @ + 1,
                                       !.failed = @ \/ stop,
                                       !.doBreak = @ \/ stop]

Executed(e, outcome) ==
    IF outcome = "error" THEN Fail(e) ELSE Succeed(e, outcome)

(* emit afterQueryExecution(_currentQueryIndex, ...).                      *)
Report(e) == [e EXCEPT !.pc = "check"]

(* Mutant of Check: only an error leaves the loop.                         *)
CheckIgnoresAbort(e) ==
    IF e.doBreak
    THEN [e EXCEPT !.pc = "done"]
    ELSE [e EXCEPT !.pc = "next", !.index = IF IsLast(e) THEN @ ELSE @ + 1]

(* After the signal: an abort or an error leaves the loop, otherwise the   *)
(* index moves on, except past the last statement.                         *)
Check(e) ==
    IF e.aborted \/ e.doBreak
    THEN [e EXCEPT !.pc = "done", !.doBreak = TRUE]
    ELSE [e EXCEPT !.pc = "next", !.index = IF IsLast(e) THEN @ ELSE @ + 1]

(* abort(), which the main thread calls at any time.                       *)
Abort(e) == [e EXCEPT !.aborted = TRUE]
=============================================================================
