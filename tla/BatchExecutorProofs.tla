------------------------- MODULE BatchExecutorProofs -------------------------
(***************************************************************************)
(* Theorems about one BatchExecutor, for batches of every size and both     *)
(* values of _stopOnError.  The named invariants of BatchExecutorSpec are   *)
(* not inductive: that the counters agree after the next statement depends  *)
(* on where run() is, so IInv adds what each value of pc implies.            *)
(***************************************************************************)
EXTENDS BatchExecutorSpec, BatchExecutorLemmas

(* run() is between pushing a query and looking at the abort flag: the      *)
(* index names the last result.                                             *)
InBody == ex.pc \in {"pushed", "executing", "emit", "check"}

IndexInv ==
    /\ ex.pc = "idle" => /\ ex.results = <<>>
                         /\ reported = <<>>
                         /\ ~ex.failed /\ ~ex.doBreak
                         /\ begunAfter = 0
    /\ ex.pc # "idle" => ex.total = size /\ Begun <= size
    /\ InBody => Begun > 0 /\ ex.index = Begun - 1
    /\ ex.pc = "next" => ex.index = IF Begun = size THEN size - 1 ELSE Begun
    /\ ex.pc = "done" => Begun > 0

FlagInv ==
    /\ ex.failed => ex.doBreak
    /\ ex.doBreak => ex.failed \/ (ex.pc = "done" /\ asked)
    /\ ex.doBreak => ex.pc \in {"emit", "check", "done"}
    /\ ex.aborted => asked
    /\ begunAfter > 0 => ex.aborted /\ ex.pc # "next"

IInv ==
    /\ TypeOK
    /\ IndexInv
    /\ FlagInv
    /\ ReportsMatchResults
    /\ CountersAgree
    /\ FailureEndsBatch
    /\ ReturnsComplete
    /\ AbortStopsSoon

-----------------------------------------------------------------------------
(* The inductive invariant.                                                *)

(* A constructed executor satisfies the invariant.                          *)
LEMMA InitIInv == Init => IInv
  <1> SUFFICES ASSUME Init PROVE IInv
    OBVIOUS
  <1>1. PICK garbage \in Uninitialised :
          ex = [ pc |-> "idle", total |-> 0, results |-> <<>>, index |-> 0,
                 failedCount |-> 0, successCount |-> garbage, failed |-> FALSE,
                 aborted |-> FALSE, doBreak |-> FALSE ]
    BY DEF Init, NewExecutors
  <1>2. garbage \in Int /\ <<>> \in Seq(Results) /\ <<>> \in Seq(Nat)
    BY ExecutorAssumption
  <1>3. ex \in Executors
    BY <1>1, <1>2 DEF Executors, ExecutorPC
  <1>4. TypeOK
    BY <1>2, <1>3 DEF Init, TypeOK
  <1> QED
    BY <1>1, <1>4, MaxStatementsAssumption
    DEF Init, IInv, IndexInv, FlagInv, InBody, Begun, Answered,
        ReportsMatchResults, CountersAgree, FailureEndsBatch, ReturnsComplete,
        AbortStopsSoon

(* Every step of run() and every abort() preserves it.                     *)
LEMMA NextIInv == IInv /\ [Next]_vars => IInv'
  <1> SUFFICES ASSUME IInv, [Next]_vars PROVE IInv'
    OBVIOUS
  <1>0. /\ size \in Nat /\ size > 0
        /\ ex \in Executors
        /\ Len(ex.results) \in Nat
        /\ ex.total \in Nat /\ ex.index \in Nat
        /\ ex.successCount \in Int /\ ex.failedCount \in Nat
        /\ ex.failed \in BOOLEAN /\ ex.aborted \in BOOLEAN
        /\ ex.doBreak \in BOOLEAN
        /\ ex.pc \in ExecutorPC
        /\ Len(reported) \in Nat
        /\ begunAfter \in Nat /\ asked \in BOOLEAN
    BY MaxStatementsAssumption DEF IInv, TypeOK, Executors
  <1> USE DEF KeepsTotal, KeepsCounts, KeepsFlags, KeepsPosition
  <1>1. CASE StartRun
    <2>1. ex.pc = "idle" /\ ex' = Reset(ex, size)
      BY <1>0, <1>1 DEF StartRun
    <2>2. /\ ex' \in Executors
          /\ ex'.pc = "next" /\ ex'.total = size
          /\ Len(ex'.results) = 0 /\ ex'.index = 0
          /\ ex'.failedCount = 0 /\ ex'.successCount = 0
          /\ ~ex'.failed /\ ~ex'.aborted /\ ~ex'.doBreak
      BY <1>0, <2>1, ResetType
    <2>3. TypeOK'
      BY <1>0, <1>1, <2>2 DEF StartRun, IInv, TypeOK
    <2>4. (IndexInv /\ FlagInv)'
      BY <1>0, <1>1, <2>1, <2>2
      DEF StartRun, IInv, IndexInv, FlagInv, InBody, Begun, FailureEndsBatch,
           ReturnsComplete, AbortStopsSoon
    <2>5. (ReportsMatchResults /\ CountersAgree)'
      BY <1>0, <1>1, <2>1, <2>2
      DEF StartRun, IInv, IndexInv, FlagInv, InBody, Begun, Answered,
           ReportsMatchResults, CountersAgree
    <2>6. (FailureEndsBatch /\ ReturnsComplete /\ AbortStopsSoon)'
      BY <1>0, <1>1, <2>1, <2>2
      DEF StartRun, IInv, IndexInv, FlagInv, InBody, Begun, FailureEndsBatch,
           ReturnsComplete, AbortStopsSoon, Answered
    <2> QED
      BY <2>3, <2>4, <2>5, <2>6 DEF IInv
  <1>2. CASE PushQuery
    <2>1. HasNext(ex) /\ ex' = Push(ex)
      BY <1>0, <1>2 DEF PushQuery
    <2>2. /\ ex' \in Executors
          /\ ex'.pc = "pushed"
          /\ Len(ex'.results) = Len(ex.results) + 1
          /\ ex'.index = ex.index
          /\ KeepsTotal(ex, ex') /\ KeepsCounts(ex, ex') /\ KeepsFlags(ex, ex')
      BY <1>0, <2>1, PushType
    <2>3. TypeOK'
      BY <1>0, <1>2, <2>2 DEF PushQuery, IInv, TypeOK
    <2>4. (IndexInv /\ FlagInv)'
      BY <1>0, <1>2, <2>1, <2>2
      DEF PushQuery, HasNext, IInv, IndexInv, FlagInv, InBody, Begun, FailureEndsBatch,
           ReturnsComplete, AbortStopsSoon
    <2>5. (ReportsMatchResults /\ CountersAgree)'
      BY <1>0, <1>2, <2>1, <2>2
      DEF PushQuery, HasNext, IInv, IndexInv, FlagInv, InBody, Begun, Answered,
           ReportsMatchResults, CountersAgree
    <2>6. (FailureEndsBatch /\ ReturnsComplete /\ AbortStopsSoon)'
      BY <1>0, <1>2, <2>1, <2>2
      DEF PushQuery, HasNext, IInv, IndexInv, FlagInv, InBody, Begun, FailureEndsBatch,
           ReturnsComplete, AbortStopsSoon, Answered
    <2> QED
      BY <2>3, <2>4, <2>5, <2>6 DEF IInv
  <1>3. CASE SendQuery
    <2>1. ex.pc = "pushed" /\ ex' = [ex EXCEPT !.pc = "executing"]
      BY <1>0, <1>3 DEF SendQuery, Send
    <2>2. /\ ex' \in Executors
          /\ ex'.pc = "executing"
          /\ KeepsTotal(ex, ex') /\ KeepsPosition(ex, ex')
          /\ KeepsCounts(ex, ex') /\ KeepsFlags(ex, ex')
      BY <1>0, <2>1, MoveType DEF ExecutorPC
    <2>3. TypeOK'
      BY <1>0, <1>3, <2>2 DEF SendQuery, IInv, TypeOK
    <2>4. (IndexInv /\ FlagInv)'
      BY <1>0, <1>3, <2>1, <2>2
      DEF SendQuery, IInv, IndexInv, FlagInv, InBody, Begun, FailureEndsBatch,
           ReturnsComplete, AbortStopsSoon
    <2>5. (ReportsMatchResults /\ CountersAgree)'
      BY <1>0, <1>3, <2>1, <2>2
      DEF SendQuery, IInv, IndexInv, FlagInv, InBody, Begun, Answered,
           ReportsMatchResults, CountersAgree
    <2>6. (FailureEndsBatch /\ ReturnsComplete /\ AbortStopsSoon)'
      BY <1>0, <1>3, <2>1, <2>2
      DEF SendQuery, IInv, IndexInv, FlagInv, InBody, Begun, FailureEndsBatch,
           ReturnsComplete, AbortStopsSoon, Answered
    <2> QED
      BY <2>3, <2>4, <2>5, <2>6 DEF IInv
  <1>4. CASE ExecuteQuery
    <2>0. /\ ex.pc = "executing"
          /\ Len(ex.results) > 0 /\ ex.index = Len(ex.results) - 1
          /\ ex.total = size
      BY <1>4 DEF ExecuteQuery, IInv, IndexInv, InBody, Begun
    <2>1. PICK outcome \in Outcomes : ex' = Executed(ex, outcome)
      BY <1>4 DEF ExecuteQuery
    <2>2. /\ ex' \in Executors
          /\ ex'.pc = "emit"
          /\ Len(ex'.results) = Len(ex.results)
          /\ ex'.results[Len(ex'.results)] = outcome
          /\ ex'.total = ex.total /\ ex'.index = ex.index
          /\ ex'.aborted = ex.aborted
          /\ ex'.successCount + ex'.failedCount
               = ex.successCount + ex.failedCount + 1
          /\ outcome # "error" => ex'.failed = ex.failed /\ ex'.doBreak = ex.doBreak
          /\ outcome = "error" =>
               /\ ex'.failed = (ex.failed \/ StopOnError \/ IsLast(ex))
               /\ ex'.doBreak = (ex.doBreak \/ StopOnError \/ IsLast(ex))
      BY <1>0, <2>0, <2>1, ExecutedType
    <2>a. ~ex.failed /\ ~ex.doBreak
      BY <1>0, <2>0 DEF IInv, FlagInv
    <2>3. TypeOK'
      BY <1>0, <1>4, <2>2 DEF ExecuteQuery, IInv, TypeOK
    <2>b. outcome = "error" /\ (StopOnError \/ IsLast(ex)) <=> ex'.failed
      BY <2>2, <2>a
    <2>c. ex'.failed <=> ex'.doBreak
      BY <2>2, <2>a
    <2>4. (IndexInv /\ FlagInv)'
      BY <1>0, <1>4, <2>0, <2>2, <2>a, <2>c
      DEF ExecuteQuery, IInv, IndexInv, FlagInv, InBody, Begun, FailureEndsBatch,
           ReturnsComplete, AbortStopsSoon
    <2>5. (ReportsMatchResults /\ CountersAgree)'
      BY <1>0, <1>4, <2>0, <2>2
      DEF ExecuteQuery, IInv, IndexInv, FlagInv, InBody, Begun, Answered,
           ReportsMatchResults, CountersAgree
    <2>6. FailureEndsBatch'
      <3>1. SUFFICES ASSUME ex'.failed
                     PROVE  /\ ex'.results[Len(ex'.results)] = "error"
                            /\ StopOnError \/ Len(ex'.results) = ex'.total
        BY <2>2 DEF FailureEndsBatch, Begun
      <3> QED
        BY <1>0, <2>0, <2>2, <2>b, <3>1 DEF IsLast
    <2>7. (ReturnsComplete /\ AbortStopsSoon)'
      BY <1>0, <1>4, <2>2
      DEF ExecuteQuery, IInv, ReturnsComplete, AbortStopsSoon
    <2> QED
      BY <2>3, <2>4, <2>5, <2>6, <2>7 DEF IInv
  <1>5. CASE ReportQuery
    <2>1. ex.pc = "emit" /\ ex' = [ex EXCEPT !.pc = "check"]
      BY <1>0, <1>5 DEF ReportQuery, Report
    <2>2. /\ ex' \in Executors
          /\ ex'.pc = "check"
          /\ KeepsTotal(ex, ex') /\ KeepsPosition(ex, ex')
          /\ KeepsCounts(ex, ex') /\ KeepsFlags(ex, ex')
      BY <1>0, <2>1, MoveType DEF ExecutorPC
    <2>3. TypeOK'
      BY <1>0, <1>5, <2>2 DEF ReportQuery, IInv, TypeOK
    <2>4. (IndexInv /\ FlagInv)'
      BY <1>0, <1>5, <2>1, <2>2
      DEF ReportQuery, IInv, IndexInv, FlagInv, InBody, Begun, FailureEndsBatch,
           ReturnsComplete, AbortStopsSoon
    <2>5. (ReportsMatchResults /\ CountersAgree)'
      BY <1>0, <1>5, <2>1, <2>2
      DEF ReportQuery, IInv, IndexInv, FlagInv, InBody, Begun, Answered,
           ReportsMatchResults, CountersAgree
    <2>6. (FailureEndsBatch /\ ReturnsComplete /\ AbortStopsSoon)'
      BY <1>0, <1>5, <2>1, <2>2
      DEF ReportQuery, IInv, IndexInv, FlagInv, InBody, Begun, FailureEndsBatch,
           ReturnsComplete, AbortStopsSoon, Answered
    <2> QED
      BY <2>3, <2>4, <2>5, <2>6 DEF IInv
  <1>6. CASE CheckAbort
    <2>1. ex.pc = "check" /\ ex' = Check(ex)
      BY <1>0, <1>6 DEF CheckAbort
    <2>2. /\ ex' \in Executors
          /\ KeepsTotal(ex, ex') /\ KeepsCounts(ex, ex')
          /\ ex'.results = ex.results
          /\ ex'.failed = ex.failed /\ ex'.aborted = ex.aborted
          /\ ex.aborted \/ ex.doBreak => ex'.pc = "done" /\ ex'.doBreak
          /\ ~ex.aborted /\ ~ex.doBreak =>
               /\ ex'.pc = "next" /\ ~ex'.doBreak
               /\ ex'.index = IF ex.index = ex.total - 1
                              THEN ex.index ELSE ex.index + 1
      BY <1>0, <2>1, CheckType DEF IInv, IndexInv, InBody, Begun
    <2>3. TypeOK'
      BY <1>0, <1>6, <2>2 DEF CheckAbort, IInv, TypeOK
    <2>4. (IndexInv /\ FlagInv)'
      BY <1>0, <1>6, <2>1, <2>2
      DEF CheckAbort, IInv, IndexInv, FlagInv, InBody, Begun, FailureEndsBatch,
           ReturnsComplete, AbortStopsSoon
    <2>5. (ReportsMatchResults /\ CountersAgree)'
      BY <1>0, <1>6, <2>1, <2>2
      DEF CheckAbort, IInv, IndexInv, FlagInv, InBody, Begun, Answered,
           ReportsMatchResults, CountersAgree
    <2>6. (FailureEndsBatch /\ ReturnsComplete /\ AbortStopsSoon)'
      BY <1>0, <1>6, <2>1, <2>2
      DEF CheckAbort, IInv, IndexInv, FlagInv, InBody, Begun, FailureEndsBatch,
           ReturnsComplete, AbortStopsSoon, Answered
    <2> QED
      BY <2>3, <2>4, <2>5, <2>6 DEF IInv
  <1>7. CASE FinishRun
    <2>1. Finished(ex) /\ ex' = [ex EXCEPT !.pc = "done"]
      BY <1>0, <1>7 DEF FinishRun, Return
    <2>2. /\ ex' \in Executors
          /\ ex'.pc = "done"
          /\ KeepsTotal(ex, ex') /\ KeepsPosition(ex, ex')
          /\ KeepsCounts(ex, ex') /\ KeepsFlags(ex, ex')
      BY <1>0, <2>1, MoveType DEF ExecutorPC
    <2>3. TypeOK'
      BY <1>0, <1>7, <2>2 DEF FinishRun, IInv, TypeOK
    <2>4. (IndexInv /\ FlagInv)'
      BY <1>0, <1>7, <2>1, <2>2
      DEF FinishRun, Finished, IInv, IndexInv, FlagInv, InBody, Begun, FailureEndsBatch,
           ReturnsComplete, AbortStopsSoon
    <2>5. (ReportsMatchResults /\ CountersAgree)'
      BY <1>0, <1>7, <2>1, <2>2
      DEF FinishRun, Finished, IInv, IndexInv, FlagInv, InBody, Begun, Answered,
           ReportsMatchResults, CountersAgree
    <2>6. (FailureEndsBatch /\ ReturnsComplete /\ AbortStopsSoon)'
      BY <1>0, <1>7, <2>1, <2>2
      DEF FinishRun, Finished, IInv, IndexInv, FlagInv, InBody, Begun, FailureEndsBatch,
           ReturnsComplete, AbortStopsSoon, Answered
    <2> QED
      BY <2>3, <2>4, <2>5, <2>6 DEF IInv
  <1>8. CASE AskAbort
    <2>1. ex' = Abort(ex)
      BY <1>0, <1>8 DEF AskAbort
    <2>2. /\ ex' \in Executors
          /\ ex'.aborted /\ ex'.pc = ex.pc
          /\ KeepsTotal(ex, ex') /\ KeepsPosition(ex, ex') /\ KeepsCounts(ex, ex')
          /\ ex'.failed = ex.failed /\ ex'.doBreak = ex.doBreak
      BY <1>0, <2>1, AbortType
    <2>3. TypeOK'
      BY <1>0, <1>8, <2>2 DEF AskAbort, IInv, TypeOK
    <2>4. (IndexInv /\ FlagInv)'
      BY <1>0, <1>8, <2>1, <2>2
      DEF AskAbort, IInv, IndexInv, FlagInv, InBody, Begun, FailureEndsBatch,
           ReturnsComplete, AbortStopsSoon
    <2>5. (ReportsMatchResults /\ CountersAgree)'
      BY <1>0, <1>8, <2>1, <2>2
      DEF AskAbort, IInv, IndexInv, FlagInv, InBody, Begun, Answered,
           ReportsMatchResults, CountersAgree
    <2>6. (FailureEndsBatch /\ ReturnsComplete /\ AbortStopsSoon)'
      BY <1>0, <1>8, <2>1, <2>2
      DEF AskAbort, IInv, IndexInv, FlagInv, InBody, Begun, FailureEndsBatch,
           ReturnsComplete, AbortStopsSoon, Answered
    <2> QED
      BY <2>3, <2>4, <2>5, <2>6 DEF IInv
  <1>9. CASE UNCHANGED vars
    BY <1>9 DEF vars, TypeOK, Answered, CountersAgree, ReportsMatchResults,
           IInv, IndexInv, FlagInv, InBody, Begun, FailureEndsBatch,
           ReturnsComplete, AbortStopsSoon
  <1> QED
    BY <1>1, <1>2, <1>3, <1>4, <1>5, <1>6, <1>7, <1>8, <1>9 DEF Next, Worker

(* The inductive invariant holds in every reachable state.                 *)
THEOREM IInvHolds == Spec => []IInv
  BY InitIInv, NextIInv, PTL DEF Spec
-----------------------------------------------------------------------------
(* The executor's record has its type in every reachable state.            *)
THEOREM TypeCorrect == Spec => []TypeOK
  <1>1. IInv => TypeOK
    BY DEF IInv
  <1> QED
    BY <1>1, IInvHolds, PTL

(* The index of every afterQueryExecution names the result of the statement *)
(* that has just run, and the counters are those of the results.            *)
THEOREM ReportsCorrect == Spec => [](ReportsMatchResults /\ CountersAgree)
  <1>1. IInv => ReportsMatchResults /\ CountersAgree
    BY DEF IInv
  <1> QED
    BY <1>1, IInvHolds, PTL

(* A failed batch ended at the statement that threw; a batch that neither  *)
(* failed nor was aborted ran to its last statement.                       *)
THEOREM EndsCorrectly == Spec => [](FailureEndsBatch /\ ReturnsComplete)
  <1>1. IInv => FailureEndsBatch /\ ReturnsComplete
    BY DEF IInv
  <1> QED
    BY <1>1, IInvHolds, PTL

(* An abort that run() has not overwritten lets at most one more statement *)
(* through.                                                                *)
THEOREM AbortStops == Spec => []AbortStopsSoon
  <1>1. IInv => AbortStopsSoon
    BY DEF IInv
  <1> QED
    BY <1>1, IInvHolds, PTL

(* The counters agree with the results wherever another thread reads them.  *)
THEOREM CountersCorrect == Spec => []CountersAgree
  <1>1. IInv => CountersAgree
    BY DEF IInv
  <1> QED
    BY <1>1, IInvHolds, PTL

(* A statement that threw is the last one of a batch that stops on errors.  *)
THEOREM FailureIsLast == Spec => []FailureEndsBatch
  <1>1. IInv => FailureEndsBatch
    BY DEF IInv
  <1> QED
    BY <1>1, IInvHolds, PTL
=============================================================================
